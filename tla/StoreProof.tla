----------------------------- MODULE StoreProof -----------------------------
(***************************************************************************)
(* Proofs about the versioned store, for every set of repositories,        *)
(* branches, commits, paths and contents: refs resolve as long as no       *)
(* repository is deleted, and commits are built on finished ones as long   *)
(* as, besides, no branch is pointed at an open commit.  Then about what   *)
(* commits show: a view is its parent's with the commit's own operations   *)
(* applied, whatever clients do; as long as no branch is pointed at an     *)
(* open commit the views of finished commits never change, show no path    *)
(* that is both file and directory, and tell commits apart by their        *)
(* markers.                                                                *)
(***************************************************************************)
EXTENDS Store, FiniteSetTheorems, SequenceTheorems, TLAPS

Statuses == {"none", "open", "finished", "gone"}

(* The type of the state, but for the operations of a record, which refs   *)
(* and parents do not depend on (TInv below has their type).               *)
RecordLike(r) ==
  r \in [status : Statuses, repo : Repos \cup {NoBranch},
         branch : Branches \cup {NoBranch}, parent : Commits \cup {NoCommit},
         empty : BOOLEAN, ops : {r.ops}]

Shape ==
  /\ repos \subseteq Repos
  /\ rec = [c \in Commits |-> rec[c]]
  /\ \A c \in Commits : RecordLike(rec[c])
  /\ heads \in [Repos -> [Branches -> Commits \cup {NoCommit}]]
  /\ retarget \in [repo : Repos, branch : Branches, head : Commits] \cup {NoRetarget}

(* A commit that is there lies in a repository that is there.              *)
CommitsHoused ==
  \A c \in Commits : Present(c) => rec[c].repo \in repos /\ rec[c].branch \in Branches

(* What createBranch checked still holds when the ref is moved.            *)
RetargetHolds ==
  retarget # NoRetarget =>
    Present(retarget.head) /\ rec[retarget.head].repo = retarget.repo

IInv == Shape /\ CommitsHoused /\ RetargetHolds /\ RefsResolve

----------------------------------------------------------------------------
(* The steps, as far as the proofs need them: one kind of step for all the *)
(* operations that write to an open commit.                                *)

(* A write to an open commit, whatever the operations.                     *)
Writes(c) == \E ops : AppendOps(c, ops)

(* Every step is one of these.                                             *)
LEMMA NextCases ==
  ASSUME Next
  PROVE  \/ \E r \in Repos : CreateRepo(r)
         \/ \E r \in Repos : DeleteRepo(r)
         \/ \E r \in Repos, b \in Branches : DeleteBranch(r, b)
         \/ \E r \in Repos, b \in Branches, c \in Commits : createBranch(r, b, c)
         \/ \E r \in Repos, b \in Branches, c \in Commits : StartCommit(r, b, c)
         \/ \E c \in Commits : Writes(c)
         \/ \E c \in Commits, empty \in BOOLEAN : FinishCommit(c, empty)
         \/ MoveRef
<1>1. CASE \E r \in Repos : RepoNext(r)
  BY <1>1 DEF RepoNext
<1>2. ASSUME NEW c \in Commits, CommitNext(c)
      PROVE  Writes(c) \/ \E empty \in BOOLEAN : FinishCommit(c, empty)
  <2>1. ASSUME NEW p \in Paths, NEW x \in Contents, PutFile(c, p, x) \/ OverwriteFile(c, p, x)
        PROVE  Writes(c)
    BY <2>1 DEF PutFile, OverwriteFile, Writes
  <2>2. ASSUME NEW p \in Paths, DeleteFile(c, p)
        PROVE  Writes(c)
    BY <2>2 DEF DeleteFile, Writes
  <2>3. ASSUME NEW dst \in Paths, NEW src \in Paths, NEW from \in Commits,
               NEW ow \in BOOLEAN, CopyFile(c, dst, from, src, ow)
        PROVE  Writes(c)
    BY <2>3 DEF CopyFile, Writes
  <2> QED BY <1>2, <2>1, <2>2, <2>3 DEF CommitNext
<1> QED BY <1>1, <1>2 DEF Next

----------------------------------------------------------------------------
(* Refs.                                                                   *)

LEMMA InitIInv ==
  ASSUME Init
  PROVE  IInv
BY StoreAssumption DEF Init, Empty, IInv, Shape, RecordLike, Statuses, NoRecord, CommitsHoused,
   RetargetHolds, RefsResolve, Present

(* A write changes no part of a record but its operations.                 *)
LEMMA WritesKeep ==
  ASSUME IInv, NEW c \in Commits, Writes(c)
  PROVE  IInv' /\ Open(c) /\ UNCHANGED heads
         /\ \A d \in Commits : rec'[d].status = rec[d].status /\ rec'[d].parent = rec[d].parent
<1>1. PICK ops : AppendOps(c, ops)
  BY DEF Writes
<1>2. /\ rec' = [rec EXCEPT ![c] = [rec[c] EXCEPT !.ops = @ \o ops]]
      /\ UNCHANGED <<repos, heads, default, retarget>> /\ Open(c)
  BY <1>1 DEF AppendOps
<1>3. \A d \in Commits : RecordLike(rec[d])
  BY DEF IInv, Shape
<1>4. \A d \in Commits :
        /\ RecordLike(rec'[d])
        /\ rec'[d].status = rec[d].status /\ rec'[d].repo = rec[d].repo
        /\ rec'[d].branch = rec[d].branch /\ rec'[d].parent = rec[d].parent
  BY <1>2, <1>3 DEF IInv, Shape, RecordLike
<1>5. Shape'
  BY <1>2, <1>4 DEF IInv, Shape
<1>6. \A d \in Commits : Present(d)' = Present(d)
  BY <1>4 DEF Present
<1>7. CommitsHoused' /\ RetargetHolds' /\ RefsResolve'
  BY <1>2, <1>4, <1>6 DEF IInv, Shape, CommitsHoused, RetargetHolds, RefsResolve
<1> QED BY <1>2, <1>4, <1>5, <1>7 DEF IInv

(* Finishing a commit changes its own record only, and keeps its place.    *)
LEMMA FinishKeeps ==
  ASSUME Shape, CommitsHoused, NEW c \in Commits, NEW empty \in BOOLEAN, FinishCommit(c, empty)
  PROVE  /\ Shape' /\ UNCHANGED <<repos, retarget>>
         /\ Open(c) /\ rec'[c].status = "finished"
         /\ rec[c].repo \in repos /\ rec[c].branch \in Branches
         /\ heads' = [heads EXCEPT ![rec[c].repo][rec[c].branch] = c]
         /\ \A d \in Commits : /\ rec'[d].repo = rec[d].repo /\ rec'[d].branch = rec[d].branch
                               /\ rec'[d].parent = rec[d].parent
                               /\ d # c => rec'[d].status = rec[d].status
<1> DEFINE closed == [[[rec[c] EXCEPT !.ops = @ \o MarkerOps(c)] EXCEPT !.empty = empty]
                        EXCEPT !.status = "finished"]
<1>1. rec' = [rec EXCEPT ![c] = closed]
  BY DEF FinishCommit
<1>2. /\ UNCHANGED <<repos, retarget>> /\ Open(c)
      /\ heads' = [heads EXCEPT ![rec[c].repo][rec[c].branch] = c]
  BY DEF FinishCommit, SetHead
<1>3. rec[c].repo \in repos /\ rec[c].branch \in Branches
  BY <1>2 DEF CommitsHoused, Present, Open
<1>4. \A d \in Commits : RecordLike(rec[d])
  BY DEF Shape
<1>5. /\ RecordLike(closed) /\ closed.status = "finished"
      /\ closed.repo = rec[c].repo /\ closed.branch = rec[c].branch
      /\ closed.parent = rec[c].parent
  BY <1>4 DEF RecordLike, Statuses
<1> HIDE DEF closed
<1>6. \A d \in Commits : /\ RecordLike(rec'[d])
                         /\ rec'[d].repo = rec[d].repo /\ rec'[d].branch = rec[d].branch
                         /\ rec'[d].parent = rec[d].parent
                         /\ d # c => rec'[d].status = rec[d].status
  BY <1>1, <1>4, <1>5 DEF Shape
<1>7. rec' = [d \in Commits |-> rec'[d]] /\ rec'[c].status = "finished"
  BY <1>1, <1>5 DEF Shape
<1>8. repos \subseteq Repos /\ heads' \in [Repos -> [Branches -> Commits \cup {NoCommit}]]
  BY <1>2, <1>3 DEF Shape
<1>9. Shape'
  BY <1>2, <1>6, <1>7, <1>8 DEF Shape
<1> QED BY <1>2, <1>3, <1>6, <1>7, <1>9

(* A new commit is open, in its repository, on top of the head.            *)
LEMMA StartKeeps ==
  ASSUME Shape, NEW r \in Repos, NEW b \in Branches, NEW c \in Commits, StartCommit(r, b, c)
  PROVE  /\ Shape' /\ UNCHANGED <<heads, retarget>> /\ repos' = repos \cup {r}
         /\ ~Present(c) /\ rec'[c].status = "open" /\ rec'[c].repo = r
         /\ rec'[c].branch = b /\ rec'[c].parent = heads[r][b]
         /\ \A d \in Commits \ {c} : rec'[d] = rec[d]
<1> DEFINE new == [status |-> "open", repo |-> r, branch |-> b,
                   parent |-> heads[r][b], empty |-> FALSE, ops |-> <<>>]
<1>1. /\ rec' = [rec EXCEPT ![c] = new] /\ repos' = repos \cup {r}
      /\ UNCHANGED <<heads, retarget>> /\ ~Present(c)
  BY DEF StartCommit, Present
<1>2. RecordLike(new) /\ new.status = "open" /\ new.repo = r /\ new.branch = b
      /\ new.parent = heads[r][b]
  BY DEF RecordLike, Statuses, Shape
<1> HIDE DEF new
<1>3. rec'[c] = new /\ (\A d \in Commits \ {c} : rec'[d] = rec[d])
      /\ rec' = [d \in Commits |-> rec'[d]]
  BY <1>1 DEF Shape
<1>4. \A d \in Commits : RecordLike(rec'[d])
  BY <1>2, <1>3 DEF Shape
<1>5. Shape'
  BY <1>1, <1>3, <1>4 DEF Shape
<1> QED BY <1>1, <1>2, <1>3, <1>5

(* Every step keeps the invariant when repositories are not deleted.       *)
LEMMA StepIInv ==
  ASSUME ~MayDeleteRepo, IInv, [Next]_vars
  PROVE  IInv'
<1> USE DEF IInv
<1>1. ASSUME NEW r \in Repos, CreateRepo(r)
      PROVE  IInv'
  BY <1>1 DEF CreateRepo, Shape, CommitsHoused, RetargetHolds, RefsResolve, Present
<1>2. ASSUME NEW r \in Repos, DeleteRepo(r)
      PROVE  FALSE
  BY <1>2 DEF DeleteRepo
<1>3. ASSUME NEW r \in Repos, NEW b \in Branches, DeleteBranch(r, b)
      PROVE  IInv'
  <2>1. /\ UNCHANGED <<repos, rec, retarget>>
        /\ heads' = [heads EXCEPT ![r][b] = NoCommit]
    BY <1>3 DEF DeleteBranch
  <2>2. heads' \in [Repos -> [Branches -> Commits \cup {NoCommit}]]
    BY <2>1 DEF Shape
  <2>3. \A s \in Repos, d \in Branches : heads'[s][d] \in {heads[s][d], NoCommit}
    BY <2>1 DEF Shape
  <2> QED BY <2>1, <2>2, <2>3 DEF Shape, CommitsHoused, RetargetHolds, RefsResolve, Present
<1>4. ASSUME NEW r \in Repos, NEW b \in Branches, NEW c \in Commits, createBranch(r, b, c)
      PROVE  IInv'
  BY <1>4 DEF createBranch, Shape, CommitsHoused, RetargetHolds, RefsResolve, Present
<1>5. ASSUME NEW r \in Repos, NEW b \in Branches, NEW c \in Commits, StartCommit(r, b, c)
      PROVE  IInv'
  <2>1. /\ Shape' /\ UNCHANGED <<heads, retarget>> /\ repos' = repos \cup {r}
        /\ ~Present(c) /\ rec'[c].repo = r /\ rec'[c].branch = b
        /\ \A d \in Commits \ {c} : rec'[d] = rec[d]
    BY <1>5, StartKeeps
  <2>2. \A d \in Commits : Present(d) => d # c /\ rec'[d] = rec[d] /\ Present(d)'
    BY <2>1 DEF Present
  <2>3. CommitsHoused'
    BY <2>1, <2>2 DEF CommitsHoused, Present
  <2>4. RetargetHolds'
    BY <2>1, <2>2, StoreAssumption DEF RetargetHolds, Shape, NoRetarget
  <2>5. RefsResolve'
    <3> SUFFICES ASSUME NEW s \in Repos, NEW d \in Branches, heads[s][d] # NoCommit
                 PROVE  s \in repos' /\ Present(heads[s][d])' /\ rec'[heads[s][d]].repo = s
      BY <2>1 DEF RefsResolve, Present
    <3>1. heads[s][d] \in Commits
      BY DEF Shape
    <3> QED BY <2>1, <2>2, <3>1 DEF RefsResolve
  <2> QED BY <2>1, <2>3, <2>4, <2>5
<1>6. ASSUME NEW c \in Commits, Writes(c)
      PROVE  IInv'
  BY <1>6, WritesKeep
<1>7. ASSUME NEW c \in Commits, NEW empty \in BOOLEAN, FinishCommit(c, empty)
      PROVE  IInv'
  <2>1. /\ Shape' /\ UNCHANGED <<repos, retarget>>
        /\ Open(c) /\ rec'[c].status = "finished"
        /\ rec[c].repo \in repos /\ rec[c].branch \in Branches
        /\ heads' = [heads EXCEPT ![rec[c].repo][rec[c].branch] = c]
        /\ \A d \in Commits : /\ rec'[d].repo = rec[d].repo /\ rec'[d].branch = rec[d].branch
                              /\ d # c => rec'[d].status = rec[d].status
    BY <1>7, FinishKeeps
  <2>2. \A d \in Commits : Present(d)' = Present(d)
    BY <2>1 DEF Present, Open
  <2>3. CommitsHoused'
    BY <2>1, <2>2 DEF CommitsHoused
  <2>4. RetargetHolds'
    BY <2>1, <2>2 DEF RetargetHolds, Shape
  <2>5. RefsResolve'
    <3> SUFFICES ASSUME NEW s \in Repos, NEW d \in Branches, heads'[s][d] # NoCommit
                 PROVE  /\ s \in repos /\ rec'[heads'[s][d]].repo = s
                        /\ rec'[heads'[s][d]].status \in {"open", "finished"}
      BY <2>1 DEF RefsResolve, Present
    <3>1. CASE heads'[s][d] = heads[s][d]
      <4>1. heads[s][d] \in Commits
        BY <3>1 DEF Shape
      <4>2. s \in repos /\ Present(heads[s][d]) /\ rec[heads[s][d]].repo = s
        BY <3>1 DEF RefsResolve
      <4> QED BY <2>1, <3>1, <4>1, <4>2 DEF Present
    <3>2. CASE s = rec[c].repo /\ heads'[s][d] = c
      BY <2>1, <3>2
    <3> QED BY <2>1, <3>1, <3>2 DEF Shape
  <2> QED BY <2>1, <2>3, <2>4, <2>5
<1>8. CASE MoveRef
  <2>1. /\ retarget # NoRetarget /\ UNCHANGED rec /\ retarget' = NoRetarget
        /\ heads' = [heads EXCEPT ![retarget.repo][retarget.branch] = retarget.head]
        /\ repos' = repos \cup {retarget.repo}
    BY <1>8 DEF MoveRef, SetHead
  <2>2. retarget.repo \in Repos /\ retarget.branch \in Branches /\ retarget.head \in Commits
    BY <2>1 DEF Shape
  <2>3. heads' \in [Repos -> [Branches -> Commits \cup {NoCommit}]]
    BY <2>1, <2>2 DEF Shape
  <2>4. Shape' /\ CommitsHoused' /\ RetargetHolds'
    BY <2>1, <2>2, <2>3 DEF Shape, CommitsHoused, RetargetHolds, Present
  <2>5. RefsResolve'
    <3> SUFFICES ASSUME NEW s \in Repos, NEW d \in Branches, heads'[s][d] # NoCommit
                 PROVE  s \in repos' /\ Present(heads'[s][d]) /\ rec[heads'[s][d]].repo = s
      BY <2>1 DEF RefsResolve, Present
    <3>1. CASE heads'[s][d] = heads[s][d]
      BY <2>1, <3>1 DEF RefsResolve
    <3>2. CASE s = retarget.repo /\ heads'[s][d] = retarget.head
      BY <2>1, <3>2 DEF RetargetHolds
    <3> QED BY <2>1, <2>2, <3>1, <3>2 DEF Shape
  <2> QED BY <2>4, <2>5
<1>9. CASE UNCHANGED vars
  BY <1>9 DEF vars, Shape, CommitsHoused, RetargetHolds, RefsResolve, Present
<1> QED
  <2>1. CASE Next
    BY <2>1, NextCases, <1>1, <1>2, <1>3, <1>4, <1>5, <1>6, <1>7, <1>8
  <2> QED BY <2>1, <1>9

(* The RefsResolve invariant: in a store whose repositories are not        *)
(* deleted, every branch ref names a commit of its own repository that is  *)
(* there, although createBranch checks the commit in one step and moves    *)
(* the ref in another (api.go createBranch, store.go SetHead).             *)
THEOREM RefsAlwaysResolve ==
  ASSUME ~MayDeleteRepo
  PROVE  Spec => []RefsResolve
<1>1. Init => IInv
  BY InitIInv
<1>2. IInv /\ [Next]_vars => IInv'
  BY StepIInv
<1>3. IInv => RefsResolve
  BY DEF IInv
<1> QED BY <1>1, <1>2, <1>3, PTL DEF Spec

----------------------------------------------------------------------------
(* Parents.                                                                *)

(* What a branch points at, or is about to, is finished.                   *)
HeadsFinished ==
  /\ \A r \in Repos, b \in Branches : heads[r][b] # NoCommit => Finished(heads[r][b])
  /\ retarget # NoRetarget => Finished(retarget.head)

PInv == IInv /\ HeadsFinished /\ ParentsFinished

(* A step of the records alone: nothing unfinished comes to be relied on.  *)
LEMMA RecordsKeepPInv ==
  ASSUME PInv, IInv', UNCHANGED <<heads, retarget>>,
         \A d \in Commits : Finished(d) => Finished(d)',
         \A d \in Commits : Present(d)' =>
           rec'[d].parent = NoCommit \/ Finished(rec'[d].parent)
           \/ (Present(d) /\ rec'[d].parent = rec[d].parent)
  PROVE  PInv'
<1>1. Shape /\ HeadsFinished /\ ParentsFinished
  BY DEF PInv, IInv
<1>2. HeadsFinished'
  <2>1. \A r \in Repos, b \in Branches : heads[r][b] # NoCommit => Finished(heads[r][b])'
    BY <1>1 DEF Shape, HeadsFinished
  <2>2. retarget # NoRetarget => Finished(retarget.head)'
    BY <1>1 DEF Shape, HeadsFinished
  <2> QED BY <2>1, <2>2 DEF HeadsFinished, Finished
<1>3. ParentsFinished'
  <2> SUFFICES ASSUME NEW d \in Commits, Present(d)', rec'[d].parent # NoCommit
               PROVE  rec'[rec'[d].parent].status = "finished"
    BY DEF ParentsFinished, Finished, Present
  <2>1. Finished(rec'[d].parent)
    BY <1>1 DEF ParentsFinished
  <2>2. rec'[d].parent \in Commits
    BY DEF IInv, Shape, RecordLike
  <2> QED BY <2>1, <2>2 DEF Finished
<1> QED BY <1>2, <1>3 DEF PInv

(* Every step keeps it when branches are pointed at finished commits only, *)
(* and no step changes the record of a finished commit.                    *)
LEMMA StepPInv ==
  ASSUME ~MayDeleteRepo, ~RetargetOpen, PInv, [Next]_vars
  PROVE  PInv' /\ \A d \in Commits : Finished(d) => rec'[d] = rec[d]
<1> DEFINE Frozen == \A d \in Commits : Finished(d) => rec'[d] = rec[d]
<1>0. IInv /\ Shape /\ HeadsFinished /\ ParentsFinished
  BY DEF PInv, IInv
<1>I. IInv'
  BY <1>0, StepIInv
<1>K. ASSUME UNCHANGED rec, HeadsFinished'
      PROVE  PInv' /\ Frozen
  BY <1>0, <1>I, <1>K DEF PInv, ParentsFinished, Present, Finished
<1>1. ASSUME NEW r \in Repos, CreateRepo(r)
      PROVE  PInv' /\ Frozen
  BY <1>0, <1>1, <1>K DEF CreateRepo, HeadsFinished, Finished
<1>2. ASSUME NEW r \in Repos, DeleteRepo(r)
      PROVE  FALSE
  BY <1>2 DEF DeleteRepo
<1>3. ASSUME NEW r \in Repos, NEW b \in Branches, DeleteBranch(r, b)
      PROVE  PInv' /\ Frozen
  <2>1. /\ UNCHANGED <<rec, retarget>>
        /\ \A s \in Repos, d \in Branches : heads'[s][d] \in {heads[s][d], NoCommit}
    BY <1>0, <1>3 DEF DeleteBranch, Shape
  <2> QED BY <1>0, <2>1, <1>K DEF HeadsFinished, Finished
<1>4. ASSUME NEW r \in Repos, NEW b \in Branches, NEW c \in Commits, createBranch(r, b, c)
      PROVE  PInv' /\ Frozen
  <2>1. /\ UNCHANGED <<rec, heads>> /\ Finished(c) /\ retarget'.head = c
    BY <1>4 DEF createBranch, Present, Open, Finished
  <2> QED BY <1>0, <2>1, <1>K DEF HeadsFinished, Finished
<1>5. ASSUME NEW r \in Repos, NEW b \in Branches, NEW c \in Commits, StartCommit(r, b, c)
      PROVE  PInv' /\ Frozen
  <2>1. /\ UNCHANGED <<heads, retarget>> /\ ~Present(c) /\ rec'[c].status = "open"
        /\ rec'[c].parent = heads[r][b]
        /\ \A d \in Commits \ {c} : rec'[d] = rec[d]
    BY <1>0, <1>5, StartKeeps
  <2>2. \A d \in Commits : Finished(d) => d # c /\ rec'[d] = rec[d] /\ Finished(d)'
    BY <2>1 DEF Present, Finished
  <2>3. heads[r][b] = NoCommit \/ Finished(heads[r][b])
    BY <1>0 DEF HeadsFinished
  <2>4. \A d \in Commits : Present(d)' =>
           rec'[d].parent = NoCommit \/ Finished(rec'[d].parent)
           \/ (Present(d) /\ rec'[d].parent = rec[d].parent)
    BY <2>1, <2>3 DEF Present
  <2> QED BY <1>I, <2>1, <2>2, <2>4, RecordsKeepPInv
<1>6. ASSUME NEW c \in Commits, Writes(c)
      PROVE  PInv' /\ Frozen
  <2>1. /\ Open(c)
        /\ \A d \in Commits : rec'[d].status = rec[d].status /\ rec'[d].parent = rec[d].parent
    BY <1>0, <1>6, WritesKeep
  <2>2. UNCHANGED <<heads, retarget>> /\ \A d \in Commits \ {c} : rec'[d] = rec[d]
    BY <1>0, <1>6 DEF Writes, AppendOps, Shape
  <2>3. \A d \in Commits : /\ Finished(d) => rec'[d] = rec[d] /\ Finished(d)'
                           /\ Present(d)' => Present(d)
    BY <2>1, <2>2 DEF Finished, Present, Open
  <2> QED BY <1>I, <2>1, <2>2, <2>3, RecordsKeepPInv
<1>7. ASSUME NEW c \in Commits, NEW empty \in BOOLEAN, FinishCommit(c, empty)
      PROVE  PInv' /\ Frozen
  <2>0. /\ Open(c) /\ rec'[c].status = "finished" /\ UNCHANGED retarget
        /\ rec[c].repo \in repos /\ rec[c].branch \in Branches
        /\ heads' = [heads EXCEPT ![rec[c].repo][rec[c].branch] = c]
        /\ \A d \in Commits : /\ rec'[d].parent = rec[d].parent
                              /\ d # c => rec'[d].status = rec[d].status
    BY <1>0, <1>7, FinishKeeps DEF IInv
  <2>1. /\ Open(c) /\ rec'[c].status = "finished" /\ UNCHANGED retarget
        /\ rec[c].repo \in Repos /\ rec[c].branch \in Branches
        /\ heads' = [heads EXCEPT ![rec[c].repo][rec[c].branch] = c]
        /\ \A d \in Commits : /\ rec'[d].parent = rec[d].parent
                              /\ d # c => rec'[d].status = rec[d].status
    <3>1. rec[c].repo \in Repos
      BY <1>0, <2>0 DEF Shape
    <3> QED BY <2>0, <3>1
  <2>2. \A d \in Commits \ {c} : rec'[d] = rec[d]
    BY <1>0, <1>7 DEF FinishCommit, Shape
  <2>3. \A d \in Commits : /\ Finished(d) => rec'[d] = rec[d] /\ Finished(d)'
                           /\ Present(d)' => Present(d)
    BY <2>1, <2>2 DEF Finished, Present, Open
  <2>4. \A s \in Repos, d \in Branches : heads'[s][d] \in {heads[s][d], c}
    BY <1>0, <2>1 DEF Shape
  <2>5. \A s \in Repos, d \in Branches :
          heads'[s][d] # NoCommit => rec'[heads'[s][d]].status = "finished"
    <3> SUFFICES ASSUME NEW s \in Repos, NEW d \in Branches, heads'[s][d] # NoCommit
                 PROVE  rec'[heads'[s][d]].status = "finished"
      OBVIOUS
    <3>1. CASE heads'[s][d] = c
      BY <2>1, <3>1
    <3>2. CASE heads'[s][d] = heads[s][d]
      <4>1. heads[s][d] \in Commits /\ Finished(heads[s][d])
        BY <1>0, <3>2 DEF Shape, HeadsFinished
      <4> QED BY <2>3, <3>2, <4>1 DEF Finished
    <3> QED BY <2>4, <3>1, <3>2
  <2>6. retarget # NoRetarget => Finished(retarget.head)'
    BY <1>0, <2>1, <2>3 DEF Shape, HeadsFinished
  <2>7. HeadsFinished'
    BY <2>1, <2>5, <2>6 DEF HeadsFinished, Finished
  <2>8. ParentsFinished'
    <3> SUFFICES ASSUME NEW d \in Commits, Present(d)', rec'[d].parent # NoCommit
                 PROVE  rec'[rec'[d].parent].status = "finished"
      BY DEF ParentsFinished, Finished, Present
    <3>1. rec[d].parent \in Commits /\ Finished(rec[d].parent)
      BY <1>0, <2>1, <2>3 DEF ParentsFinished, Shape, RecordLike
    <3> QED BY <2>1, <2>3, <3>1 DEF Finished
  <2> QED BY <1>I, <2>3, <2>7, <2>8 DEF PInv
<1>8. CASE MoveRef
  <2>1. /\ retarget # NoRetarget /\ UNCHANGED rec /\ retarget' = NoRetarget
        /\ heads' = [heads EXCEPT ![retarget.repo][retarget.branch] = retarget.head]
    BY <1>8 DEF MoveRef, SetHead
  <2>2. \A s \in Repos, d \in Branches : heads'[s][d] \in {heads[s][d], retarget.head}
    BY <1>0, <2>1 DEF Shape
  <2>3. Finished(retarget.head)
    BY <1>0, <2>1 DEF HeadsFinished
  <2>4. \A s \in Repos, d \in Branches :
          heads'[s][d] # NoCommit => Finished(heads'[s][d])
    <3> SUFFICES ASSUME NEW s \in Repos, NEW d \in Branches, heads'[s][d] # NoCommit
                 PROVE  Finished(heads'[s][d])
      OBVIOUS
    <3>1. CASE heads'[s][d] = heads[s][d]
      BY <1>0, <3>1 DEF HeadsFinished
    <3>2. CASE heads'[s][d] = retarget.head
      BY <2>3, <3>2
    <3> QED BY <2>2, <3>1, <3>2
  <2>5. HeadsFinished'
    BY <2>1, <2>4 DEF HeadsFinished, Finished
  <2> QED BY <2>1, <2>5, <1>K
<1>9. CASE UNCHANGED vars
  BY <1>0, <1>9, <1>K DEF vars, HeadsFinished, Finished
<1> QED
  <2>1. CASE Next
    BY <2>1, NextCases, <1>1, <1>2, <1>3, <1>4, <1>5, <1>6, <1>7, <1>8
  <2> QED BY <2>1, <1>9

(* The ParentsFinished invariant: where branches are pointed at finished   *)
(* commits only and repositories stay, every commit is started on a        *)
(* finished one and stays on it (store.go StartCommit, FinishCommit).      *)
THEOREM ParentsAlwaysFinished ==
  ASSUME ~MayDeleteRepo, ~RetargetOpen
  PROVE  Spec => []ParentsFinished
<1>1. Init => PInv
  BY InitIInv DEF PInv, HeadsFinished, ParentsFinished, Init, Empty, NoRecord, Present
<1>2. PInv /\ [Next]_vars => PInv'
  BY StepPInv
<1>3. PInv => ParentsFinished
  BY DEF PInv
<1> QED BY <1>1, <1>2, <1>3, PTL DEF Spec

(* History is frozen: no step changes the record of a finished commit, and *)
(* its parent's record is frozen as well.  This is why views are           *)
(* immutable: a view is computed from the records of the ancestry.         *)
FrozenHistory ==
  [][\A c \in Commits : Finished(c) =>
       rec'[c] = rec[c] /\ (rec[c].parent # NoCommit => Finished(rec[c].parent))]_vars

(* FrozenHistory holds of the store under the same two conditions.         *)
THEOREM HistoryIsFrozen ==
  ASSUME ~MayDeleteRepo, ~RetargetOpen
  PROVE  Spec => FrozenHistory
<1>1. Init => PInv
  BY InitIInv DEF PInv, HeadsFinished, ParentsFinished, Init, Empty, NoRecord, Present
<1>2. PInv /\ [Next]_vars => PInv'
  BY StepPInv
<1>3. PInv /\ [Next]_vars =>
        [\A c \in Commits : Finished(c) =>
           rec'[c] = rec[c] /\ (rec[c].parent # NoCommit => Finished(rec[c].parent))]_vars
  BY StepPInv DEF PInv, ParentsFinished, Present, Finished
<1> QED BY <1>1, <1>2, <1>3, PTL DEF Spec, FrozenHistory

----------------------------------------------------------------------------
(* Steps.  What a step does to a record, to a ref and to a request, with   *)
(* repositories deleted or not and branches pointed anywhere.              *)

Vanishes(d) == Present(d) /\ rec'[d] = [NoRecord EXCEPT !.status = "gone"]

Starts(d) ==
  /\ rec[d].status = "none" /\ rec'[d].status = "open"
  /\ rec'[d].ops = <<>> /\ ~rec'[d].empty
  /\ \E r \in Repos, b \in Branches : rec'[d].repo = r /\ rec'[d].parent = heads[r][b]

Edited(d) ==
  /\ Open(d) /\ rec'[d].status \in {"open", "finished"}
  /\ rec'[d].repo = rec[d].repo /\ rec'[d].branch = rec[d].branch
  /\ rec'[d].parent = rec[d].parent

RecordStep(d) == rec'[d] = rec[d] \/ Vanishes(d) \/ Starts(d) \/ Edited(d)

HeadStep(r, b) ==
  \/ heads'[r][b] \in {heads[r][b], NoCommit}
  \/ retarget # NoRetarget /\ r = retarget.repo /\ heads'[r][b] = retarget.head
  \/ /\ heads'[r][b] \in Commits /\ rec'[heads'[r][b]].status = "finished"
     /\ Open(heads'[r][b]) /\ rec[heads'[r][b]].repo = r

RetargetStep ==
  \/ retarget' \in {retarget, NoRetarget}
  \/ /\ Present(retarget'.head) /\ (Open(retarget'.head) => RetargetOpen)
     /\ rec[retarget'.head].repo = retarget'.repo /\ UNCHANGED rec

(* Repositories vanish as a whole.                                         *)
VanishTogether ==
  \A d, e \in Commits :
    Vanishes(d) /\ Present(e) /\ rec[e].repo = rec[d].repo => Vanishes(e)

Effects ==
  /\ Shape' /\ CommitsHoused'
  /\ \A d \in Commits : RecordStep(d)
  /\ \A r \in Repos, b \in Branches : HeadStep(r, b)
  /\ RetargetStep
  /\ VanishTogether

(* A step that leaves the records alone.                                   *)
LEMMA RecordsAlone ==
  ASSUME Shape, CommitsHoused, UNCHANGED rec, repos \subseteq repos', repos' \subseteq Repos,
         heads' \in [Repos -> [Branches -> Commits \cup {NoCommit}]],
         retarget' \in [repo : Repos, branch : Branches, head : Commits] \cup {NoRetarget},
         \A r \in Repos, b \in Branches : HeadStep(r, b),
         RetargetStep
  PROVE  Effects
<1>1. Shape' /\ CommitsHoused'
  BY DEF Shape, CommitsHoused, Present
<1>2. \A d \in Commits : RecordStep(d) /\ ~Vanishes(d)
  BY DEF RecordStep, Vanishes, Present, NoRecord
<1> QED BY <1>1, <1>2 DEF Effects, VanishTogether

(* A ref set to a commit, with everything else as it was.                  *)
LEMMA HeadSet ==
  ASSUME Shape, NEW r \in Repos, NEW b \in Branches, NEW c \in Commits \cup {NoCommit},
         heads' = [heads EXCEPT ![r][b] = c]
  PROVE  /\ heads' \in [Repos -> [Branches -> Commits \cup {NoCommit}]]
         /\ \A s \in Repos, d \in Branches :
              heads'[s][d] = heads[s][d] \/ (s = r /\ d = b /\ heads'[s][d] = c)
BY DEF Shape

LEMMA StepEffects ==
  ASSUME Shape, CommitsHoused, [Next]_vars
  PROVE  Effects
<1>0. /\ repos \subseteq Repos
      /\ heads \in [Repos -> [Branches -> Commits \cup {NoCommit}]]
      /\ retarget \in [repo : Repos, branch : Branches, head : Commits] \cup {NoRetarget}
  BY DEF Shape
<1>1. ASSUME NEW r \in Repos, CreateRepo(r)
      PROVE  Effects
  <2>1. /\ UNCHANGED <<rec, heads, retarget>> /\ repos \subseteq repos' /\ repos' \subseteq Repos
    BY <1>0, <1>1 DEF CreateRepo
  <2> QED BY <1>0, <2>1, RecordsAlone DEF HeadStep, RetargetStep
<1>2. ASSUME NEW r \in Repos, DeleteRepo(r)
      PROVE  Effects
  <2> DEFINE gone == [NoRecord EXCEPT !.status = "gone"]
             old(d) == Present(d) /\ rec[d].repo = r
  <2>1. /\ repos' = repos \ {r} /\ UNCHANGED retarget
        /\ rec' = [d \in Commits |-> IF old(d) THEN gone ELSE rec[d]]
        /\ heads' = [heads EXCEPT ![r] = [b \in Branches |-> NoCommit]]
    BY <1>2 DEF DeleteRepo
  <2>2. RecordLike(gone) /\ gone.status = "gone"
    BY DEF RecordLike, Statuses, NoRecord
  <2> HIDE DEF gone
  <2>3. \A d \in Commits : /\ RecordLike(rec[d])
                           /\ rec'[d] = IF old(d) THEN gone ELSE rec[d]
    BY <2>1 DEF Shape
  <2>4. Shape'
    <3>1. rec' = [d \in Commits |-> rec'[d]] /\ \A d \in Commits : RecordLike(rec'[d])
      BY <2>1, <2>2, <2>3
    <3>2. repos' \subseteq Repos /\ heads' \in [Repos -> [Branches -> Commits \cup {NoCommit}]]
      BY <1>0, <2>1
    <3> QED BY <1>0, <2>1, <3>1, <3>2 DEF Shape
  <2>5. CommitsHoused'
    BY <2>1, <2>2, <2>3 DEF CommitsHoused, Present
  <2>6. \A d \in Commits : RecordStep(d) /\ (Vanishes(d) <=> old(d))
    BY <2>2, <2>3 DEF RecordStep, Vanishes, Present, gone
  <2>7. \A s \in Repos, b \in Branches : HeadStep(s, b)
    BY <1>0, <2>1 DEF HeadStep
  <2> QED BY <2>1, <2>4, <2>5, <2>6, <2>7 DEF Effects, RetargetStep, VanishTogether
<1>3. ASSUME NEW r \in Repos, NEW b \in Branches, DeleteBranch(r, b)
      PROVE  Effects
  <2>1. UNCHANGED <<repos, rec, retarget>> /\ heads' = [heads EXCEPT ![r][b] = NoCommit]
    BY <1>3 DEF DeleteBranch
  <2>2. /\ heads' \in [Repos -> [Branches -> Commits \cup {NoCommit}]]
        /\ \A s \in Repos, d \in Branches : HeadStep(s, d)
    BY <2>1, HeadSet DEF HeadStep
  <2> QED BY <1>0, <2>1, <2>2, RecordsAlone DEF RetargetStep
<1>4. ASSUME NEW r \in Repos, NEW b \in Branches, NEW c \in Commits, createBranch(r, b, c)
      PROVE  Effects
  <2>1. /\ UNCHANGED <<repos, rec, heads>> /\ Present(c) /\ (Open(c) => RetargetOpen)
        /\ rec[c].repo = r
        /\ retarget' = [repo |-> r, branch |-> b, head |-> c]
    BY <1>4 DEF createBranch
  <2>2. RetargetStep
    BY <2>1 DEF RetargetStep
  <2>3. retarget' \in [repo : Repos, branch : Branches, head : Commits]
    BY <2>1
  <2> QED BY <1>0, <2>1, <2>2, <2>3, RecordsAlone DEF HeadStep
<1>5. ASSUME NEW r \in Repos, NEW b \in Branches, NEW c \in Commits, StartCommit(r, b, c)
      PROVE  Effects
  <2>1. /\ Shape' /\ UNCHANGED <<heads, retarget>> /\ repos' = repos \cup {r}
        /\ rec'[c].status = "open" /\ rec'[c].repo = r
        /\ rec'[c].branch = b /\ rec'[c].parent = heads[r][b]
        /\ \A d \in Commits \ {c} : rec'[d] = rec[d]
    BY <1>5, StartKeeps
  <2>2. rec[c].status = "none" /\ rec'[c].ops = <<>> /\ rec'[c].empty = FALSE
    BY <1>5 DEF StartCommit, Shape
  <2>3. Starts(c)
    BY <2>1, <2>2 DEF Starts
  <2>4. \A d \in Commits : RecordStep(d) /\ ~Vanishes(d)
    BY <2>1, <2>2, <2>3 DEF RecordStep, Vanishes, Present, NoRecord
  <2>5. CommitsHoused'
    BY <2>1 DEF CommitsHoused, Present
  <2> QED BY <2>1, <2>4, <2>5 DEF Effects, HeadStep, RetargetStep, VanishTogether
<1>6. ASSUME NEW c \in Commits, Writes(c)
      PROVE  Effects
  <2>1. PICK ops : AppendOps(c, ops)
    BY <1>6 DEF Writes
  <2>2. /\ rec' = [rec EXCEPT ![c] = [rec[c] EXCEPT !.ops = @ \o ops]]
        /\ UNCHANGED <<repos, heads, retarget>> /\ Open(c)
    BY <2>1 DEF AppendOps
  <2>3. \A d \in Commits : RecordLike(rec[d])
    BY DEF Shape
  <2>4. \A d \in Commits :
          /\ RecordLike(rec'[d])
          /\ rec'[d].status = rec[d].status /\ rec'[d].repo = rec[d].repo
          /\ rec'[d].branch = rec[d].branch /\ rec'[d].parent = rec[d].parent
          /\ d # c => rec'[d] = rec[d]
    BY <2>2, <2>3 DEF Shape, RecordLike
  <2>5. Shape'
    BY <2>2, <2>4 DEF Shape
  <2>6. CommitsHoused'
    BY <2>2, <2>4 DEF CommitsHoused, Present
  <2>7. \A d \in Commits : RecordStep(d) /\ ~Vanishes(d)
    BY <2>2, <2>4 DEF RecordStep, Edited, Vanishes, Present, Open, NoRecord
  <2> QED BY <2>2, <2>5, <2>6, <2>7 DEF Effects, HeadStep, RetargetStep, VanishTogether
<1>7. ASSUME NEW c \in Commits, NEW empty \in BOOLEAN, FinishCommit(c, empty)
      PROVE  Effects
  <2>1. /\ Shape' /\ UNCHANGED <<repos, retarget>>
        /\ Open(c) /\ rec'[c].status = "finished"
        /\ rec[c].repo \in repos /\ rec[c].branch \in Branches
        /\ heads' = [heads EXCEPT ![rec[c].repo][rec[c].branch] = c]
        /\ \A d \in Commits : /\ rec'[d].repo = rec[d].repo /\ rec'[d].branch = rec[d].branch
                              /\ rec'[d].parent = rec[d].parent
                              /\ d # c => rec'[d].status = rec[d].status
    BY <1>7, FinishKeeps
  <2>2. \A d \in Commits \ {c} : rec'[d] = rec[d]
    BY <1>7 DEF FinishCommit, Shape
  <2>3. \A d \in Commits : RecordStep(d) /\ ~Vanishes(d)
    BY <2>1, <2>2 DEF RecordStep, Edited, Vanishes, Present, Open, NoRecord
  <2>4. CommitsHoused'
    BY <2>1, <2>2 DEF CommitsHoused, Present, Open
  <2>5. rec[c].repo \in Repos
    BY <1>0, <2>1
  <2>6. \A s \in Repos, d \in Branches :
          heads'[s][d] = heads[s][d] \/ (s = rec[c].repo /\ heads'[s][d] = c)
    BY <2>1, <2>5, HeadSet
  <2>7. \A s \in Repos, d \in Branches : HeadStep(s, d)
    BY <2>1, <2>6 DEF HeadStep, Finished
  <2> QED BY <2>1, <2>3, <2>4, <2>7 DEF Effects, RetargetStep, VanishTogether
<1>8. CASE MoveRef
  <2>1. /\ retarget # NoRetarget /\ UNCHANGED rec /\ retarget' = NoRetarget
        /\ heads' = [heads EXCEPT ![retarget.repo][retarget.branch] = retarget.head]
        /\ repos' = repos \cup {retarget.repo}
    BY <1>8 DEF MoveRef, SetHead
  <2>2. retarget.repo \in Repos /\ retarget.branch \in Branches /\ retarget.head \in Commits
    BY <1>0, <2>1
  <2>3. /\ heads' \in [Repos -> [Branches -> Commits \cup {NoCommit}]]
        /\ \A s \in Repos, d \in Branches :
             heads'[s][d] = heads[s][d] \/ (s = retarget.repo /\ heads'[s][d] = retarget.head)
    BY <2>1, <2>2, HeadSet
  <2>4. \A s \in Repos, d \in Branches : HeadStep(s, d)
    BY <2>1, <2>3 DEF HeadStep
  <2> QED BY <1>0, <2>1, <2>2, <2>3, <2>4, RecordsAlone DEF RetargetStep
<1>9. CASE UNCHANGED vars
  BY <1>0, <1>9, RecordsAlone DEF vars, HeadStep, RetargetStep
<1> QED
  <2>1. CASE Next
    BY <2>1, NextCases, <1>1, <1>2, <1>3, <1>4, <1>5, <1>6, <1>7, <1>8
  <2> QED BY <2>1, <1>9

----------------------------------------------------------------------------
(* Ancestry.  A commit is started on one that is there already, so no      *)
(* commit is its own ancestor: there is a rank that falls from a commit to *)
(* its parent.                                                             *)

Falls(rank, R) ==
  \A d \in Commits : R[d].parent # NoCommit => rank[R[d].parent] < rank[d]

Known(c) == c # NoCommit => rec[c].status # "none"

RInv ==
  /\ Shape /\ CommitsHoused
  /\ \A r \in Repos, b \in Branches : Known(heads[r][b])
  /\ retarget # NoRetarget => Known(retarget.head)
  /\ \A d \in Commits : Known(rec[d].parent)
  /\ \E rank \in [Commits -> Nat] : Falls(rank, rec)

LEMMA InitRInv ==
  ASSUME Init
  PROVE  RInv
<1>1. Shape /\ CommitsHoused
  BY InitIInv DEF IInv
<1>2. /\ \A r \in Repos, b \in Branches : heads[r][b] = NoCommit
      /\ retarget = NoRetarget
      /\ \A d \in Commits : rec[d].parent = NoCommit
  BY DEF Init, Empty, NoRecord
<1>3. [d \in Commits |-> 0] \in [Commits -> Nat] /\ Falls([d \in Commits |-> 0], rec)
  BY <1>2 DEF Falls
<1>4. \E rank \in [Commits -> Nat] : Falls(rank, rec)
  BY <1>3
<1> QED BY <1>1, <1>2, <1>4 DEF RInv, Known

(* What a step makes of a known commit, and of a parent.                   *)
LEMMA StepRInv ==
  ASSUME RInv, [Next]_vars
  PROVE  RInv' /\ Effects
<1>1. Shape /\ CommitsHoused /\ Effects
  BY StepEffects DEF RInv
<1>2. /\ heads \in [Repos -> [Branches -> Commits \cup {NoCommit}]]
      /\ heads' \in [Repos -> [Branches -> Commits \cup {NoCommit}]]
      /\ retarget \in [repo : Repos, branch : Branches, head : Commits] \cup {NoRetarget}
      /\ retarget' \in [repo : Repos, branch : Branches, head : Commits] \cup {NoRetarget}
  BY <1>1 DEF Effects, Shape
<1>3. \A d \in Commits : /\ rec[d].parent \in Commits \cup {NoCommit}
                         /\ rec'[d].parent \in Commits \cup {NoCommit}
  BY <1>1 DEF Effects, Shape, RecordLike
<1>4. \A d \in Commits : rec[d].status # "none" => rec'[d].status # "none"
  BY <1>1 DEF Effects, RecordStep, Vanishes, Starts, Edited, NoRecord
<1>5. \A r \in Repos, b \in Branches : Known(heads[r][b])
  BY DEF RInv
<1>6. retarget # NoRetarget => retarget.head \in Commits /\ Known(retarget.head)
  BY <1>2 DEF RInv
<1>7. NoCommit \notin Commits
  BY StoreAssumption
<1>8. ASSUME NEW r \in Repos, NEW b \in Branches, heads'[r][b] # NoCommit
      PROVE  rec'[heads'[r][b]].status # "none"
  <2>1. HeadStep(r, b)
    BY <1>1 DEF Effects
  <2>2. CASE heads'[r][b] = heads[r][b]
    <3>1. heads[r][b] \in Commits /\ rec[heads[r][b]].status # "none"
      BY <1>2, <1>5, <1>8, <2>2 DEF Known
    <3> QED BY <1>4, <2>2, <3>1
  <2>3. CASE retarget # NoRetarget /\ heads'[r][b] = retarget.head
    BY <1>4, <1>6, <1>7, <2>3 DEF Known
  <2> QED BY <1>8, <2>1, <2>2, <2>3 DEF HeadStep
<1>9. ASSUME retarget' # NoRetarget
      PROVE  rec'[retarget'.head].status # "none"
  <2>1. CASE retarget' = retarget
    BY <1>4, <1>6, <1>7, <1>9, <2>1 DEF Known
  <2>2. CASE Present(retarget'.head) /\ UNCHANGED rec
    BY <2>2 DEF Present
  <2> QED BY <1>1, <1>9, <2>1, <2>2 DEF Effects, RetargetStep
<1>10. ASSUME NEW d \in Commits, rec'[d].parent # NoCommit
       PROVE  /\ rec'[d].parent \in Commits /\ rec[rec'[d].parent].status # "none"
              /\ Starts(d) \/ rec'[d].parent = rec[d].parent
  <2>1. RecordStep(d) /\ rec'[d].parent \in Commits
    BY <1>1, <1>3, <1>10 DEF Effects
  <2>2. CASE rec'[d].parent = rec[d].parent
    BY <1>10, <2>1, <2>2 DEF RInv, Known
  <2>3. CASE Starts(d)
    <3>1. PICK r \in Repos, b \in Branches : rec'[d].parent = heads[r][b]
      BY <2>3 DEF Starts
    <3> QED BY <1>5, <1>10, <2>1, <2>3, <3>1 DEF Known
  <2> QED BY <1>10, <2>1, <2>2, <2>3 DEF RecordStep, Vanishes, Edited, NoRecord
<1>11. \E rank \in [Commits -> Nat] : Falls(rank, rec')
  <2>1. PICK rank \in [Commits -> Nat] : Falls(rank, rec)
    BY DEF RInv
  <2> DEFINE new == [d \in Commits |-> IF Starts(d) /\ rec'[d].parent # NoCommit
                                         THEN rank[rec'[d].parent] + 1 ELSE rank[d]]
  <2>2. \A d \in Commits : /\ new[d] = IF Starts(d) /\ rec'[d].parent # NoCommit
                                         THEN rank[rec'[d].parent] + 1 ELSE rank[d]
                           /\ new[d] \in Nat
    BY <1>3
  <2>3. new \in [Commits -> Nat]
    BY <2>2
  <2> HIDE DEF new
  <2>4. ASSUME NEW d \in Commits, rec'[d].parent # NoCommit
        PROVE  new[rec'[d].parent] < new[d]
    <3>1. PICK e \in Commits : e = rec'[d].parent
      BY <1>3, <2>4
    <3>2. new[e] = rank[e] /\ rank[e] \in Nat /\ rank[d] \in Nat
      <4>1. ~Starts(e)
        BY <1>10, <2>4, <3>1 DEF Starts
      <4> QED BY <2>2, <4>1
    <3>3. CASE Starts(d)
      BY <2>2, <2>4, <3>1, <3>2, <3>3
    <3>4. CASE ~Starts(d)
      <4>1. rec[d].parent = e /\ e # NoCommit
        BY <1>10, <2>4, <3>1, <3>4
      <4>2. rank[e] < rank[d]
        BY <2>1, <4>1 DEF Falls
      <4> QED BY <2>2, <3>1, <3>2, <3>4, <4>2
    <3> QED BY <3>3, <3>4
  <2>5. Falls(new, rec')
    BY <2>4 DEF Falls
  <2> QED BY <2>3, <2>5
<1>12. \A d \in Commits : Known(rec[d].parent)'
  <2>1. ASSUME NEW d \in Commits, rec'[d].parent # NoCommit
        PROVE  rec'[rec'[d].parent].status # "none"
    BY <1>4, <1>10, <2>1
  <2> QED BY <2>1 DEF Known
<1> QED BY <1>1, <1>8, <1>9, <1>11, <1>12 DEF RInv, Known, Effects

----------------------------------------------------------------------------
(* Settled history, when branches are pointed at finished commits only.    *)

(* A commit that cannot change any more: its repository is gone, or it is  *)
(* finished, in the repository of whoever builds on it.                    *)
Settled(c, r) ==
  c # NoCommit => rec[c].status = "gone" \/ (Finished(c) /\ rec[c].repo = r)

SInv ==
  /\ RInv
  /\ \A r \in Repos, b \in Branches : Settled(heads[r][b], r)
  /\ retarget # NoRetarget => Settled(retarget.head, retarget.repo)
  /\ \A d \in Commits : Settled(rec[d].parent, rec[d].repo)

(* A settled commit stays settled; a finished one changes in no way, but   *)
(* for going with its whole repository.                                    *)
LEMMA SettledStays ==
  ASSUME RInv, Effects, NEW c \in Commits \cup {NoCommit}, NEW r, Settled(c, r)
  PROVE  c # NoCommit => rec'[c].status = "gone"
                         \/ (rec'[c].status = "finished" /\ rec'[c].repo = r)
BY DEF Settled, RInv, Effects, RecordStep, Vanishes, Starts, Edited, Open, Finished, NoRecord

LEMMA StepSInv ==
  ASSUME ~RetargetOpen, SInv, [Next]_vars
  PROVE  SInv' /\ Effects
<1>1. RInv /\ RInv' /\ Effects
  BY StepRInv DEF SInv
<1>2. /\ heads \in [Repos -> [Branches -> Commits \cup {NoCommit}]]
      /\ heads' \in [Repos -> [Branches -> Commits \cup {NoCommit}]]
      /\ retarget \in [repo : Repos, branch : Branches, head : Commits] \cup {NoRetarget}
      /\ retarget' \in [repo : Repos, branch : Branches, head : Commits] \cup {NoRetarget}
      /\ \A d \in Commits : /\ rec[d].parent \in Commits \cup {NoCommit}
                            /\ rec'[d].parent \in Commits \cup {NoCommit}
  BY <1>1 DEF RInv, Shape, RecordLike
<1> DEFINE Firm(c, r) == c # NoCommit =>
      rec'[c].status = "gone" \/ (rec'[c].status = "finished" /\ rec'[c].repo = r)
<1>3. \A c \in Commits \cup {NoCommit} : \A r : Settled(c, r) => Firm(c, r)
  BY <1>1, SettledStays
<1> HIDE DEF Firm
<1>4. ASSUME NEW r \in Repos, NEW b \in Branches
      PROVE  Firm(heads'[r][b], r)
  <2>1. HeadStep(r, b)
    BY <1>1 DEF Effects
  <2>2. CASE heads'[r][b] = heads[r][b]
    BY <1>2, <1>3, <2>2 DEF SInv
  <2>3. CASE retarget # NoRetarget /\ r = retarget.repo /\ heads'[r][b] = retarget.head
    BY <1>2, <1>3, <2>3 DEF SInv
  <2>4. CASE heads'[r][b] = NoCommit
    BY <2>4 DEF Firm
  <2>5. ASSUME NEW c \in Commits, rec'[c].status = "finished", Open(c), rec[c].repo = r
        PROVE  Firm(c, r)
    BY <1>1, <2>5 DEF Firm, Effects, RecordStep, Vanishes, Starts, Edited, Open, NoRecord
  <2> QED BY <2>1, <2>2, <2>3, <2>4, <2>5 DEF HeadStep
<1>5. ASSUME retarget' # NoRetarget
      PROVE  Firm(retarget'.head, retarget'.repo)
  <2>1. CASE retarget' = retarget
    BY <1>2, <1>3, <1>5, <2>1 DEF SInv
  <2>2. CASE /\ Present(retarget'.head) /\ ~Open(retarget'.head)
             /\ rec[retarget'.head].repo = retarget'.repo /\ UNCHANGED rec
    BY <2>2 DEF Firm, Present, Open
  <2> QED BY <1>1, <1>5, <2>1, <2>2 DEF Effects, RetargetStep
<1>6. ASSUME NEW d \in Commits
      PROVE  Firm(rec'[d].parent, rec'[d].repo)
  <2>1. CASE rec'[d].parent = rec[d].parent /\ rec'[d].repo = rec[d].repo
    BY <1>2, <1>3, <2>1 DEF SInv
  <2>2. CASE Starts(d)
    <3>1. PICK r \in Repos, b \in Branches : rec'[d].repo = r /\ rec'[d].parent = heads[r][b]
      BY <2>2 DEF Starts
    <3> QED BY <1>2, <1>3, <3>1 DEF SInv
  <2>3. CASE rec'[d].parent = NoCommit
    BY <2>3 DEF Firm
  <2> QED BY <1>1, <2>1, <2>2, <2>3 DEF Effects, RecordStep, Vanishes, Edited, NoRecord
<1> QED BY <1>1, <1>4, <1>5, <1>6 DEF SInv, Settled, Finished, Firm

----------------------------------------------------------------------------
(* Induction, by a least counterexample: a set is a value, where an        *)
(* induction rule would take the formula to prove as its parameter.        *)

(* A set of numbers has a least one.                                       *)
LEMMA LeastNumber ==
  ASSUME NEW T \in SUBSET Nat, T # {}
  PROVE  \E n \in T : \A m \in T : n <= m
<1> DEFINE R == OpToRel(<, Nat)
<1>1. \A m, n \in Nat : m < n => <<m, n>> \in R
  <2> SUFFICES ASSUME NEW m \in Nat, NEW n \in Nat, m < n PROVE <<m, n>> \in R
    OBVIOUS
  <2>1. <<m, n>> \in Nat \X Nat /\ <<m, n>>[1] = m /\ <<m, n>>[2] = n
    OBVIOUS
  <2> QED BY <2>1 DEF OpToRel
<1>2. IsWellFoundedOn(R, Nat)
  BY NatLessThanWellFounded
<1> HIDE DEF R
<1>3. PICK n \in T : \A m \in T : ~(<<m, n>> \in R)
  BY <1>2, WFMin
<1>4. ASSUME NEW m \in T PROVE n <= m
  <2>1. n \in Nat /\ m \in Nat
    OBVIOUS
  <2>2. ~(m < n)
    BY <1>1, <1>3, <2>1, Zenon
  <2> QED BY <2>1, <2>2, SMT
<1> QED BY <1>4, Zenon

(* A set with 0 and the successor of each of its numbers has them all.     *)
LEMMA AllNumbers ==
  ASSUME NEW T, 0 \in T, \A n \in Nat : n \in T => n + 1 \in T
  PROVE  Nat \subseteq T
<1>1. SUFFICES ASSUME Nat \ T # {} PROVE FALSE
  OBVIOUS
<1>2. PICK n \in Nat \ T : \A m \in Nat \ T : n <= m
  BY <1>1, LeastNumber
<1>3. n # 0 /\ n - 1 \in Nat /\ n - 1 \in T
  BY <1>2
<1> QED BY <1>2, <1>3

----------------------------------------------------------------------------
(* The walk up the ancestry, as a function of the records R.               *)

GoesOn(R, d) ==
  R[d].parent \in Commits /\ R[R[d].parent].status \in {"open", "finished"} /\ ~R[R[d].parent].empty

WalkStep(R, f, d) == IF GoesOn(R, d) THEN Append(f[R[d].parent], d) ELSE <<d>>

Walk(R) == CHOOSE f : f = [d \in Commits |-> WalkStep(R, f, d)]

(* Lineage is that walk, cut to nothing at an empty commit.                *)
LEMMA LineageIsWalk ==
  ASSUME NEW c
  PROVE  Lineage(c) = IF rec[c].empty THEN <<>> ELSE Walk(rec)[c]
BY DEF Lineage, Continues, Present, Walk, WalkStep, GoesOn

(* The walk's equations have a solution: by rank, from the oldest commit.  *)
LEMMA WalkSolves ==
  ASSUME NEW R, NEW rank \in [Commits -> Nat], Falls(rank, R)
  PROVE  Walk(R) = [d \in Commits |-> WalkStep(R, Walk(R), d)]
<1> DEFINE Upto(f, n) == \A d \in Commits : rank[d] < n => f[d] = WalkStep(R, f, d)
           T == {n \in Nat : \E f : Upto(f, n)}
<1>0. \A d \in Commits : GoesOn(R, d) =>
        R[d].parent \in Commits /\ rank[R[d].parent] < rank[d]
  BY StoreAssumption DEF GoesOn, Falls
<1>1. \A d \in Commits : rank[d] \in Nat
  OBVIOUS
<1>2. 0 \in T
  <2>1. Upto(<<>>, 0)
    BY <1>1
  <2> HIDE DEF Upto
  <2> QED BY <2>1
<1>3. ASSUME NEW n \in Nat, n \in T PROVE n + 1 \in T
  <2>1. PICK f : Upto(f, n)
    BY <1>3
  <2> DEFINE g == [d \in Commits |-> IF rank[d] < n THEN f[d] ELSE WalkStep(R, f, d)]
  <2>2. ASSUME NEW d \in Commits, rank[d] < n + 1 PROVE g[d] = WalkStep(R, g, d)
    <3>1. g[d] = WalkStep(R, f, d)
      BY <2>1
    <3>2. GoesOn(R, d) => g[R[d].parent] = f[R[d].parent]
      <4> SUFFICES ASSUME GoesOn(R, d) PROVE g[R[d].parent] = f[R[d].parent]
        OBVIOUS
      <4>1. R[d].parent \in Commits /\ rank[R[d].parent] < n
        BY <1>0, <1>1, <2>2
      <4> QED BY <4>1
    <3> HIDE DEF g
    <3> QED BY <3>1, <3>2 DEF WalkStep
  <2> HIDE DEF g
  <2>3. Upto(g, n + 1)
    BY <2>2
  <2> HIDE DEF Upto
  <2> QED BY <2>3
<1>4. Nat \subseteq T
  <2> HIDE DEF T
  <2> QED BY <1>2, <1>3, AllNumbers
<1>5. ASSUME NEW f, NEW g, NEW m \in Nat, NEW n \in Nat, Upto(f, m), Upto(g, n)
      PROVE  \A d \in Commits : rank[d] < m /\ rank[d] < n => f[d] = g[d]
  <2> DEFINE Bad == {k \in Nat : k < m /\ k < n /\ \E d \in Commits : rank[d] = k /\ f[d] # g[d]}
  <2>1. SUFFICES ASSUME Bad # {} PROVE FALSE
    BY <1>1
  <2>2. PICK k \in Bad : \A j \in Bad : k <= j
    <3>1. Bad \in SUBSET Nat
      OBVIOUS
    <3> HIDE DEF Bad
    <3> QED BY <2>1, <3>1, LeastNumber
  <2>3. PICK d \in Commits : rank[d] = k /\ f[d] # g[d]
    OBVIOUS
  <2>4. f[d] = WalkStep(R, f, d) /\ g[d] = WalkStep(R, g, d)
    BY <1>5, <2>2, <2>3
  <2>5. GoesOn(R, d) /\ f[R[d].parent] # g[R[d].parent]
    BY <2>3, <2>4 DEF WalkStep
  <2>6. R[d].parent \in Commits /\ rank[R[d].parent] < k
    BY <1>0, <2>3, <2>5
  <2>7. rank[R[d].parent] \in Bad
    BY <1>1, <2>2, <2>5, <2>6
  <2> QED BY <1>1, <2>2, <2>6, <2>7
<1> DEFINE Part(d) == CHOOSE f : Upto(f, rank[d] + 1)
           F == [d \in Commits |-> Part(d)[d]]
<1>6. \A d \in Commits : Upto(Part(d), rank[d] + 1) /\ rank[d] + 1 \in Nat
  <2> SUFFICES ASSUME NEW d \in Commits PROVE Upto(Part(d), rank[d] + 1) /\ rank[d] + 1 \in Nat
    OBVIOUS
  <2>1. rank[d] + 1 \in Nat
    BY <1>1
  <2>2. \E f : Upto(f, rank[d] + 1)
    BY <1>4, <2>1
  <2> HIDE DEF Upto
  <2> QED BY <2>1, <2>2
<1>7. \A d \in Commits : F[d] = Part(d)[d]
  OBVIOUS
<1> HIDE DEF Part
<1>8. ASSUME NEW d \in Commits PROVE F[d] = WalkStep(R, F, d)
  <2>1. Part(d)[d] = WalkStep(R, Part(d), d)
    BY <1>1, <1>6
  <2>2. GoesOn(R, d) => F[R[d].parent] = Part(d)[R[d].parent]
    <3> SUFFICES ASSUME GoesOn(R, d) PROVE F[R[d].parent] = Part(d)[R[d].parent]
      OBVIOUS
    <3>1. PICK e \in Commits : e = R[d].parent /\ rank[e] < rank[d]
      BY <1>0
    <3>2. Part(e)[e] = Part(d)[e]
      <4>1. rank[e] < rank[e] + 1 /\ rank[e] < rank[d] + 1
        BY <1>1, <3>1
      <4> HIDE DEF Upto
      <4> QED BY <1>5, <1>6, <4>1
    <3> QED BY <1>7, <3>1, <3>2
  <2> QED BY <1>7, <2>1, <2>2 DEF WalkStep
<1>9. F = [d \in Commits |-> WalkStep(R, F, d)]
  BY <1>8
<1> HIDE DEF F
<1> QED BY <1>9 DEF Walk

(* Two walks over records that agree on a set closed under ancestors are   *)
(* the same there, and stay in it.                                         *)
AgreeOn(A, Q, R) ==
  \A d \in A : /\ GoesOn(R, d) <=> GoesOn(Q, d)
               /\ GoesOn(R, d) => R[d].parent \in A /\ Q[d].parent = R[d].parent

SameWalk(A, Q, R) == \A d \in A : Walk(Q)[d] = Walk(R)[d] /\ Walk(R)[d] \in Seq(A)

LEMMA WalksAgree ==
  ASSUME NEW Q, NEW ranks \in [Commits -> Nat], Falls(ranks, Q),
         NEW R, NEW rank \in [Commits -> Nat], Falls(rank, R),
         NEW A \in SUBSET Commits, AgreeOn(A, Q, R)
  PROVE  SameWalk(A, Q, R)
<1>0. \A d \in A : /\ GoesOn(R, d) <=> GoesOn(Q, d)
                   /\ GoesOn(R, d) => R[d].parent \in A /\ Q[d].parent = R[d].parent
  BY DEF AgreeOn
<1>1. \A d \in Commits : /\ Walk(Q)[d] = WalkStep(Q, Walk(Q), d)
                         /\ Walk(R)[d] = WalkStep(R, Walk(R), d)
  <2>1. Walk(Q) = [d \in Commits |-> WalkStep(Q, Walk(Q), d)]
    BY WalkSolves
  <2>2. Walk(R) = [d \in Commits |-> WalkStep(R, Walk(R), d)]
    BY WalkSolves
  <2> QED BY <2>1, <2>2
<1> DEFINE Good(d) == Walk(Q)[d] = Walk(R)[d] /\ Walk(R)[d] \in Seq(A)
           Bad == {n \in Nat : \E d \in A : rank[d] = n /\ ~Good(d)}
<1>2. SUFFICES ASSUME Bad # {} PROVE FALSE
  BY DEF SameWalk
<1>3. PICK n \in Bad : \A m \in Bad : n <= m
  <2>1. Bad \in SUBSET Nat
    OBVIOUS
  <2> HIDE DEF Bad
  <2> QED BY <1>2, <2>1, LeastNumber
<1>4. PICK d \in A : rank[d] = n /\ ~Good(d)
  OBVIOUS
<1>5. GoesOn(R, d) => Good(R[d].parent) /\ R[d].parent \in A
  <2> SUFFICES ASSUME GoesOn(R, d), ~Good(R[d].parent) PROVE FALSE
    BY <1>0
  <2>1. PICK e \in A : e = R[d].parent /\ rank[e] < rank[d]
    BY <1>0, StoreAssumption DEF Falls, GoesOn
  <2>2. rank[e] \in Bad
    BY <2>1
  <2> QED BY <1>3, <1>4, <2>1, <2>2
<1>6. Walk(Q)[d] = WalkStep(Q, Walk(Q), d) /\ Walk(R)[d] = WalkStep(R, Walk(R), d)
  BY <1>1
<1>7. CASE GoesOn(R, d)
  <2>1. PICK w \in Seq(A) : w = Walk(R)[R[d].parent] /\ w = Walk(Q)[Q[d].parent]
    BY <1>0, <1>5, <1>7
  <2>2. Append(w, d) \in Seq(A)
    OBVIOUS
  <2> QED BY <1>0, <1>4, <1>6, <1>7, <2>1, <2>2 DEF WalkStep
<1>8. CASE ~GoesOn(R, d)
  <2>1. <<d>> \in Seq(A)
    OBVIOUS
  <2> QED BY <1>0, <1>4, <1>6, <1>8, <2>1 DEF WalkStep
<1> QED BY <1>7, <1>8

(* A view, as a function of the operations replayed.                       *)
View(ops) == FoldLeft(ApplyOp, NoFiles, ops)

LEMMA ResolveViewIsView ==
  ASSUME NEW c
  PROVE  ResolveView(c) = View(LineageOps(c))
BY DEF ResolveView, View

(* Commits that a step leaves alone, together with those they are built on, *)
(* have the same lineage and the same view after it.                       *)
LEMMA LineageKept ==
  ASSUME NEW rank \in [Commits -> Nat], Falls(rank, rec),
         NEW ranks \in [Commits -> Nat], Falls(ranks, rec'),
         NEW A \in SUBSET Commits, \A d \in A : rec'[d] = rec[d] /\ Present(d),
         \A d \in A, p \in Commits : p = rec[d].parent =>
           p \in A \/ (rec[p].status = "gone" /\ rec'[p].status = "gone")
  PROVE  \A c \in A : /\ Lineage(c)' = Lineage(c) /\ LineageOps(c)' = LineageOps(c)
                      /\ ResolveView(c)' = ResolveView(c)
<1>1. ASSUME NEW d \in A
      PROVE  /\ GoesOn(rec, d) <=> GoesOn(rec', d)
             /\ GoesOn(rec, d) => rec[d].parent \in A /\ rec'[d].parent = rec[d].parent
  <2>1. rec'[d] = rec[d]
    OBVIOUS
  <2>2. CASE rec[d].parent \notin Commits
    BY <2>1, <2>2 DEF GoesOn
  <2>3. ASSUME NEW p \in Commits, p = rec[d].parent
        PROVE  (GoesOn(rec, d) <=> GoesOn(rec', d)) /\ (GoesOn(rec, d) => p \in A)
    <3>1. CASE p \in A
      BY <2>1, <2>3, <3>1 DEF GoesOn
    <3>2. CASE rec[p].status = "gone" /\ rec'[p].status = "gone"
      BY <2>1, <2>3, <3>2 DEF GoesOn
    <3> QED BY <2>3, <3>1, <3>2
  <2> QED BY <2>1, <2>2, <2>3
<1>2. AgreeOn(A, rec', rec)
  BY <1>1 DEF AgreeOn
<1>3. \A d \in A : Walk(rec')[d] = Walk(rec)[d] /\ Walk(rec)[d] \in Seq(A)
  BY <1>2, WalksAgree DEF SameWalk
<1> SUFFICES ASSUME NEW c \in A
             PROVE  /\ Lineage(c)' = Lineage(c) /\ LineageOps(c)' = LineageOps(c)
                    /\ ResolveView(c)' = ResolveView(c)
  OBVIOUS
<1>4. Lineage(c) = IF rec[c].empty THEN <<>> ELSE Walk(rec)[c]
  BY LineageIsWalk
<1>5. Lineage(c)' = IF rec'[c].empty THEN <<>> ELSE Walk(rec')[c]
  BY DEF Lineage, Continues, Present, Walk, WalkStep, GoesOn
<1>6. PICK chain \in Seq(A) : chain = Lineage(c) /\ chain = Lineage(c)'
  <2>1. <<>> \in Seq(A) /\ Walk(rec')[c] = Walk(rec)[c] /\ Walk(rec)[c] \in Seq(A)
        /\ rec'[c] = rec[c]
    BY <1>3
  <2>2. Lineage(c) \in Seq(A) /\ Lineage(c)' = Lineage(c)
    BY <1>4, <1>5, <2>1
  <2> QED BY <2>2
<1>7. [i \in DOMAIN chain |-> rec'[chain[i]].ops] = [i \in DOMAIN chain |-> rec[chain[i]].ops]
  <2>1. \A i \in DOMAIN chain : chain[i] \in A
    OBVIOUS
  <2> QED BY <2>1
<1>8. LineageOps(c) = FlattenSeq([i \in DOMAIN chain |-> rec[chain[i]].ops])
  BY <1>6 DEF LineageOps
<1>9. LineageOps(c)' = FlattenSeq([i \in DOMAIN chain |-> rec'[chain[i]].ops])
  BY <1>6 DEF LineageOps
<1>10. LineageOps(c)' = LineageOps(c)
  BY <1>7, <1>8, <1>9
<1>11. ResolveView(c) = View(LineageOps(c))
  BY ResolveViewIsView
<1>12. ResolveView(c)' = View(LineageOps(c)')
  BY DEF ResolveView, View
<1> QED BY <1>6, <1>10, <1>11, <1>12

(* A commit that is finished before and after a step has the same chain of *)
(* finished commits behind it, none of which the step has touched.         *)
LEMMA FinishedLineageKept ==
  ASSUME SInv, SInv', Effects
  PROVE  \A c \in Commits : Finished(c) /\ Finished(c)' =>
           /\ Lineage(c)' = Lineage(c) /\ LineageOps(c)' = LineageOps(c)
           /\ ResolveView(c)' = ResolveView(c)
<1>1. Shape /\ (\A d \in Commits : RecordStep(d)) /\ VanishTogether
  BY DEF SInv, RInv, Effects
<1>2. PICK rank \in [Commits -> Nat] : Falls(rank, rec)
  BY DEF SInv, RInv
<1>3. PICK ranks \in [Commits -> Nat] : Falls(ranks, rec')
  BY DEF SInv, RInv
<1> DEFINE A == {d \in Commits : Finished(d) /\ rec'[d].status = "finished"}
<1>4. \A d \in A : rec'[d] = rec[d] /\ ~Vanishes(d)
  BY <1>1 DEF RecordStep, Vanishes, Starts, Edited, Finished, Open, NoRecord
<1>5. ASSUME NEW d \in A, NEW p \in Commits, p = rec[d].parent
      PROVE  p \in A \/ (rec[p].status = "gone" /\ rec'[p].status = "gone")
  <2>1. rec'[d] = rec[d] /\ ~Vanishes(d) /\ Finished(d)
    BY <1>4
  <2>2. rec[p].status = "gone" \/ (Finished(p) /\ rec[p].repo = rec[d].repo)
    BY <1>5, StoreAssumption DEF SInv, Settled
  <2>3. CASE rec[p].status = "gone"
    BY <1>1, <2>3 DEF RecordStep, Vanishes, Starts, Edited, Present, Open
  <2>4. CASE Finished(p) /\ rec[p].repo = rec[d].repo
    <3>1. ~Vanishes(p)
      BY <1>1, <2>1, <2>4 DEF VanishTogether, Present, Finished
    <3> QED BY <1>1, <2>4, <3>1 DEF RecordStep, Starts, Edited, Finished, Open
  <2> QED BY <2>2, <2>3, <2>4
<1>6. /\ A \in SUBSET Commits /\ \A d \in A : rec'[d] = rec[d] /\ Present(d)
      /\ \A d \in A, p \in Commits : p = rec[d].parent =>
           p \in A \/ (rec[p].status = "gone" /\ rec'[p].status = "gone")
  BY <1>4, <1>5 DEF Present, Finished
<1>7. \A c \in Commits : Finished(c) /\ Finished(c)' => c \in A
  <2> SUFFICES ASSUME NEW c \in Commits, Finished(c), Finished(c)' PROVE c \in A
    OBVIOUS
  <2>1. rec'[c].status = "finished"
    BY DEF Finished
  <2> QED BY <2>1
<1> HIDE DEF A
<1>8. \A c \in A : /\ Lineage(c)' = Lineage(c) /\ LineageOps(c)' = LineageOps(c)
                   /\ ResolveView(c)' = ResolveView(c)
  BY <1>2, <1>3, <1>6, LineageKept
<1> QED BY <1>7, <1>8

(* The ViewsImmutable property: where branches are pointed at finished     *)
(* commits only, nothing written, finished, retargeted or deleted later    *)
(* changes what a finished commit shows (store.go ResolveView: the view is *)
(* replayed from the records of the ancestry each time it is asked for).   *)
THEOREM FinishedViewsNeverChange ==
  ASSUME ~RetargetOpen
  PROVE  Spec => ViewsImmutable
<1>1. Init => SInv
  <2>1. ASSUME Init PROVE SInv
    BY <2>1, InitRInv DEF SInv, Settled, Init, Empty, NoRecord
  <2> QED BY <2>1
<1>2. SInv /\ [Next]_vars => SInv'
  BY StepSInv
<1>3. SInv /\ [Next]_vars =>
        [\A c \in Commits : Finished(c) /\ Finished(c)' => ResolveView(c)' = ResolveView(c)]_rec
  <2> SUFFICES ASSUME SInv, [Next]_vars, NEW c \in Commits, Finished(c), Finished(c)'
               PROVE  ResolveView(c)' = ResolveView(c)
    OBVIOUS
  <2> QED BY StepSInv, FinishedLineageKept
<1> QED BY <1>1, <1>2, <1>3, PTL DEF Spec, ViewsImmutable

----------------------------------------------------------------------------
(* Folds and sequences, by the sequence of their intermediate values.      *)

(* What holds at 0 and passes from each number to the next holds up to n.  *)
LEMMA UpTo ==
  ASSUME NEW n \in Nat, NEW T, 0 \in T, \A i \in 1 .. n : i - 1 \in T => i \in T
  PROVE  0 .. n \subseteq T
<1> DEFINE U == {i \in Nat : i <= n => i \in T}
<1>1. 0 \in U
  OBVIOUS
<1>2. ASSUME NEW i \in Nat, i \in U PROVE i + 1 \in U
  <2>1. i + 1 <= n => i + 1 \in 1 .. n /\ (i + 1) - 1 = i /\ i \in T
    BY <1>2
  <2> QED BY <2>1
<1>3. Nat \subseteq U
  <2> HIDE DEF U
  <2> QED BY <1>1, <1>2, AllNumbers
<1> QED BY <1>3

LEMMA MaxIs ==
  ASSUME NEW n \in Nat, NEW T \in SUBSET (1 .. n), T # {}
  PROVE  Max(T) \in T /\ \A m \in T : m <= Max(T)
<1> DEFINE U == {n - m : m \in T}
<1>1. U \in SUBSET Nat /\ U # {}
  <2>1. \A m \in T : m \in 1 .. n /\ n - m \in Nat
    OBVIOUS
  <2> QED BY <2>1
<1>2. PICK k \in U : \A l \in U : k <= l
  BY <1>1, LeastNumber
<1>3. PICK m \in T : k = n - m
  OBVIOUS
<1>4. \A l \in T : m >= l
  BY <1>2, <1>3
<1>5. \E x \in T : \A y \in T : x >= y
  BY <1>4
<1>6. Max(T) \in T /\ \A y \in T : Max(T) >= y
  BY <1>5 DEF Max
<1> QED BY <1>6

(* A function may be defined over 0 .. n step by step.                     *)
Stepped(v, n, base, step) == v[0] = base /\ \A i \in 1 .. n : v[i] = step[<<i, v[i - 1]>>]

LEMMA StepsExist ==
  ASSUME NEW n \in Nat, NEW V, NEW base \in V, NEW step \in [(1 .. n) \X V -> V]
  PROVE  \E v \in [0 .. n -> V] : Stepped(v, n, base, step)
<1> DEFINE Upto(v, k) == v[0] = base /\ \A i \in 1 .. k : v[i] = step[<<i, v[i - 1]>>]
           T == {k \in 0 .. n : \E v \in [0 .. k -> V] : Upto(v, k)}
<1>1. 0 \in T
  <2>1. [i \in 0 .. 0 |-> base] \in [0 .. 0 -> V] /\ Upto([i \in 0 .. 0 |-> base], 0)
    OBVIOUS
  <2> HIDE DEF Upto
  <2> QED BY <2>1
<1>2. ASSUME NEW k \in 1 .. n, k - 1 \in T PROVE k \in T
  <2>1. PICK v \in [0 .. (k - 1) -> V] : Upto(v, k - 1)
    BY <1>2
  <2> DEFINE w == [i \in 0 .. k |-> IF i = k THEN step[<<k, v[k - 1]>>] ELSE v[i]]
  <2>2. w \in [0 .. k -> V]
    <3>1. step[<<k, v[k - 1]>>] \in V
      OBVIOUS
    <3>2. \A i \in 0 .. k : i # k => v[i] \in V
      OBVIOUS
    <3> QED BY <3>1, <3>2
  <2>3. w[0] = v[0] /\ \A i \in 1 .. (k - 1) : w[i] = v[i] /\ w[i - 1] = v[i - 1]
    OBVIOUS
  <2>4. w[k] = step[<<k, w[k - 1]>>]
    <3>1. k \in 0 .. k /\ k - 1 \in 0 .. k /\ k - 1 # k
      OBVIOUS
    <3> QED BY <3>1
  <2> HIDE DEF w
  <2>5. \A i \in 1 .. k : w[i] = step[<<i, w[i - 1]>>]
    <3> SUFFICES ASSUME NEW i \in 1 .. k PROVE w[i] = step[<<i, w[i - 1]>>]
      OBVIOUS
    <3>1. CASE i = k
      BY <2>4, <3>1
    <3>2. CASE i # k
      <4>1. i \in 1 .. (k - 1)
        BY <3>2
      <4> QED BY <2>1, <2>3, <4>1
    <3> QED BY <3>1, <3>2
  <2>6. Upto(w, k)
    BY <2>1, <2>3, <2>5
  <2> HIDE DEF Upto
  <2> QED BY <2>2, <2>6
<1>3. 0 .. n \subseteq T
  <2> HIDE DEF T
  <2> QED BY <1>1, <1>2, UpTo
<1>4. n \in T
  BY <1>3
<1> QED BY <1>4 DEF Stepped

(* A fold over the subsets of 1 .. n, greatest element first.              *)
Folded(it, n, base, step) ==
  \A s \in SUBSET (1 .. n) :
    it[s] = IF s = {} THEN base ELSE step[<<Max(s), it[s \ {Max(s)}]>>]

LEMMA FoldExists ==
  ASSUME NEW n \in Nat, NEW V, NEW base \in V, NEW step \in [(1 .. n) \X V -> V]
  PROVE  \E it \in [SUBSET (1 .. n) -> V] : Folded(it, n, base, step)
<1> DEFINE D == 1 .. n
           P(k) == SUBSET (1 .. k)
           Next1(it, s) == IF s = {} THEN base ELSE step[<<Max(s), it[s \ {Max(s)}]>>]
           T == {k \in 0 .. n : \E it \in [P(k) -> V] : \A s \in P(k) : it[s] = Next1(it, s)}
<1>1. 0 \in T
  <2> DEFINE it == [s \in P(0) |-> base]
  <2>1. \A s \in P(0) : s = {}
    OBVIOUS
  <2>2. it \in [P(0) -> V] /\ \A s \in P(0) : it[s] = Next1(it, s)
    BY <2>1
  <2> HIDE DEF it
  <2>3. \E f \in [P(0) -> V] : \A s \in P(0) : f[s] = Next1(f, s)
    BY <2>2
  <2> HIDE DEF P, Next1
  <2> QED BY <2>3
<1>2. ASSUME NEW k \in 1 .. n, k - 1 \in T PROVE k \in T
  <2>1. PICK f \in [P(k - 1) -> V] : \A s \in P(k - 1) : f[s] = Next1(f, s)
    BY <1>2
  <2>2. k \in Nat /\ k - 1 \in Nat /\ k \in D
    OBVIOUS
  <2>3. ASSUME NEW s \in P(k), s # {}
        PROVE  /\ Max(s) \in D /\ s \ {Max(s)} \in P(k - 1)
               /\ s \ {Max(s)} \in P(k)
               /\ s \notin P(k - 1) => Max(s) = k
    <3>1. Max(s) \in s /\ \A m \in s : m <= Max(s)
      BY <2>2, <2>3, MaxIs
    <3>2. \A m \in s : m \in 1 .. k
      OBVIOUS
    <3>3. PICK x \in 1 .. k : x = Max(s)
      BY <3>1, <3>2
    <3>4. \A m \in s : m \in 1 .. k /\ m <= x
      BY <3>1, <3>2, <3>3
    <3>5. ASSUME NEW m \in s, m # x \/ x # k PROVE m \in 1 .. (k - 1)
      BY <2>2, <3>4, <3>5
    <3>6. s \ {x} \subseteq 1 .. (k - 1) /\ (x # k => s \subseteq 1 .. (k - 1))
      BY <3>5
    <3>7. x \in D
      BY <2>2
    <3> QED BY <2>3, <3>3, <3>6, <3>7
  <2> DEFINE g == [s \in P(k) |-> IF s \in P(k - 1) THEN f[s] ELSE Next1(f, s)]
  <2>4. \A s \in P(k) : g[s] = Next1(f, s) /\ (s \in P(k - 1) => g[s] = f[s])
    BY <2>1
  <2>5. \A s \in P(k) : Next1(f, s) \in V
    BY <2>3
  <2>6. g \in [P(k) -> V]
    BY <2>4, <2>5
  <2> HIDE DEF g
  <2>7. \A s \in P(k) : g[s] = Next1(g, s)
    <3> SUFFICES ASSUME NEW s \in P(k) PROVE g[s] = Next1(g, s)
      OBVIOUS
    <3>1. s # {} => g[s \ {Max(s)}] = f[s \ {Max(s)}]
      BY <2>3, <2>4
    <3> QED BY <2>4, <3>1
  <2>8. \E it \in [P(k) -> V] : \A s \in P(k) : it[s] = Next1(it, s)
    BY <2>6, <2>7
  <2> HIDE DEF P, Next1
  <2> QED BY <2>8
<1>3. 0 .. n \subseteq T
  <2> HIDE DEF T
  <2> QED BY <1>1, <1>2, UpTo
<1>4. n \in T
  <2> HIDE DEF T
  <2> QED BY <1>3
<1> QED BY <1>4 DEF Folded

(* Taking the greatest element off an interval leaves a shorter one.       *)
LEMMA MaxOfInterval ==
  ASSUME NEW n \in Nat, NEW i \in 1 .. n
  PROVE  1 .. i \in SUBSET (1 .. n) /\ 1 .. i # {} /\ Max(1 .. i) = i
         /\ (1 .. i) \ {i} = 1 .. (i - 1)
<1>1. 1 .. i \in SUBSET (1 .. n) /\ i \in 1 .. i
  OBVIOUS
<1>2. Max(1 .. i) \in 1 .. i /\ \A m \in 1 .. i : m <= Max(1 .. i)
  BY <1>1, MaxIs
<1>3. Max(1 .. i) = i
  BY <1>1, <1>2
<1> QED BY <1>1, <1>3

(* Flattening a sequence of sequences.                                     *)
Flattening(v, s) ==
  /\ v[0] = <<>> /\ FlattenSeq(s) = v[Len(s)]
  /\ \A i \in 1 .. Len(s) : v[i] = v[i - 1] \o s[i]

LEMMA FlattenSteps ==
  ASSUME NEW A, NEW s \in Seq(Seq(A))
  PROVE  \E v \in [0 .. Len(s) -> Seq(A)] : Flattening(v, s)
<1>n. PICK n \in Nat : n = Len(s)
  OBVIOUS
<1>V. PICK V : V = Seq(A)
  OBVIOUS
<1> DEFINE step == [q \in (1 .. n) \X V |-> q[2] \o s[q[1]]]
<1>0. n \in Nat /\ DOMAIN s = 1 .. n /\ \A i \in 1 .. n : s[i] \in V
  BY <1>n, <1>V
<1>1. \A i \in 1 .. n, x \in V : step[<<i, x>>] = x \o s[i] /\ x \o s[i] \in V
  BY <1>0, <1>V, ConcatProperties
<1>E. <<>> \in V /\ \A x \in V : <<>> \o x = x
  BY <1>V, ConcatEmptySeq
<1>2. step \in [(1 .. n) \X V -> V]
  BY <1>1
<1> HIDE DEF step
<1>3. PICK v \in [0 .. n -> V] : v[0] = <<>> /\ \A i \in 1 .. n : v[i] = step[<<i, v[i - 1]>>]
  <2>1. \E v \in [0 .. n -> V] : Stepped(v, n, <<>>, step)
    BY <1>2, <1>E, StepsExist
  <2> QED BY <2>1 DEF Stepped
<1>4. \A i \in 1 .. n : v[i - 1] \in V /\ v[i] \in V /\ v[i] = v[i - 1] \o s[i]
  <2> SUFFICES ASSUME NEW i \in 1 .. n
               PROVE  v[i - 1] \in V /\ v[i] \in V /\ v[i] = v[i - 1] \o s[i]
    OBVIOUS
  <2>1. i - 1 \in 0 .. n /\ i \in 0 .. n
    BY <1>0
  <2> QED BY <1>1, <1>3, <2>1
<1> DEFINE Eqn(f) == f = [i \in 1 .. n |-> IF i = 1 THEN s[i] ELSE f[i - 1] \o s[i]]
           F == CHOOSE f : Eqn(f)
<1>5. Eqn([i \in 1 .. n |-> v[i]])
  <2> DEFINE f == [i \in 1 .. n |-> v[i]]
  <2>1. ASSUME NEW i \in 1 .. n PROVE f[i] = IF i = 1 THEN s[i] ELSE f[i - 1] \o s[i]
    <3>1. CASE i = 1
      <4>1. v[i] = v[i - 1] \o s[i] /\ v[i - 1] = <<>> /\ s[i] \in V
        BY <1>0, <1>3, <1>4, <3>1
      <4> QED BY <1>E, <3>1, <4>1
    <3>2. CASE i # 1
      <4>1. i - 1 \in 1 .. n
        BY <1>0, <3>2
      <4> QED BY <1>4, <3>2, <4>1
    <3> QED BY <3>1, <3>2
  <2> QED BY <2>1
<1>6. Eqn(F)
  <2> HIDE DEF Eqn
  <2> QED BY <1>5
<1>7. FlattenSeq(s) = IF n = 0 THEN s ELSE F[n]
  BY <1>n DEF FlattenSeq
<1> HIDE DEF F
<1>8. \A i \in 1 .. n : F[i] = v[i]
  <2> DEFINE T == {i \in 0 .. n : i # 0 => F[i] = v[i]}
  <2>1. 0 \in T
    BY <1>0
  <2>2. ASSUME NEW i \in 1 .. n, i - 1 \in T PROVE i \in T
    <3>1. F[i] = IF i = 1 THEN s[i] ELSE F[i - 1] \o s[i]
      BY <1>6
    <3>2. CASE i = 1
      <4>1. v[i] = v[i - 1] \o s[i] /\ v[i - 1] = <<>> /\ s[i] \in V
        BY <1>0, <1>3, <1>4, <3>2
      <4> QED BY <1>E, <3>1, <3>2, <4>1
    <3>3. CASE i # 1
      <4>1. i - 1 # 0 /\ i \in 0 .. n
        BY <1>0, <3>3
      <4> QED BY <1>4, <2>2, <3>1, <3>3, <4>1
    <3> QED BY <3>2, <3>3
  <2>3. 0 .. n \subseteq T
    <3> HIDE DEF T
    <3> QED BY <1>0, <2>1, <2>2, UpTo
  <2>4. \A i \in 1 .. n : i \in 0 .. n /\ i # 0
    BY <1>0
  <2> QED BY <2>3, <2>4
<1>9. FlattenSeq(s) = v[n]
  <2>1. CASE n = 0
    <3>1. s = <<>>
      BY <1>n, <2>1, EmptySeq
    <3> QED BY <1>3, <1>7, <2>1, <3>1
  <2>2. CASE n # 0
    <3>1. n \in 1 .. n
      BY <1>0, <2>2
    <3> QED BY <1>7, <1>8, <2>2, <3>1
  <2> QED BY <2>1, <2>2
<1> QED BY <1>n, <1>V, <1>3, <1>4, <1>9 DEF Flattening

(* Two sequences that begin with the same k elements.                      *)
SameStart(s, t, k) ==
  /\ Len(s) \in Nat /\ Len(t) \in Nat /\ k <= Len(s) /\ k <= Len(t)
  /\ \A i \in 1 .. k : s[i] = t[i]

LEMMA FlattenSame ==
  ASSUME NEW s, NEW t, NEW k \in Nat, NEW v, NEW w,
         SameStart(s, t, k), Flattening(v, s), Flattening(w, t)
  PROVE  v[k] = w[k]
<1> DEFINE T == {i \in 0 .. k : v[i] = w[i]}
<1>1. 0 \in T
  BY DEF Flattening
<1>2. ASSUME NEW i \in 1 .. k, i - 1 \in T PROVE i \in T
  <2>1. i \in 1 .. Len(s) /\ i \in 1 .. Len(t) /\ i \in 0 .. k
    BY DEF SameStart
  <2>2. v[i] = v[i - 1] \o s[i] /\ w[i] = w[i - 1] \o t[i]
    BY <2>1 DEF Flattening
  <2>3. s[i] = t[i]
    BY DEF SameStart
  <2> QED BY <1>2, <2>1, <2>2, <2>3
<1>3. 0 .. k \subseteq T
  <2> HIDE DEF T
  <2> QED BY <1>1, <1>2, UpTo
<1> QED BY <1>3

LEMMA FlattenAppend ==
  ASSUME NEW A, NEW s \in Seq(Seq(A)), NEW t \in Seq(A)
  PROVE  /\ FlattenSeq(<<>>) = <<>> /\ FlattenSeq(s) \in Seq(A)
         /\ FlattenSeq(Append(s, t)) = FlattenSeq(s) \o t
<1>n. PICK n \in Nat : n = Len(s)
  OBVIOUS
<1>s. PICK st : st = Append(s, t)
  OBVIOUS
<1>1. n \in Nat /\ st \in Seq(Seq(A)) /\ Len(st) = n + 1 /\ st[n + 1] = t
      /\ \A i \in 1 .. n : st[i] = s[i]
  BY <1>n, <1>s
<1>2. PICK v \in [0 .. n -> Seq(A)] : Flattening(v, s)
  BY <1>n, FlattenSteps
<1>3. PICK w \in [0 .. n + 1 -> Seq(A)] : Flattening(w, st)
  <2>1. \E w \in [0 .. Len(st) -> Seq(A)] : Flattening(w, st)
    BY <1>1, FlattenSteps
  <2> QED BY <1>1, <2>1
<1>4. <<>> \in Seq(Seq(A)) /\ Len(<<>>) = 0
  OBVIOUS
<1>5. PICK u \in [0 .. 0 -> Seq(A)] : Flattening(u, <<>>)
  BY <1>4, FlattenSteps
<1>6. FlattenSeq(<<>>) = <<>>
  BY <1>4, <1>5 DEF Flattening
<1>7. w[n] = v[n]
  <2>1. SameStart(s, st, n)
    BY <1>1, <1>n DEF SameStart
  <2>2. \A f, g : Flattening(f, s) /\ Flattening(g, st) => f[n] = g[n]
    BY <2>1, FlattenSame
  <2>3. v[n] = w[n]
    BY <1>2, <1>3, <2>2
  <2> QED BY <2>3
<1>8. w[n + 1] = w[n] \o st[n + 1]
  <2>1. n + 1 \in 1 .. Len(st) /\ (n + 1) - 1 = n
    BY <1>1
  <2> QED BY <1>3, <2>1 DEF Flattening
<1>9. v[n] \in Seq(A)
  <2>1. n \in 0 .. n
    OBVIOUS
  <2> QED BY <2>1
<1> QED BY <1>1, <1>n, <1>s, <1>2, <1>3, <1>6, <1>7, <1>8, <1>9 DEF Flattening

(* Selecting the members of a sequence that are in a set.                   *)
Selecting(v, s, P) ==
  /\ v[0] = <<>> /\ Selected(s, P) = v[Len(s)]
  /\ \A i \in 1 .. Len(s) : v[i] = IF s[i] \in P THEN Append(v[i - 1], s[i]) ELSE v[i - 1]

LEMMA SelectedSteps ==
  ASSUME NEW A, NEW P, NEW s \in Seq(A)
  PROVE  \E v \in [0 .. Len(s) -> Seq(A)] : Selecting(v, s, P)
<1>n. PICK n \in Nat : n = Len(s) /\ DOMAIN s = 1 .. n
  OBVIOUS
<1>V. PICK V : V = Seq(A)
  OBVIOUS
<1>0. <<>> \in V
  BY <1>V
<1>1. \A i \in 1 .. n : s[i] \in A
  BY <1>n
<1>2. \A x \in V, o \in A : (IF o \in P THEN Append(x, o) ELSE x) \in V
  BY <1>V
<1> DEFINE step == [q \in (1 .. n) \X V |-> IF s[q[1]] \in P THEN Append(q[2], s[q[1]]) ELSE q[2]]
<1>3. /\ step \in [(1 .. n) \X V -> V]
      /\ \A i \in 1 .. n, x \in V : step[<<i, x>>] = IF s[i] \in P THEN Append(x, s[i]) ELSE x
  BY <1>1, <1>2
<1> HIDE DEF step
<1>4. PICK it \in [SUBSET (1 .. n) -> V] : Folded(it, n, <<>>, step)
  BY <1>0, <1>3, FoldExists
<1> DEFINE Eqn(f) == f = [t \in SUBSET DOMAIN s |->
                            IF t = {} THEN <<>> ELSE IF s[Max(t)] \in P THEN Append(f[t \ {Max(t)}], s[Max(t)]) ELSE f[t \ {Max(t)}]]
           jt == CHOOSE f : Eqn(f)
<1>5. Eqn(it)
  <2>1. ASSUME NEW t \in SUBSET (1 .. n), t # {}
        PROVE  Max(t) \in 1 .. n /\ it[t \ {Max(t)}] \in V
    BY <2>1, MaxIs
  <2>2. ASSUME NEW t \in SUBSET (1 .. n)
        PROVE  it[t] = IF t = {} THEN <<>> ELSE IF s[Max(t)] \in P THEN Append(it[t \ {Max(t)}], s[Max(t)]) ELSE it[t \ {Max(t)}]
    <3>1. CASE t = {}
      BY <1>4, <3>1 DEF Folded
    <3>2. CASE t # {}
      BY <1>3, <1>4, <2>1, <3>2 DEF Folded
    <3> QED BY <3>1, <3>2
  <2> QED BY <1>n, <2>2
<1>6. Eqn(jt)
  <2> HIDE DEF Eqn
  <2> QED BY <1>5
<1>7. Selected(s, P) = jt[1 .. n]
  BY <1>n DEF Selected, FoldLeft, MapThenFoldSet
<1> HIDE DEF jt
<1> DEFINE v == [i \in 0 .. n |-> jt[1 .. i]]
<1>8. v[0] = <<>> /\ v[n] = jt[1 .. n]
  BY <1>n, <1>6
<1>9. \A i \in 1 .. n : v[i] = IF s[i] \in P THEN Append(v[i - 1], s[i]) ELSE v[i - 1]
  <2> SUFFICES ASSUME NEW i \in 1 .. n PROVE v[i] = IF s[i] \in P THEN Append(v[i - 1], s[i]) ELSE v[i - 1]
    OBVIOUS
  <2>1. /\ 1 .. i \in SUBSET (1 .. n) /\ 1 .. i # {} /\ Max(1 .. i) = i
        /\ (1 .. i) \ {i} = 1 .. (i - 1)
    BY MaxOfInterval
  <2>2. v[i] = jt[1 .. i] /\ v[i - 1] = jt[1 .. (i - 1)]
    OBVIOUS
  <2>3. jt[1 .. i] = IF s[i] \in P THEN Append(jt[(1 .. i) \ {i}], s[i]) ELSE jt[(1 .. i) \ {i}]
    BY <1>n, <1>6, <2>1
  <2> QED BY <2>1, <2>2, <2>3
<1>10. v \in [0 .. n -> V]
  <2> DEFINE T == {i \in 0 .. n : v[i] \in V}
  <2>1. 0 \in T
    BY <1>0, <1>8
  <2>2. ASSUME NEW i \in 1 .. n, i - 1 \in T PROVE i \in T
    <3>1. i \in 0 .. n /\ v[i - 1] \in V
      BY <2>2
    <3> HIDE DEF v
    <3>2. v[i] = IF s[i] \in P THEN Append(v[i - 1], s[i]) ELSE v[i - 1]
      BY <1>9
    <3> QED BY <1>1, <1>2, <3>1, <3>2
  <2>3. 0 .. n \subseteq T
    <3> HIDE DEF T
    <3> QED BY <2>1, <2>2, UpTo
  <2> QED BY <2>3
<1> HIDE DEF v
<1>11. Selecting(v, s, P)
  BY <1>n, <1>7, <1>8, <1>9 DEF Selecting
<1> QED BY <1>n, <1>V, <1>10, <1>11

Views == [Paths -> Seq(Contents \cup Commits)]

Replay(base, ops) == FoldLeft(ApplyOp, base, ops)

LEMMA ApplyOpType ==
  ASSUME NEW view \in Views, NEW op \in Ops
  PROVE  /\ ApplyOp(view, op) \in Views
         /\ \A p \in Paths : ApplyOp(view, op)[p] =
              IF p # op.path THEN view[p]
              ELSE IF op.kind = "delete" THEN <<>>
              ELSE IF op.kind = "overwrite" THEN op.content ELSE view[p] \o op.content
<1>1. /\ op.kind \in {"append", "overwrite", "delete"} /\ op.path \in Paths
      /\ op.content \in Seq(Contents \cup Commits)
  BY DEF Ops
<1>2. \A p \in Paths : view[p] \in Seq(Contents \cup Commits)
  BY DEF Views
<1> DEFINE new == CASE op.kind = "delete" -> <<>>
                    [] op.kind = "overwrite" -> op.content
                    [] op.kind = "append" -> view[op.path] \o op.content
<1>3. ApplyOp(view, op) = [view EXCEPT ![op.path] = new]
  BY DEF ApplyOp
<1>4. view[op.path] \o op.content \in Seq(Contents \cup Commits)
  BY <1>1, <1>2, ConcatProperties
<1>5. /\ new \in Seq(Contents \cup Commits)
      /\ new = IF op.kind = "delete" THEN <<>>
               ELSE IF op.kind = "overwrite" THEN op.content ELSE view[op.path] \o op.content
  <2>1. CASE op.kind = "delete"
    BY <2>1
  <2>2. CASE op.kind = "overwrite"
    BY <1>1, <2>2
  <2>3. CASE op.kind = "append"
    BY <1>4, <2>3
  <2> QED BY <1>1, <2>1, <2>2, <2>3
<1> HIDE DEF new
<1> QED BY <1>1, <1>2, <1>3, <1>5 DEF Views

(* Replaying operations on a view.                                          *)
Replaying(v, base, s) ==
  /\ v[0] = base /\ Replay(base, s) = v[Len(s)]
  /\ \A i \in 1 .. Len(s) : v[i] = ApplyOp(v[i - 1], s[i])

LEMMA ReplaySteps ==
  ASSUME NEW base \in Views, NEW s \in Seq(Ops)
  PROVE  \E v \in [0 .. Len(s) -> Views] : Replaying(v, base, s)
<1>n. PICK n \in Nat : n = Len(s) /\ DOMAIN s = 1 .. n
  OBVIOUS
<1>V. PICK V : V = Views
  OBVIOUS
<1>0. base \in V
  BY <1>V
<1>1. \A i \in 1 .. n : s[i] \in Ops
  BY <1>n
<1>2. \A x \in V, o \in Ops : ApplyOp(x, o) \in V
  BY <1>V, ApplyOpType
<1> DEFINE step == [q \in (1 .. n) \X V |-> ApplyOp(q[2], s[q[1]])]
<1>3. /\ step \in [(1 .. n) \X V -> V]
      /\ \A i \in 1 .. n, x \in V : step[<<i, x>>] = ApplyOp(x, s[i])
  BY <1>1, <1>2
<1> HIDE DEF step
<1>4. PICK it \in [SUBSET (1 .. n) -> V] : Folded(it, n, base, step)
  BY <1>0, <1>3, FoldExists
<1> DEFINE Eqn(f) == f = [t \in SUBSET DOMAIN s |->
                            IF t = {} THEN base ELSE ApplyOp(f[t \ {Max(t)}], s[Max(t)])]
           jt == CHOOSE f : Eqn(f)
<1>5. Eqn(it)
  <2>1. ASSUME NEW t \in SUBSET (1 .. n), t # {}
        PROVE  Max(t) \in 1 .. n /\ it[t \ {Max(t)}] \in V
    BY <2>1, MaxIs
  <2>2. ASSUME NEW t \in SUBSET (1 .. n)
        PROVE  it[t] = IF t = {} THEN base ELSE ApplyOp(it[t \ {Max(t)}], s[Max(t)])
    <3>1. CASE t = {}
      BY <1>4, <3>1 DEF Folded
    <3>2. CASE t # {}
      BY <1>3, <1>4, <2>1, <3>2 DEF Folded
    <3> QED BY <3>1, <3>2
  <2> QED BY <1>n, <2>2
<1>6. Eqn(jt)
  <2> HIDE DEF Eqn
  <2> QED BY <1>5
<1>7. Replay(base, s) = jt[1 .. n]
  BY <1>n DEF Replay, FoldLeft, MapThenFoldSet
<1> HIDE DEF jt
<1> DEFINE v == [i \in 0 .. n |-> jt[1 .. i]]
<1>8. v[0] = base /\ v[n] = jt[1 .. n]
  BY <1>n, <1>6
<1>9. \A i \in 1 .. n : v[i] = ApplyOp(v[i - 1], s[i])
  <2> SUFFICES ASSUME NEW i \in 1 .. n PROVE v[i] = ApplyOp(v[i - 1], s[i])
    OBVIOUS
  <2>1. /\ 1 .. i \in SUBSET (1 .. n) /\ 1 .. i # {} /\ Max(1 .. i) = i
        /\ (1 .. i) \ {i} = 1 .. (i - 1)
    BY MaxOfInterval
  <2>2. v[i] = jt[1 .. i] /\ v[i - 1] = jt[1 .. (i - 1)]
    OBVIOUS
  <2> QED BY <1>n, <1>6, <2>1, <2>2
<1>10. v \in [0 .. n -> V]
  <2> DEFINE T == {i \in 0 .. n : v[i] \in V}
  <2>1. 0 \in T
    BY <1>0, <1>8
  <2>2. ASSUME NEW i \in 1 .. n, i - 1 \in T PROVE i \in T
    <3>1. v[i] = ApplyOp(v[i - 1], s[i]) /\ i \in 0 .. n /\ v[i - 1] \in V
      BY <1>9, <2>2
    <3> QED BY <1>1, <1>2, <3>1
  <2>3. 0 .. n \subseteq T
    <3> HIDE DEF T
    <3> QED BY <2>1, <2>2, UpTo
  <2> QED BY <2>3
<1> HIDE DEF v
<1>11. Replaying(v, base, s)
  BY <1>n, <1>7, <1>8, <1>9 DEF Replaying
<1> QED BY <1>n, <1>V, <1>10, <1>11

LEMMA SelectedSame ==
  ASSUME NEW s, NEW t, NEW k \in Nat, NEW v, NEW w, NEW P,
         SameStart(s, t, k), Selecting(v, s, P), Selecting(w, t, P)
  PROVE  v[k] = w[k]
<1> DEFINE T == {i \in 0 .. k : v[i] = w[i]}
<1>1. 0 \in T
  BY DEF Selecting
<1>2. ASSUME NEW i \in 1 .. k, i - 1 \in T PROVE i \in T
  <2>1. i \in 1 .. Len(s) /\ i \in 1 .. Len(t) /\ i \in 0 .. k
    BY DEF SameStart
  <2>2. /\ v[i] = IF s[i] \in P THEN Append(v[i - 1], s[i]) ELSE v[i - 1]
        /\ w[i] = IF t[i] \in P THEN Append(w[i - 1], t[i]) ELSE w[i - 1]
    BY <2>1 DEF Selecting
  <2>3. s[i] = t[i]
    BY DEF SameStart
  <2> QED BY <1>2, <2>1, <2>2, <2>3
<1>3. 0 .. k \subseteq T
  <2> HIDE DEF T
  <2> QED BY <1>1, <1>2, UpTo
<1> QED BY <1>3

LEMMA SelectedAppend ==
  ASSUME NEW A, NEW P, NEW s \in Seq(A), NEW a \in A
  PROVE  /\ Selected(<<>>, P) = <<>> /\ Selected(s, P) \in Seq(A)
         /\ Selected(Append(s, a), P) =
              IF a \in P THEN Append(Selected(s, P), a) ELSE Selected(s, P)
<1>n. PICK n \in Nat : n = Len(s)
  OBVIOUS
<1>s. PICK st : st = Append(s, a)
  OBVIOUS
<1>1. /\ st \in Seq(A) /\ Len(st) = n + 1 /\ st[n + 1] = a
      /\ \A i \in 1 .. n : st[i] = s[i]
  BY <1>n, <1>s
<1>2. PICK v \in [0 .. n -> Seq(A)] : Selecting(v, s, P)
  BY <1>n, SelectedSteps
<1>3. PICK w \in [0 .. n + 1 -> Seq(A)] : Selecting(w, st, P)
  <2>1. \E w \in [0 .. Len(st) -> Seq(A)] : Selecting(w, st, P)
    BY <1>1, SelectedSteps
  <2> QED BY <1>1, <2>1
<1>4. <<>> \in Seq(A) /\ Len(<<>>) = 0
  OBVIOUS
<1>5. PICK u \in [0 .. 0 -> Seq(A)] : Selecting(u, <<>>, P)
  BY <1>4, SelectedSteps
<1>6. Selected(<<>>, P) = <<>>
  BY <1>4, <1>5 DEF Selecting
<1>7. w[n] = v[n]
  <2>1. SameStart(s, st, n)
    BY <1>1, <1>n DEF SameStart
  <2>2. \A f, g : Selecting(f, s, P) /\ Selecting(g, st, P) => f[n] = g[n]
    BY <2>1, SelectedSame
  <2>3. v[n] = w[n]
    BY <1>2, <1>3, <2>2
  <2> QED BY <2>3
<1>8. w[n + 1] = IF st[n + 1] \in P THEN Append(w[n], st[n + 1]) ELSE w[n]
  <2>1. n + 1 \in 1 .. Len(st) /\ (n + 1) - 1 = n
    BY <1>1
  <2> QED BY <1>3, <2>1 DEF Selecting
<1>9. v[n] \in Seq(A)
  <2>1. n \in 0 .. n
    OBVIOUS
  <2> QED BY <2>1
<1>10. Selected(s, P) = v[n] /\ Selected(st, P) = w[n + 1]
  BY <1>1, <1>n, <1>2, <1>3 DEF Selecting
<1> QED BY <1>1, <1>s, <1>6, <1>7, <1>8, <1>9, <1>10

LEMMA ReplaySame ==
  ASSUME NEW s, NEW t, NEW k \in Nat, NEW v, NEW w, NEW base,
         SameStart(s, t, k), Replaying(v, base, s), Replaying(w, base, t)
  PROVE  v[k] = w[k]
<1> DEFINE T == {i \in 0 .. k : v[i] = w[i]}
<1>1. 0 \in T
  BY DEF Replaying
<1>2. ASSUME NEW i \in 1 .. k, i - 1 \in T PROVE i \in T
  <2>1. i \in 1 .. Len(s) /\ i \in 1 .. Len(t) /\ i \in 0 .. k
    BY DEF SameStart
  <2>2. /\ v[i] = ApplyOp(v[i - 1], s[i])
        /\ w[i] = ApplyOp(w[i - 1], t[i])
    BY <2>1 DEF Replaying
  <2>3. s[i] = t[i]
    BY DEF SameStart
  <2> QED BY <1>2, <2>1, <2>2, <2>3
<1>3. 0 .. k \subseteq T
  <2> HIDE DEF T
  <2> QED BY <1>1, <1>2, UpTo
<1> QED BY <1>3

LEMMA ReplayAppend ==
  ASSUME NEW base \in Views, NEW s \in Seq(Ops), NEW a \in Ops
  PROVE  /\ Replay(base, <<>>) = base /\ Replay(base, s) \in Views
         /\ Replay(base, Append(s, a)) =
              ApplyOp(Replay(base, s), a)
<1>n. PICK n \in Nat : n = Len(s)
  OBVIOUS
<1>s. PICK st : st = Append(s, a)
  OBVIOUS
<1>1. /\ st \in Seq(Ops) /\ Len(st) = n + 1 /\ st[n + 1] = a
      /\ \A i \in 1 .. n : st[i] = s[i]
  BY <1>n, <1>s
<1>2. PICK v \in [0 .. n -> Views] : Replaying(v, base, s)
  BY <1>n, ReplaySteps
<1>3. PICK w \in [0 .. n + 1 -> Views] : Replaying(w, base, st)
  <2>1. \E w \in [0 .. Len(st) -> Views] : Replaying(w, base, st)
    BY <1>1, ReplaySteps
  <2> QED BY <1>1, <2>1
<1>4. <<>> \in Seq(Ops) /\ Len(<<>>) = 0
  OBVIOUS
<1>5. PICK u \in [0 .. 0 -> Views] : Replaying(u, base, <<>>)
  BY <1>4, ReplaySteps
<1>6. Replay(base, <<>>) = base
  BY <1>4, <1>5 DEF Replaying
<1>7. w[n] = v[n]
  <2>1. SameStart(s, st, n)
    BY <1>1, <1>n DEF SameStart
  <2>2. \A f, g : Replaying(f, base, s) /\ Replaying(g, base, st) => f[n] = g[n]
    BY <2>1, ReplaySame
  <2>3. v[n] = w[n]
    BY <1>2, <1>3, <2>2
  <2> QED BY <2>3
<1>8. w[n + 1] = ApplyOp(w[n], st[n + 1])
  <2>1. n + 1 \in 1 .. Len(st) /\ (n + 1) - 1 = n
    BY <1>1
  <2> QED BY <1>3, <2>1 DEF Replaying
<1>9. v[n] \in Views
  <2>1. n \in 0 .. n
    OBVIOUS
  <2> QED BY <2>1
<1>10. Replay(base, s) = v[n] /\ Replay(base, st) = w[n + 1]
  BY <1>1, <1>n, <1>2, <1>3 DEF Replaying
<1> QED BY <1>1, <1>s, <1>6, <1>7, <1>8, <1>9, <1>10

(* What holds of the empty sequence and passes to longer ones by appending *)
(* holds of every sequence.                                                *)
LEMMA Sequences ==
  ASSUME NEW A, NEW T, <<>> \in T,
         \A s \in Seq(A), a \in A : s \in T => Append(s, a) \in T
  PROVE  Seq(A) \subseteq T
<1> SUFFICES ASSUME NEW s \in Seq(A) PROVE s \in T
  OBVIOUS
<1>1. PICK n \in Nat : n = Len(s)
  OBVIOUS
<1> DEFINE part(k) == SubSeq(s, 1, k)
           U == {k \in 0 .. n : part(k) \in T}
<1>2. part(0) = <<>> /\ part(n) = s
  BY <1>1, SubSeqEmpty, SubSeqFull
<1>3. \A k \in 1 .. n : /\ part(k) = Append(part(k - 1), s[k])
                        /\ part(k - 1) \in Seq(A) /\ s[k] \in A
  BY <1>1
<1> HIDE DEF part
<1>4. 0 \in U
  BY <1>2
<1>5. ASSUME NEW k \in 1 .. n, k - 1 \in U PROVE k \in U
  <2>1. part(k - 1) \in T /\ k \in 0 .. n
    BY <1>5
  <2>2. Append(part(k - 1), s[k]) \in T
    BY <1>3, <2>1
  <2> QED BY <1>3, <2>1, <2>2
<1>6. 0 .. n \subseteq U
  <2> HIDE DEF U
  <2> QED BY <1>4, <1>5, UpTo
<1>7. n \in 0 .. n
  OBVIOUS
<1> QED BY <1>2, <1>6, <1>7

LEMMA ReplayConcat ==
  ASSUME NEW base \in Views, NEW s \in Seq(Ops), NEW t \in Seq(Ops)
  PROVE  Replay(base, s \o t) = Replay(Replay(base, s), t) /\ s \o t \in Seq(Ops)
<1>1. PICK view \in Views : view = Replay(base, s)
  BY ReplayAppend, ReplaySteps DEF Replaying
<1> DEFINE T == {u \in Seq(Ops) : Replay(base, s \o u) = Replay(view, u) /\ s \o u \in Seq(Ops)}
<1>2. <<>> \in T
  <2>1. s \o <<>> = s /\ <<>> \in Seq(Ops)
    BY ConcatEmptySeq
  <2>2. Replay(view, <<>>) = view
    BY <1>1, ReplaySteps, <2>1 DEF Replaying
  <2> QED BY <1>1, <2>1, <2>2
<1>3. ASSUME NEW u \in Seq(Ops), NEW o \in Ops, u \in T PROVE Append(u, o) \in T
  <2>1. Append(u, o) \in Seq(Ops) /\ s \o Append(u, o) = Append(s \o u, o)
    OBVIOUS
  <2>2. Replay(base, Append(s \o u, o)) = ApplyOp(Replay(base, s \o u), o)
    BY <1>3, ReplayAppend
  <2>3. Replay(view, Append(u, o)) = ApplyOp(Replay(view, u), o)
    BY ReplayAppend
  <2>4. Append(s \o u, o) \in Seq(Ops)
    BY <1>3
  <2> QED BY <1>3, <2>1, <2>2, <2>3, <2>4
<1>4. Seq(Ops) \subseteq T
  <2> HIDE DEF T
  <2> QED BY <1>2, <1>3, Sequences
<1> QED BY <1>1, <1>4

----------------------------------------------------------------------------
(* What a path should hold (Expected), when one more operation comes.      *)

LastReset(ops, p) == SelectLastInSeq(ops, LAMBDA op : Resets(op, p))

Keeps(p) == {op \in Ops : op.path = p /\ op.kind # "delete"}

Since(ops, p) ==
  SubSeq(ops, IF LastReset(ops, p) = 0 THEN 1 ELSE LastReset(ops, p), Len(ops))

AllContent(kept) == FlattenSeq([i \in DOMAIN kept |-> kept[i].content])

LEMMA ExpectedIs ==
  ASSUME NEW ops, NEW p
  PROVE  Expected(ops, p) = AllContent(Selected(Since(ops, p), Keeps(p)))
BY DEF Expected, AllContent, Since, LastReset, Keeps

LEMMA LastResetAppend ==
  ASSUME NEW ops \in Seq(Ops), NEW o \in Ops, NEW p
  PROVE  /\ LastReset(ops, p) \in 0 .. Len(ops)
         /\ LastReset(Append(ops, o), p) =
              IF Resets(o, p) THEN Len(ops) + 1 ELSE LastReset(ops, p)
<1>1. PICK n \in Nat : n = Len(ops)
  OBVIOUS
<1>2. PICK more : more = Append(ops, o)
  OBVIOUS
<1>3. Len(more) = n + 1 /\ more[n + 1] = o /\ \A i \in 1 .. n : more[i] = ops[i]
  BY <1>1, <1>2
<1> DEFINE I == {i \in 1 .. n : Resets(ops[i], p)}
           J == {i \in 1 .. n + 1 : Resets(more[i], p)}
<1>4. LastReset(ops, p) = IF I # {} THEN Max(I) ELSE 0
  BY <1>1 DEF LastReset, SelectLastInSeq
<1>5. LastReset(more, p) = IF J # {} THEN Max(J) ELSE 0
  BY <1>3 DEF LastReset, SelectLastInSeq
<1>6. I # {} => Max(I) \in 1 .. n
  <2>1. I \in SUBSET (1 .. n)
    OBVIOUS
  <2> HIDE DEF I
  <2> QED BY <2>1, MaxIs
<1>7. CASE Resets(o, p)
  <2>1. n + 1 \in J /\ J \in SUBSET (1 .. n + 1) /\ n + 1 \in Nat
    BY <1>3, <1>7
  <2> HIDE DEF J
  <2>2. Max(J) \in J /\ \A m \in J : m <= Max(J)
    BY <2>1, MaxIs
  <2>3. Max(J) = n + 1
    <3>1. PICK x \in 1 .. n + 1 : x = Max(J) /\ n + 1 <= x
      BY <2>1, <2>2
    <3> QED BY <3>1
  <2> HIDE DEF I
  <2> QED BY <1>1, <1>2, <1>4, <1>5, <1>6, <1>7, <2>1, <2>3
<1>8. CASE ~Resets(o, p)
  <2>1. I = J
    <3>1. \A i \in 1 .. n + 1 : i \in 1 .. n \/ i = n + 1
      OBVIOUS
    <3> QED BY <1>3, <1>8, <3>1
  <2> HIDE DEF I, J
  <2> QED BY <1>1, <1>2, <1>4, <1>5, <1>6, <1>8, <2>1
<1> QED BY <1>7, <1>8

LEMMA AllContentAppend ==
  ASSUME NEW kept \in Seq(Ops), NEW o \in Ops
  PROVE  /\ AllContent(kept) \in Seq(Contents \cup Commits) /\ AllContent(<<>>) = <<>>
         /\ AllContent(Append(kept, o)) = AllContent(kept) \o o.content
<1>1. PICK n \in Nat : n = Len(kept) /\ DOMAIN kept = 1 .. n
  OBVIOUS
<1>2. PICK more : more = Append(kept, o)
  OBVIOUS
<1>3. /\ DOMAIN more = 1 .. n + 1 /\ more[n + 1] = o
      /\ \A i \in 1 .. n : more[i] = kept[i]
  BY <1>1, <1>2
<1>4. PICK C : C = Contents \cup Commits
  OBVIOUS
<1>5. \A x \in Ops : x.content \in Seq(C)
  BY <1>4 DEF Ops
<1>6. PICK cs : cs = [i \in 1 .. n |-> kept[i].content]
  OBVIOUS
<1>7. \A i \in 1 .. n : kept[i].content \in Seq(C)
  BY <1>1, <1>5
<1>8. cs \in Seq(Seq(C)) /\ Len(cs) = n
  BY <1>6, <1>7
<1>9. [i \in 1 .. n + 1 |-> more[i].content] = Append(cs, o.content)
  <2>1. \A i \in 1 .. n + 1 : i \in 1 .. n \/ i = n + 1
    OBVIOUS
  <2>2. Append(cs, o.content) = [i \in 1 .. n + 1 |-> IF i = n + 1 THEN o.content ELSE cs[i]]
    BY <1>8
  <2>3. \A i \in 1 .. n + 1 : more[i].content = IF i = n + 1 THEN o.content ELSE cs[i]
    BY <1>3, <1>6, <2>1
  <2> QED BY <2>2, <2>3
<1>10. /\ FlattenSeq(<<>>) = <<>> /\ FlattenSeq(cs) \in Seq(C)
       /\ FlattenSeq(Append(cs, o.content)) = FlattenSeq(cs) \o o.content
  BY <1>5, <1>8, FlattenAppend
<1>11. AllContent(kept) = FlattenSeq(cs) /\ AllContent(more) = FlattenSeq(Append(cs, o.content))
  BY <1>1, <1>3, <1>6, <1>9 DEF AllContent
<1>12. AllContent(<<>>) = FlattenSeq(<<>>)
  <2>1. [i \in DOMAIN <<>> |-> <<>>[i].content] = <<>>
    OBVIOUS
  <2> QED BY <2>1 DEF AllContent
<1> QED BY <1>2, <1>4, <1>10, <1>11, <1>12

LEMMA SubSeqAppend ==
  ASSUME NEW A, NEW s \in Seq(A), NEW a \in A, NEW k \in 1 .. Len(s) + 1
  PROVE  /\ SubSeq(s, k, Len(s)) \in Seq(A)
         /\ SubSeq(Append(s, a), k, Len(s) + 1) = Append(SubSeq(s, k, Len(s)), a)
<1>1. PICK n \in Nat : n = Len(s)
  OBVIOUS
<1>2. PICK t : t = Append(s, a)
  OBVIOUS
<1>3. /\ t \in Seq(A) /\ Len(t) = n + 1 /\ t[n + 1] = a
      /\ \A i \in 1 .. n : t[i] = s[i] /\ s[i] \in A
  BY <1>1, <1>2, AppendProperties
<1>m. PICK m \in Nat : m = (n - k) + 1 /\ m + 1 = ((n + 1) - k) + 1 /\ k <= n + 1
  BY <1>1
<1>4. PICK u : u = SubSeq(s, k, n)
  OBVIOUS
<1>5. u \in Seq(A) /\ Len(u) = m /\ \A i \in 1 .. m : u[i] = s[(k + i) - 1]
  <2>1. \A i \in k .. n : s[i] \in A
    BY <1>1, <1>3
  <2>2. k \in Int /\ n \in Int
    BY <1>1
  <2> QED BY <1>1, <1>m, <1>4, <2>1, <2>2, SubSeqProperties
<1>6. PICK w : w = SubSeq(t, k, n + 1)
  OBVIOUS
<1>7. w \in Seq(A) /\ Len(w) = m + 1 /\ \A i \in 1 .. m + 1 : w[i] = t[(k + i) - 1]
  <2>1. \A i \in k .. n + 1 : t[i] \in A
    BY <1>1, <1>3
  <2>2. k \in Int /\ n + 1 \in Int
    BY <1>1
  <2> QED BY <1>m, <1>6, <2>1, <2>2, SubSeqProperties
<1>8. PICK x : x = Append(u, a)
  OBVIOUS
<1>9. x \in Seq(A) /\ Len(x) = m + 1 /\ x[m + 1] = a /\ \A i \in 1 .. m : x[i] = u[i]
  BY <1>5, <1>8, AppendProperties
<1>10. ASSUME NEW i \in 1 .. m + 1 PROVE w[i] = x[i]
  <2>1. CASE i = m + 1
    <3>1. (k + i) - 1 = n + 1
      BY <1>1, <1>m, <2>1
    <3> QED BY <1>3, <1>7, <1>9, <2>1, <3>1
  <2>2. CASE i # m + 1
    <3>1. i \in 1 .. m
      BY <2>2
    <3>2. (k + i) - 1 \in 1 .. n
      BY <1>1, <1>m, <3>1
    <3> QED BY <1>3, <1>5, <1>7, <1>9, <3>1, <3>2
  <2> QED BY <2>1, <2>2
<1>11. w = x
  BY <1>7, <1>9, <1>10, SeqEqual
<1> QED BY <1>1, <1>2, <1>4, <1>5, <1>6, <1>8, <1>11

(* One more operation changes what is expected of its own path only: a     *)
(* delete leaves nothing, an overwrite its content, an append adds to it.  *)
LEMMA ExpectedAppend ==
  ASSUME NEW ops \in Seq(Ops), NEW o \in Ops, NEW p
  PROVE  Expected(Append(ops, o), p) =
           IF p # o.path THEN Expected(ops, p)
           ELSE IF o.kind = "delete" THEN <<>>
           ELSE IF o.kind = "overwrite" THEN o.content ELSE Expected(ops, p) \o o.content
<1>1. PICK n \in Nat : n = Len(ops)
  OBVIOUS
<1>2. PICK more : more = Append(ops, o)
  OBVIOUS
<1>3. more \in Seq(Ops) /\ Len(more) = n + 1
  BY <1>1, <1>2, AppendProperties
<1>4. PICK l \in 0 .. n : l = LastReset(ops, p)
  BY <1>1, LastResetAppend
<1>5. LastReset(more, p) = IF Resets(o, p) THEN n + 1 ELSE l
  BY <1>1, <1>2, <1>4, LastResetAppend
<1>6. o.kind \in {"append", "overwrite", "delete"} /\ o.content \in Seq(Contents \cup Commits)
  BY DEF Ops
<1>7. o \in Keeps(p) <=> o.path = p /\ o.kind # "delete"
  BY DEF Keeps
<1>8. Expected(more, p) = AllContent(Selected(Since(more, p), Keeps(p)))
  BY ExpectedIs
<1>9. CASE Resets(o, p)
  <2>1. Since(more, p) = SubSeq(more, n + 1, n + 1)
    BY <1>3, <1>5, <1>9 DEF Since
  <2>2. SubSeq(more, n + 1, n + 1) = Append(<<>>, o)
    <3>1. SubSeq(more, n + 1, n + 1) = Append(SubSeq(ops, n + 1, n), o)
      BY <1>1, <1>2, SubSeqAppend
    <3>2. SubSeq(ops, n + 1, n) = <<>>
      BY SubSeqEmpty
    <3> QED BY <3>1, <3>2
  <2>3. <<>> \in Seq(Ops)
    OBVIOUS
  <2>4. /\ Selected(<<>>, Keeps(p)) = <<>>
        /\ Selected(Append(<<>>, o), Keeps(p)) =
             IF o \in Keeps(p) THEN Append(Selected(<<>>, Keeps(p)), o) ELSE Selected(<<>>, Keeps(p))
    <3>1. PICK none \in Seq(Ops) : none = <<>>
      BY <2>3
    <3>2. Selected(Append(none, o), Keeps(p)) =
            IF o \in Keeps(p) THEN Append(Selected(none, Keeps(p)), o) ELSE Selected(none, Keeps(p))
      BY SelectedAppend
    <3>3. \A P : Selected(<<>>, P) = <<>>
      BY SelectedAppend
    <3> QED BY <3>1, <3>2, <3>3
  <2>5. AllContent(<<>>) = <<>> /\ AllContent(Append(<<>>, o)) = AllContent(<<>>) \o o.content
    BY <2>3, AllContentAppend
  <2>6. <<>> \o o.content = o.content
    BY <1>6, ConcatEmptySeq
  <2>7. Expected(more, p) = IF o \in Keeps(p) THEN o.content ELSE <<>>
    BY <1>8, <2>1, <2>2, <2>4, <2>5, <2>6
  <2> QED BY <1>2, <1>6, <1>7, <1>9, <2>7 DEF Resets
<1>10. CASE ~Resets(o, p)
  <2>1. PICK k \in 1 .. n + 1 : k = IF l = 0 THEN 1 ELSE l
    OBVIOUS
  <2>2. Since(ops, p) = SubSeq(ops, k, n) /\ Since(more, p) = SubSeq(more, k, n + 1)
    BY <1>1, <1>3, <1>4, <1>5, <1>10, <2>1 DEF Since
  <2>3. PICK part \in Seq(Ops) : part = SubSeq(ops, k, n)
    BY <1>1, SubSeqAppend
  <2>4. SubSeq(more, k, n + 1) = Append(part, o)
    BY <1>1, <1>2, <2>3, SubSeqAppend
  <2>5. PICK kept \in Seq(Ops) : kept = Selected(part, Keeps(p))
    BY SelectedAppend
  <2>6. Selected(Append(part, o), Keeps(p)) = IF o \in Keeps(p) THEN Append(kept, o) ELSE kept
    BY <2>5, SelectedAppend
  <2>7. AllContent(Append(kept, o)) = AllContent(kept) \o o.content
    BY AllContentAppend
  <2>8. Expected(ops, p) = AllContent(kept)
    BY <2>2, <2>3, <2>5, ExpectedIs
  <2>9. Expected(more, p) = IF o \in Keeps(p) THEN Expected(ops, p) \o o.content ELSE Expected(ops, p)
    BY <1>8, <2>2, <2>4, <2>6, <2>7, <2>8
  <2> QED BY <1>2, <1>6, <1>7, <1>10, <2>9 DEF Resets
<1> QED BY <1>9, <1>10

LEMMA ExpectedOfNothing == ASSUME NEW p PROVE Expected(<<>>, p) = <<>>
<1>1. LastReset(<<>>, p) = 0
  <2>1. {i \in 1 .. Len(<<>>) : Resets(<<>>[i], p)} = {}
    OBVIOUS
  <2> QED BY <2>1 DEF LastReset, SelectLastInSeq
<1>2. Since(<<>>, p) = <<>>
  BY <1>1, SubSeqEmpty DEF Since
<1>3. <<>> \in Seq(Ops) /\ Len(<<>>) = 0
  OBVIOUS
<1>4. PICK v : Selecting(v, <<>>, Keeps(p))
  BY <1>3, SelectedSteps
<1>5. Selected(<<>>, Keeps(p)) = <<>>
  BY <1>3, <1>4 DEF Selecting
<1>6. [i \in DOMAIN <<>> |-> <<>>[i].content] = <<>> /\ FlattenSeq(<<>>) = <<>>
  BY DEF FlattenSeq
<1>7. AllContent(<<>>) = <<>>
  BY <1>6 DEF AllContent
<1> QED BY <1>2, <1>5, <1>7, ExpectedIs

(* A view holds what is expected of it, path by path.                      *)
LEMMA ViewIsExpected ==
  /\ NoFiles \in Views
  /\ \A ops \in Seq(Ops), p \in Paths : Replay(NoFiles, ops)[p] = Expected(ops, p)
<1>1. NoFiles \in Views
  BY DEF NoFiles, Views
<1> DEFINE T == {ops \in Seq(Ops) : \A p \in Paths : Replay(NoFiles, ops)[p] = Expected(ops, p)}
<1>2. <<>> \in T
  <2>1. <<>> \in Seq(Ops) /\ Len(<<>>) = 0
    OBVIOUS
  <2>2. PICK v : Replaying(v, NoFiles, <<>>)
    BY <1>1, <2>1, ReplaySteps
  <2>3. Replay(NoFiles, <<>>) = NoFiles
    BY <2>1, <2>2 DEF Replaying
  <2> QED BY <2>1, <2>3, ExpectedOfNothing DEF NoFiles
<1>3. ASSUME NEW ops \in Seq(Ops), NEW o \in Ops, ops \in T PROVE Append(ops, o) \in T
  <2>1. PICK view \in Views : view = Replay(NoFiles, ops)
    BY <1>1, ReplayAppend
  <2>2. Replay(NoFiles, Append(ops, o)) = ApplyOp(view, o)
    BY <1>1, <2>1, ReplayAppend
  <2>3. \A p \in Paths : ApplyOp(view, o)[p] = Expected(Append(ops, o), p)
    <3> SUFFICES ASSUME NEW p \in Paths PROVE ApplyOp(view, o)[p] = Expected(Append(ops, o), p)
      OBVIOUS
    <3>1. view[p] = Expected(ops, p)
      BY <1>3, <2>1
    <3>2. ApplyOp(view, o)[p] =
            IF p # o.path THEN view[p]
            ELSE IF o.kind = "delete" THEN <<>>
            ELSE IF o.kind = "overwrite" THEN o.content ELSE view[p] \o o.content
      BY ApplyOpType
    <3> QED BY <3>1, <3>2, ExpectedAppend
  <2>4. Append(ops, o) \in Seq(Ops)
    OBVIOUS
  <2> QED BY <2>2, <2>3, <2>4
<1>4. Seq(Ops) \subseteq T
  <2> HIDE DEF T
  <2> QED BY <1>2, <1>3, Sequences
<1> QED BY <1>1, <1>4

----------------------------------------------------------------------------
(* The operations of a commit and of its lineage.                          *)

(* What is written is well formed, and nothing is recorded of a commit     *)
(* that is not there.                                                      *)
TInv ==
  /\ RInv
  /\ \A d \in Commits : rec[d].ops \in Seq(Ops)
  /\ \A d \in Commits : ~Present(d) => rec[d].parent = NoCommit /\ rec[d].ops = <<>>

OpsOf(chain, R) == FlattenSeq([i \in DOMAIN chain |-> R[chain[i]].ops])

LEMMA OpsOfAppend ==
  ASSUME NEW R, \A d \in Commits : R[d].ops \in Seq(Ops),
         NEW chain \in Seq(Commits), NEW c \in Commits
  PROVE  /\ OpsOf(chain, R) \in Seq(Ops) /\ OpsOf(<<>>, R) = <<>>
         /\ OpsOf(Append(chain, c), R) = OpsOf(chain, R) \o R[c].ops
<1>1. PICK n \in Nat : n = Len(chain) /\ DOMAIN chain = 1 .. n
  OBVIOUS
<1>2. PICK more : more = Append(chain, c)
  OBVIOUS
<1>3. /\ DOMAIN more = 1 .. n + 1 /\ more[n + 1] = c
      /\ \A i \in 1 .. n : more[i] = chain[i] /\ chain[i] \in Commits
  BY <1>1, <1>2
<1>4. PICK cs : cs = [i \in 1 .. n |-> R[chain[i]].ops]
  OBVIOUS
<1>5. \A i \in 1 .. n : R[chain[i]].ops \in Seq(Ops)
  BY <1>3
<1>6. cs \in Seq(Seq(Ops)) /\ Len(cs) = n /\ R[c].ops \in Seq(Ops)
  BY <1>4, <1>5
<1>7. [i \in 1 .. n + 1 |-> R[more[i]].ops] = Append(cs, R[c].ops)
  <2>1. \A i \in 1 .. n + 1 : i \in 1 .. n \/ i = n + 1
    OBVIOUS
  <2>2. Append(cs, R[c].ops) = [i \in 1 .. n + 1 |-> IF i = n + 1 THEN R[c].ops ELSE cs[i]]
    BY <1>6
  <2>3. \A i \in 1 .. n + 1 : R[more[i]].ops = IF i = n + 1 THEN R[c].ops ELSE cs[i]
    BY <1>3, <1>4, <2>1
  <2> QED BY <2>2, <2>3
<1>8. /\ FlattenSeq(<<>>) = <<>> /\ FlattenSeq(cs) \in Seq(Ops)
      /\ FlattenSeq(Append(cs, R[c].ops)) = FlattenSeq(cs) \o R[c].ops
  BY <1>6, FlattenAppend
<1>9. OpsOf(chain, R) = FlattenSeq(cs) /\ OpsOf(more, R) = FlattenSeq(Append(cs, R[c].ops))
  BY <1>1, <1>3, <1>4, <1>7 DEF OpsOf
<1>10. OpsOf(<<>>, R) = FlattenSeq(<<>>)
  <2>1. [i \in DOMAIN <<>> |-> R[<<>>[i]].ops] = <<>>
    OBVIOUS
  <2> QED BY <2>1 DEF OpsOf
<1> QED BY <1>2, <1>8, <1>9, <1>10

(* A lineage's operations are the parent's followed by the commit's own,   *)
(* where the walk goes on.                                                 *)
LEMMA LineageOpsAre ==
  ASSUME TInv, NEW c \in Commits
  PROVE  /\ Lineage(c) \in Seq(Commits) /\ LineageOps(c) \in Seq(Ops)
         /\ LineageOps(c) = IF rec[c].empty THEN <<>>
                            ELSE IF GoesOn(rec, c) THEN LineageOps(rec[c].parent) \o rec[c].ops
                            ELSE rec[c].ops
<1>1. PICK rank \in [Commits -> Nat] : Falls(rank, rec)
  BY DEF TInv, RInv
<1>2. \A d \in Commits : Walk(rec)[d] \in Seq(Commits)
  <2>1. \A d \in Commits : GoesOn(rec, d) => rec[d].parent \in Commits
    BY DEF GoesOn
  <2>2. Commits \in SUBSET Commits /\ AgreeOn(Commits, rec, rec)
    BY <2>1 DEF AgreeOn
  <2>3. SameWalk(Commits, rec, rec)
    BY <1>1, <2>2, WalksAgree
  <2> QED BY <2>3 DEF SameWalk
<1>3. Walk(rec)[c] = WalkStep(rec, Walk(rec), c)
  <2>1. Walk(rec) = [d \in Commits |-> WalkStep(rec, Walk(rec), d)]
    BY <1>1, WalkSolves
  <2> QED BY <2>1
<1>4. \A d \in Commits : rec[d].ops \in Seq(Ops)
  BY DEF TInv
<1>5. \A d \in Commits : Lineage(d) = IF rec[d].empty THEN <<>> ELSE Walk(rec)[d]
  BY LineageIsWalk
<1>6. \A d \in Commits : LineageOps(d) = OpsOf(Lineage(d), rec)
  BY DEF LineageOps, OpsOf
<1>7. PICK none \in Seq(Commits) : none = <<>>
  BY EmptySeq
<1>8. OpsOf(none, rec) = <<>> /\ <<>> \in Seq(Ops) /\ rec[c].ops \in Seq(Ops)
      /\ OpsOf(Append(none, c), rec) = OpsOf(none, rec) \o rec[c].ops
  BY <1>4, <1>7, OpsOfAppend
<1>9. CASE rec[c].empty
  BY <1>5, <1>6, <1>7, <1>8, <1>9
<1>10. CASE ~rec[c].empty /\ GoesOn(rec, c)
  <2>1. PICK p \in Commits : p = rec[c].parent /\ ~rec[p].empty
    BY <1>10 DEF GoesOn
  <2>2. PICK up \in Seq(Commits) : up = Walk(rec)[p] /\ up = Lineage(p)
    BY <1>2, <1>5, <2>1
  <2>3. Lineage(c) = Append(up, c) /\ Append(up, c) \in Seq(Commits)
    BY <1>3, <1>5, <1>10, <2>1, <2>2 DEF WalkStep
  <2>4. OpsOf(Append(up, c), rec) = OpsOf(up, rec) \o rec[c].ops /\ OpsOf(up, rec) \in Seq(Ops)
    BY <1>4, OpsOfAppend
  <2>5. OpsOf(up, rec) \o rec[c].ops \in Seq(Ops)
    BY <1>8, <2>4, ConcatProperties
  <2> QED BY <1>6, <1>10, <2>1, <2>2, <2>3, <2>4, <2>5
<1>11. CASE ~rec[c].empty /\ ~GoesOn(rec, c)
  <2>1. Lineage(c) = Append(none, c) /\ Append(none, c) \in Seq(Commits)
    <3>1. Append(none, c) = <<c>> /\ Append(none, c) \in Seq(Commits)
      BY <1>7
    <3> QED BY <1>3, <1>5, <1>11, <3>1 DEF WalkStep
  <2>2. <<>> \o rec[c].ops = rec[c].ops
    BY <1>8, ConcatEmptySeq
  <2> QED BY <1>6, <1>8, <1>11, <2>1, <2>2
<1> QED BY <1>9, <1>10, <1>11

(* A commit's view is typed, and made from its parent's.                   *)
LEMMA ViewsAre ==
  ASSUME TInv, NEW c \in Commits
  PROVE  /\ ResolveView(c) \in Views /\ ResolveView(c) = Replay(NoFiles, LineageOps(c))
         /\ ResolveView(c) =
              IF rec[c].empty THEN NoFiles
              ELSE Replay(IF rec[c].parent = NoCommit THEN NoFiles
                          ELSE ResolveView(rec[c].parent), rec[c].ops)
<1>1. \A d \in Commits : /\ ResolveView(d) = Replay(NoFiles, LineageOps(d))
                         /\ LineageOps(d) \in Seq(Ops)
  <2>1. \A d \in Commits : ResolveView(d) = Replay(NoFiles, LineageOps(d))
    BY DEF ResolveView, Replay
  <2> QED BY <2>1, LineageOpsAre
<1>2. \A base \in Views : Replay(base, <<>>) = base
  <2> SUFFICES ASSUME NEW base \in Views PROVE Replay(base, <<>>) = base
    OBVIOUS
  <2>1. <<>> \in Seq(Ops) /\ Len(<<>>) = 0
    OBVIOUS
  <2>2. PICK v : Replaying(v, base, <<>>)
    BY <2>1, ReplaySteps
  <2> QED BY <2>1, <2>2 DEF Replaying
<1>3. \A ops \in Seq(Ops) : Replay(NoFiles, ops) \in Views
  <2> SUFFICES ASSUME NEW ops \in Seq(Ops) PROVE Replay(NoFiles, ops) \in Views
    OBVIOUS
  <2>1. PICK v \in [0 .. Len(ops) -> Views] : Replaying(v, NoFiles, ops)
    BY ReplaySteps, ViewIsExpected
  <2>2. Len(ops) \in 0 .. Len(ops)
    OBVIOUS
  <2> QED BY <2>1, <2>2 DEF Replaying
<1>4. NoFiles \in Views
  BY ViewIsExpected
<1>5. rec[c].ops \in Seq(Ops) /\ rec[c].parent \in Commits \cup {NoCommit}
  BY DEF TInv, RInv, Shape, RecordLike
<1>6. CASE rec[c].empty
  <2>1. LineageOps(c) = <<>>
    BY <1>6, LineageOpsAre
  <2> QED BY <1>1, <1>2, <1>4, <1>6, <2>1
<1>7. CASE ~rec[c].empty /\ GoesOn(rec, c)
  <2>1. PICK p \in Commits : p = rec[c].parent /\ p # NoCommit
    BY <1>7, StoreAssumption DEF GoesOn
  <2>2. LineageOps(c) = LineageOps(p) \o rec[c].ops
    BY <1>7, <2>1, LineageOpsAre
  <2>3. Replay(NoFiles, LineageOps(p) \o rec[c].ops) = Replay(Replay(NoFiles, LineageOps(p)), rec[c].ops)
    BY <1>1, <1>4, <1>5, ReplayConcat
  <2> QED BY <1>1, <1>3, <1>7, <2>1, <2>2, <2>3
<1>8. CASE ~rec[c].empty /\ ~GoesOn(rec, c)
  <2>1. LineageOps(c) = rec[c].ops
    BY <1>8, LineageOpsAre
  <2>2. ASSUME NEW p \in Commits, p = rec[c].parent PROVE ResolveView(p) = NoFiles
    <3>1. rec[p].empty \/ ~Present(p)
      BY <1>8, <2>2 DEF GoesOn, Present
    <3>2. LineageOps(p) = <<>>
      <4>1. CASE rec[p].empty
        BY <4>1, LineageOpsAre
      <4>2. CASE ~Present(p) /\ ~rec[p].empty
        <5>1. rec[p].ops = <<>> /\ ~GoesOn(rec, p)
          BY <4>2, StoreAssumption DEF TInv, GoesOn
        <5> QED BY <4>2, <5>1, LineageOpsAre
      <4> QED BY <3>1, <4>1, <4>2
    <3> QED BY <1>1, <1>2, <1>4, <3>2
  <2> QED BY <1>1, <1>3, <1>5, <1>8, <2>1, <2>2
<1> QED BY <1>6, <1>7, <1>8

LEMMA ViewsComposeHere == TInv => ViewsCompose
<1> SUFFICES ASSUME TInv, NEW c \in Commits, Present(c)
             PROVE  LET view == ResolveView(c)
                        ops == LineageOps(c)
                        parent == rec[c].parent
                        base == IF parent = NoCommit THEN NoFiles ELSE ResolveView(parent)
                    IN  /\ \A p \in Paths : view[p] = Expected(ops, p)
                        /\ view = IF rec[c].empty THEN NoFiles ELSE FoldLeft(ApplyOp, base, rec[c].ops)
  BY DEF ViewsCompose
<1>1. ResolveView(c) = Replay(NoFiles, LineageOps(c)) /\ LineageOps(c) \in Seq(Ops)
  BY ViewsAre, LineageOpsAre
<1>2. \A p \in Paths : ResolveView(c)[p] = Expected(LineageOps(c), p)
  BY <1>1, ViewIsExpected
<1>3. ResolveView(c) =
        IF rec[c].empty THEN NoFiles
        ELSE FoldLeft(ApplyOp, IF rec[c].parent = NoCommit THEN NoFiles
                               ELSE ResolveView(rec[c].parent), rec[c].ops)
  BY ViewsAre DEF Replay
<1> QED BY <1>2, <1>3, Zenon

(* What a step writes is well formed.                                      *)
LEMMA PathsFinite == IsFiniteSet(Paths)
<1>1. PICK n \in Nat : n = Len(PathOrder)
  BY StoreAssumption
<1>2. DOMAIN PathOrder = 1 .. n /\ PathOrder \in [1 .. n -> Paths]
  BY <1>1, StoreAssumption DEF Paths
<1>3. PathOrder \in Surjection(1 .. n, Paths)
  BY <1>2 DEF Surjection, Paths
<1>4. IsFiniteSet(1 .. n)
  BY <1>1, FS_Interval
<1> QED BY <1>3, <1>4, FS_Surjection

LEMMA Listed ==
  ASSUME NEW S, IsFiniteSet(S)
  PROVE  SetToSeq(S) \in Seq(S)
<1>1. PICK n \in Nat : n = Cardinality(S)
  BY FS_CardinalityType
<1>2. \E f \in [1 .. n -> S] : IsInjective(f)
  BY <1>1, FS_CardinalityType DEF ExistsBijection, Bijection, Injection
<1>3. SetToSeq(S) \in [1 .. n -> S]
  BY <1>1, <1>2 DEF SetToSeq
<1> QED BY <1>1, <1>3, SeqDef

(* Operations whose content is over an alphabet M.                         *)
OpsOver(M) == [kind : {"append", "overwrite", "delete"}, path : Paths, content : Seq(M)]

LEMMA CopiesTyped ==
  ASSUME NEW M, NEW view \in [Paths -> Seq(M)], NEW dst, NEW src \in Paths, NEW kind \in {"append", "overwrite"},
         \A m \in Moves(view, src, dst) : m.to \in Paths
  PROVE  LET copy == SetToSeq(Moves(view, src, dst))
         IN  [i \in DOMAIN copy |-> Op(kind, copy[i].to, view[copy[i].from])] \in Seq(OpsOver(M))
<1> DEFINE moves == Moves(view, src, dst)
           below == {q \in Files(view) : IsStrictPrefix(src, q)}
           move == [p \in below |->
                      [from |-> p, to |-> dst \o SubSeq(p, Len(src) + 1, Len(p))]]
<1>1. IsFiniteSet(below)
  BY PathsFinite, FS_Subset DEF Files
<1>2. IsFiniteSet(moves) /\ \A m \in moves : m.from \in Paths
  <2>1. CASE view[src] # <<>>
    <3>1. moves = {[from |-> src, to |-> dst]}
      BY <2>1 DEF Moves
    <3> HIDE DEF moves
    <3>2. \A m \in moves : m.from \in Paths
      BY <3>1
    <3>3. IsFiniteSet(moves)
      BY <3>1, FS_Singleton, Zenon
    <3> QED BY <3>2, <3>3
  <2>2. CASE view[src] = <<>>
    <3>1. moves = {[from |-> p, to |-> dst \o SubSeq(p, Len(src) + 1, Len(p))] : p \in below}
      BY <2>2 DEF Moves
    <3>2. below \subseteq Paths
      BY DEF Files
    <3>3. moves = {move[p] : p \in below}
      BY <3>1
    <3> HIDE DEF moves, below
    <3>4. \A m \in moves : m.from \in Paths
      BY <3>1, <3>2
    <3> HIDE DEF move
    <3>5. move \in Surjection(below, moves)
      <4>1. move = [p \in below |-> move[p]]
        BY DEF move
      <4> QED BY <3>3, <4>1 DEF Surjection
    <3> QED BY <1>1, <3>4, <3>5, FS_Surjection
  <2> QED BY <2>1, <2>2
<1>3. \A m \in moves : m.from \in Paths /\ m.to \in Paths
  BY <1>2
<1> HIDE DEF moves
<1>4. PICK copy \in Seq(moves) : copy = SetToSeq(moves)
  BY <1>2, Listed
<1>5. PICK n \in Nat : n = Len(copy) /\ DOMAIN copy = 1 .. n
  BY <1>4
<1>6. \A i \in 1 .. n : copy[i].from \in Paths /\ copy[i].to \in Paths
  BY <1>3, <1>4, <1>5
<1>7. \A i \in 1 .. n : view[copy[i].from] \in Seq(M)
  BY <1>6
<1>8. \A i \in 1 .. n : Op(kind, copy[i].to, view[copy[i].from]) \in OpsOver(M)
  BY <1>6, <1>7 DEF Op, OpsOver
<1>9. [i \in 1 .. n |-> Op(kind, copy[i].to, view[copy[i].from])] \in [1 .. n -> OpsOver(M)]
  BY <1>8
<1>10. [i \in DOMAIN copy |-> Op(kind, copy[i].to, view[copy[i].from])] \in Seq(OpsOver(M))
  BY <1>5, <1>9, SeqDef
<1> QED BY <1>4, <1>10 DEF moves

(* A write appends operations over the alphabet of the clients' contents   *)
(* and of the views.                                                       *)
LEMMA WritesTyped ==
  ASSUME NEW M, Contents \subseteq M, \A d \in Commits : ResolveView(d) \in [Paths -> Seq(M)],
         NEW c \in Commits, CommitNext(c)
  PROVE  \/ \E ops \in Seq(OpsOver(M)) : AppendOps(c, ops)
         \/ \E empty \in BOOLEAN : FinishCommit(c, empty)
<1>1. \A o \in OpsOver(M) : <<o>> \in Seq(OpsOver(M))
  OBVIOUS
<1>2. \A x \in Contents : <<x>> \in Seq(M)
  OBVIOUS
<1>3. <<>> \in Seq(M)
  OBVIOUS
<1>4. ASSUME NEW p \in Paths, NEW x \in Contents, PutFile(c, p, x) \/ OverwriteFile(c, p, x)
      PROVE  \E ops \in Seq(OpsOver(M)) : AppendOps(c, ops)
  <2>1. Op("append", p, <<x>>) \in OpsOver(M) /\ Op("overwrite", p, <<x>>) \in OpsOver(M)
    BY <1>2 DEF Op, OpsOver
  <2> QED BY <1>1, <1>4, <2>1 DEF PutFile, OverwriteFile
<1>5. ASSUME NEW p \in Paths, DeleteFile(c, p)
      PROVE  \E ops \in Seq(OpsOver(M)) : AppendOps(c, ops)
  <2>1. Op("delete", p, <<>>) \in OpsOver(M)
    BY <1>3 DEF Op, OpsOver
  <2> QED BY <1>1, <1>5, <2>1 DEF DeleteFile
<1>6. ASSUME NEW dst \in Paths, NEW src \in Paths, NEW from \in Commits,
             NEW ow \in BOOLEAN, CopyFile(c, dst, from, src, ow)
      PROVE  \E ops \in Seq(OpsOver(M)) : AppendOps(c, ops)
  <2>1. PICK view \in [Paths -> Seq(M)] : view = ResolveView(from)
    OBVIOUS
  <2>2. PICK kind \in {"append", "overwrite"} : kind = IF ow THEN "overwrite" ELSE "append"
    OBVIOUS
  <2>3. PICK copy : copy = SetToSeq(Moves(view, src, dst))
    OBVIOUS
  <2>4. \A m \in Moves(view, src, dst) : m.to \in Paths
    BY <1>6, <2>1 DEF CopyFile
  <2>5. AppendOps(c, [i \in DOMAIN copy |-> Op(kind, copy[i].to, view[copy[i].from])])
    BY <1>6, <2>1, <2>2, <2>3 DEF CopyFile
  <2>6. [i \in DOMAIN copy |-> Op(kind, copy[i].to, view[copy[i].from])] \in Seq(OpsOver(M))
    BY <2>3, <2>4, CopiesTyped
  <2> QED BY <2>5, <2>6
<1> QED BY <1>4, <1>5, <1>6 DEF CommitNext

LEMMA MarkerOpsTyped ==
  ASSUME NEW M, NEW c \in M
  PROVE  MarkerOps(c) \in Seq(OpsOver(M))
<1>1. <<c>> \in Seq(M)
  OBVIOUS
<1>2. CASE MarkerOps(c) = <<Op("overwrite", Marker, <<c>>)>> /\ Marker \in Paths
  <2>1. Op("overwrite", Marker, <<c>>) \in OpsOver(M)
    BY <1>1, <1>2 DEF Op, OpsOver
  <2> QED BY <1>2, <2>1
<1>3. CASE MarkerOps(c) = <<>>
  BY <1>3
<1> QED BY <1>2, <1>3 DEF MarkerOps

LEMMA AllOps == Ops = OpsOver(Contents \cup Commits)
BY DEF Ops, OpsOver

LEMMA InitTInv ==
  ASSUME Init
  PROVE  TInv
<1>1. RInv /\ \A d \in Commits : rec[d] = NoRecord
  BY InitRInv DEF Init, Empty
<1>2. \A d \in Commits : rec[d].ops = <<>> /\ rec[d].parent = NoCommit
  BY <1>1 DEF NoRecord
<1>3. <<>> \in Seq(Ops)
  OBVIOUS
<1> QED BY <1>1, <1>2, <1>3 DEF TInv

(* What a step does to the operations of a commit, as long as no commit    *)
(* outside the alphabet is finished.                                       *)
OpsStep(d, M) ==
  \/ rec'[d].ops \in {rec[d].ops, <<>>}
  \/ \E ops \in Seq(OpsOver(M)) : rec'[d].ops = rec[d].ops \o ops

LEMMA StepOps ==
  ASSUME Shape, [Next]_vars, NEW d \in Commits,
         NEW M, Contents \subseteq M, \A c \in Commits : ResolveView(c) \in [Paths -> Seq(M)],
         \A c \in Commits : c \in M \/ rec'[c].status # "finished"
  PROVE  OpsStep(d, M)
<1>0. rec = [c \in Commits |-> rec[c]]
  BY DEF Shape
<1>1. CASE \E r \in Repos : RepoNext(r)
  <2> PICK r \in Repos : RepoNext(r)
    BY <1>1
  <2>1. CASE UNCHANGED rec
    BY <2>1 DEF OpsStep
  <2>2. CASE DeleteRepo(r)
    BY <2>2 DEF DeleteRepo, OpsStep, NoRecord
  <2>3. ASSUME NEW b \in Branches, NEW c \in Commits, StartCommit(r, b, c)
        PROVE  OpsStep(d, M)
    <3>1. rec' = [rec EXCEPT ![c] = [status |-> "open", repo |-> r, branch |-> b,
                                     parent |-> heads[r][b], empty |-> FALSE, ops |-> <<>>]]
      BY <2>3 DEF StartCommit
    <3> QED BY <1>0, <3>1 DEF OpsStep
  <2> QED BY <2>1, <2>2, <2>3 DEF RepoNext, CreateRepo, DeleteBranch, createBranch
<1>2. ASSUME NEW c \in Commits, NEW ops \in Seq(OpsOver(M)), AppendOps(c, ops)
      PROVE  OpsStep(d, M)
  <2>1. rec' = [rec EXCEPT ![c].ops = @ \o ops]
    BY <1>2 DEF AppendOps
  <2>2. rec'[d].ops = IF d = c THEN rec[d].ops \o ops ELSE rec[d].ops
    BY <1>0, <2>1
  <2> QED BY <2>2 DEF OpsStep
<1>3. ASSUME NEW c \in Commits, NEW empty \in BOOLEAN, FinishCommit(c, empty)
      PROVE  OpsStep(d, M)
  <2>1. rec' = [rec EXCEPT ![c].ops = @ \o MarkerOps(c),
                           ![c].empty = empty,
                           ![c].status = "finished"]
    BY <1>3 DEF FinishCommit
  <2>2. /\ rec'[d].ops = IF d = c THEN rec[d].ops \o MarkerOps(c) ELSE rec[d].ops
        /\ rec'[c].status = "finished"
    BY <1>0, <2>1 DEF Shape, RecordLike
  <2> QED BY <2>2, MarkerOpsTyped DEF OpsStep
<1>4. CASE MoveRef \/ UNCHANGED vars
  BY <1>4 DEF MoveRef, vars, OpsStep
<1> QED BY <1>1, <1>2, <1>3, <1>4, WritesTyped DEF Next

LEMMA StepTInv ==
  ASSUME TInv, [Next]_vars
  PROVE  TInv'
<1>1. RInv' /\ Effects
  BY StepRInv DEF TInv
<1>2. \A d \in Commits : rec'[d].ops \in Seq(Ops)
  <2> SUFFICES ASSUME NEW d \in Commits PROVE rec'[d].ops \in Seq(Ops)
    OBVIOUS
  <2>1. OpsStep(d, Contents \cup Commits) /\ rec[d].ops \in Seq(Ops)
    <3>1. \A c \in Commits : ResolveView(c) \in [Paths -> Seq(Contents \cup Commits)]
      BY ViewsAre DEF Views
    <3> QED BY <3>1, StepOps DEF TInv, RInv
  <2>2. \A ops \in Seq(Ops) : rec[d].ops \o ops \in Seq(Ops)
    BY <2>1, ConcatProperties
  <2>3. <<>> \in Seq(Ops)
    OBVIOUS
  <2> QED BY <2>1, <2>2, <2>3, AllOps DEF OpsStep
<1>3. ASSUME NEW d \in Commits, ~Present(d)'
      PROVE  rec'[d].parent = NoCommit /\ rec'[d].ops = <<>>
  <2>1. RecordStep(d) /\ (~Present(d) => rec[d].parent = NoCommit /\ rec[d].ops = <<>>)
    BY <1>1 DEF Effects, TInv
  <2> QED BY <1>3, <2>1 DEF RecordStep, Vanishes, Starts, Edited, Present, NoRecord
<1> QED BY <1>1, <1>2, <1>3 DEF TInv

(* The ViewsCompose property: a commit's view is its parent's with its own *)
(* operations applied, an empty commit being a barrier, and each path of   *)
(* it holds exactly the appends since its last overwrite or delete         *)
(* (store.go ResolveView, fileOp).                                         *)
THEOREM ViewsAlwaysCompose == Spec => []ViewsCompose
<1>1. Init => TInv
  BY InitTInv
<1>2. TInv /\ [Next]_vars => TInv'
  BY StepTInv
<1> QED BY <1>1, <1>2, ViewsComposeHere, PTL DEF Spec

----------------------------------------------------------------------------
(* Finishing.                                                              *)

(* What a commit that is finished shows, told from its record.             *)
ViewFacts ==
  \A c \in Commits :
    /\ ResolveView(c) \in Views
    /\ rec[c].empty \/ ~Present(c) => ResolveView(c) = NoFiles
    /\ ~rec[c].empty /\ rec[c].parent = NoCommit => ResolveView(c) = Replay(NoFiles, rec[c].ops)
    /\ \A p \in Commits : ~rec[c].empty /\ rec[c].parent = p =>
         ResolveView(c) = Replay(ResolveView(p), rec[c].ops)

LEMMA ViewFactsHold == TInv => ViewFacts
<1> SUFFICES ASSUME TInv PROVE ViewFacts
  OBVIOUS
<1>1. ASSUME NEW c \in Commits, ~Present(c)
      PROVE  ResolveView(c) = NoFiles
  <2>1. rec[c].parent = NoCommit /\ rec[c].ops = <<>>
    BY <1>1 DEF TInv
  <2>2. <<>> \in Seq(Ops) /\ NoFiles \in Views
    BY ViewIsExpected
  <2>3. Replay(NoFiles, <<>>) = NoFiles
    BY <2>2, ReplaySteps DEF Replaying
  <2>4. ResolveView(c) = IF rec[c].empty THEN NoFiles ELSE Replay(NoFiles, rec[c].ops)
    BY <2>1, ViewsAre
  <2> QED BY <2>1, <2>3, <2>4
<1> QED BY <1>1, ViewsAre, StoreAssumption DEF ViewFacts

(* An open commit is not yet empty, only FinishCommit makes it so.         *)
OpenNotEmpty == \A c \in Commits : Open(c) => ~rec[c].empty

LEMMA StepOpenNotEmpty ==
  ASSUME Shape, OpenNotEmpty, [Next]_vars
  PROVE  OpenNotEmpty'
<1>0. rec = [c \in Commits |-> rec[c]]
  BY DEF Shape
<1>1. CASE UNCHANGED rec
  BY <1>1 DEF OpenNotEmpty, Open
<1>2. ASSUME NEW r \in Repos, DeleteRepo(r)
      PROVE  OpenNotEmpty'
  BY <1>2 DEF DeleteRepo, OpenNotEmpty, Open, NoRecord
<1>3. ASSUME NEW r \in Repos, NEW b \in Branches, NEW c \in Commits, StartCommit(r, b, c)
      PROVE  OpenNotEmpty'
  <2>1. rec' = [rec EXCEPT ![c] = [status |-> "open", repo |-> r, branch |-> b,
                                   parent |-> heads[r][b], empty |-> FALSE, ops |-> <<>>]]
    BY <1>3 DEF StartCommit
  <2>2. \A d \in Commits : rec'[d].status = "open" =>
          ~rec'[d].empty \/ (rec[d].status = "open" /\ rec'[d] = rec[d])
    BY <1>0, <2>1
  <2> QED BY <2>2 DEF OpenNotEmpty, Open
<1>4. ASSUME NEW c \in Commits, Writes(c)
      PROVE  OpenNotEmpty'
  <2>1. PICK ops : rec' = [rec EXCEPT ![c].ops = @ \o ops]
    BY <1>4 DEF Writes, AppendOps
  <2>2. \A d \in Commits : rec'[d].status = rec[d].status /\ rec'[d].empty = rec[d].empty
    BY <1>0, <2>1 DEF Shape, RecordLike
  <2> QED BY <2>2 DEF OpenNotEmpty, Open
<1>5. ASSUME NEW c \in Commits, NEW empty \in BOOLEAN, FinishCommit(c, empty)
      PROVE  OpenNotEmpty'
  <2>1. rec' = [rec EXCEPT ![c].ops = @ \o MarkerOps(c),
                           ![c].empty = empty,
                           ![c].status = "finished"]
    BY <1>5 DEF FinishCommit
  <2>2. rec'[c].status = "finished" /\ \A d \in Commits \ {c} : rec'[d] = rec[d]
    BY <1>0, <2>1 DEF Shape, RecordLike
  <2> QED BY <2>2 DEF OpenNotEmpty, Open
<1> QED BY <1>1, <1>2, <1>3, <1>4, <1>5, NextCases
    DEF CreateRepo, DeleteBranch, createBranch, MoveRef, vars

(* A commit becomes finished in one way.                                   *)
Finishes(c, empty) ==
  /\ Open(c) /\ ~pathConflict(ResolveView(c))
  /\ rec'[c].status = "finished" /\ rec'[c].empty = empty
  /\ rec'[c].parent = rec[c].parent
  /\ rec'[c].ops = rec[c].ops \o MarkerOps(c)
  /\ \A d \in Commits \ {c} : rec'[d] = rec[d]

LEMMA FinishIsFinishes ==
  ASSUME Shape, NEW c \in Commits, NEW empty \in BOOLEAN, FinishCommit(c, empty)
  PROVE  Finishes(c, empty)
<1>1. rec' = [rec EXCEPT ![c].ops = @ \o MarkerOps(c),
                         ![c].empty = empty,
                         ![c].status = "finished"]
  BY DEF FinishCommit
<1>2. rec = [d \in Commits |-> rec[d]] /\ RecordLike(rec[c])
  BY DEF Shape
<1>3. \A d \in Commits \ {c} : rec'[d] = rec[d]
  BY <1>1, <1>2
<1>4. /\ rec'[c].status = "finished" /\ rec'[c].empty = empty
      /\ rec'[c].parent = rec[c].parent
      /\ rec'[c].ops = rec[c].ops \o MarkerOps(c)
  BY <1>1, <1>2 DEF RecordLike
<1> QED BY <1>3, <1>4 DEF Finishes, FinishCommit

LEMMA FinishedHow ==
  ASSUME Shape, [Next]_vars, NEW c \in Commits, ~Finished(c), rec'[c].status = "finished"
  PROVE  \E empty \in BOOLEAN : Finishes(c, empty)
<1>0. rec = [d \in Commits |-> rec[d]] /\ rec[c].status # "finished"
  BY DEF Shape, Finished
<1>1. CASE UNCHANGED rec
  BY <1>0, <1>1
<1>2. ASSUME NEW r \in Repos, DeleteRepo(r)
      PROVE  FALSE
  BY <1>0, <1>2 DEF DeleteRepo, NoRecord
<1>3. ASSUME NEW r \in Repos, NEW b \in Branches, NEW d \in Commits, StartCommit(r, b, d)
      PROVE  FALSE
  <2>1. rec' = [rec EXCEPT ![d] = [status |-> "open", repo |-> r, branch |-> b,
                                   parent |-> heads[r][b], empty |-> FALSE, ops |-> <<>>]]
    BY <1>3 DEF StartCommit
  <2> QED BY <1>0, <2>1
<1>4. ASSUME NEW d \in Commits, Writes(d)
      PROVE  FALSE
  <2>1. PICK ops : rec' = [rec EXCEPT ![d].ops = @ \o ops]
    BY <1>4 DEF Writes, AppendOps
  <2>2. rec'[c].status = rec[c].status
    BY <1>0, <2>1 DEF Shape, RecordLike
  <2> QED BY <1>0, <2>2
<1>5. ASSUME NEW d \in Commits, NEW empty \in BOOLEAN, FinishCommit(d, empty)
      PROVE  Finishes(c, empty)
  <2>1. Finishes(d, empty)
    BY <1>5, FinishIsFinishes
  <2>2. d = c
    BY <1>0, <2>1 DEF Finishes
  <2> QED BY <2>1, <2>2
<1> QED BY <1>1, <1>2, <1>3, <1>4, <1>5, NextCases
    DEF CreateRepo, DeleteBranch, createBranch, MoveRef, vars

(* The view of a commit that finishes is the one it had, with the marker   *)
(* operation on top; finished empty, it has no files.                      *)
LEMMA FinishedView ==
  ASSUME SInv, TInv, OpenNotEmpty, ViewFacts, ViewFacts', SInv', Effects,
         NEW c \in Commits, NEW empty \in BOOLEAN, Finishes(c, empty)
  PROVE  ResolveView(c)' = IF empty THEN NoFiles ELSE Replay(ResolveView(c), MarkerOps(c))
<1>1. /\ Open(c) /\ rec'[c].empty = empty /\ rec'[c].parent = rec[c].parent
      /\ rec'[c].ops = rec[c].ops \o MarkerOps(c)
      /\ \A d \in Commits \ {c} : rec'[d] = rec[d]
  BY DEF Finishes
<1>2. /\ empty => ResolveView(c)' = NoFiles
      /\ ~empty /\ rec[c].parent = NoCommit =>
           ResolveView(c)' = Replay(NoFiles, rec[c].ops \o MarkerOps(c))
      /\ \A p \in Commits : ~empty /\ rec[c].parent = p =>
           ResolveView(c)' = Replay(ResolveView(p)', rec[c].ops \o MarkerOps(c))
  BY <1>1 DEF ViewFacts
<1>3. ASSUME NEW p \in Commits, p = rec[c].parent
      PROVE  ResolveView(p)' = ResolveView(p)
  <2>1. rec[p].status = "gone" \/ Finished(p)
    BY <1>3, StoreAssumption DEF SInv, Settled
  <2>2. p # c /\ rec'[p] = rec[p]
    BY <1>1, <2>1 DEF Open, Finished
  <2>3. CASE Finished(p)
    BY <2>2, <2>3, FinishedLineageKept DEF Finished
  <2>4. CASE rec[p].status = "gone"
    <3>1. ~Present(p) /\ ~Present(p)'
      BY <2>2, <2>4 DEF Present
    <3> QED BY <3>1 DEF ViewFacts
  <2> QED BY <2>1, <2>3, <2>4
<1>4. rec[c].parent \in Commits \cup {NoCommit} /\ rec[c].ops \in Seq(Ops)
  BY DEF TInv, RInv, Shape, RecordLike
<1>5. CASE rec[c].parent = NoCommit
  <2>1. ResolveView(c) = Replay(NoFiles, rec[c].ops)
    BY <1>1, <1>5 DEF OpenNotEmpty, ViewFacts
  <2>2. Replay(NoFiles, rec[c].ops \o MarkerOps(c)) = Replay(ResolveView(c), MarkerOps(c))
    <3>1. NoFiles \in Views /\ MarkerOps(c) \in Seq(Ops)
      BY ViewIsExpected, MarkerOpsTyped, AllOps
    <3> QED BY <1>4, <2>1, <3>1, ReplayConcat
  <2> QED BY <1>2, <1>5, <2>2
<1>6. ASSUME NEW p \in Commits, p = rec[c].parent
      PROVE  ~empty => ResolveView(c)' = Replay(ResolveView(c), MarkerOps(c))
  <2>1. ResolveView(c) = Replay(ResolveView(p), rec[c].ops) /\ ResolveView(p) \in Views
    BY <1>1, <1>6 DEF OpenNotEmpty, ViewFacts
  <2>2. Replay(ResolveView(p), rec[c].ops \o MarkerOps(c)) = Replay(ResolveView(c), MarkerOps(c))
    <3>1. MarkerOps(c) \in Seq(Ops)
      BY MarkerOpsTyped, AllOps
    <3> QED BY <1>4, <2>1, <3>1, ReplayConcat
  <2>3. ResolveView(p)' = ResolveView(p)
    BY <1>3, <1>6
  <2> QED BY <1>2, <1>6, <2>2, <2>3
<1> QED BY <1>2, <1>4, <1>5, <1>6

----------------------------------------------------------------------------
(* Files and directories.                                                  *)

(* Nothing that is shown sorts between a path and what is below it, unless *)
(* it is below it too, so that the two are a conflict the check can see.   *)
Plain(shown) ==
  \A i, j \in DOMAIN PathOrder :
    {PathOrder[i], PathOrder[j]} \subseteq shown /\ IsStrictPrefix(PathOrder[i], PathOrder[j]) =>
      \E k \in i + 1 .. j - 1 : PathOrder[k] \in shown /\ ~IsStrictPrefix(PathOrder[i], PathOrder[k])

(* Two members that follow each other.                                     *)
Neighbours(f, a, b) == \E m \in 2 .. Len(f) : f[m - 1] = a /\ f[m] = b

LEMMA NeighboursAppend ==
  ASSUME NEW A, NEW f \in Seq(A), NEW b \in A
  PROVE  /\ \A a \in A : Neighbours(Append(Append(f, a), b), a, b)
         /\ \A a, c : Neighbours(f, a, c) => Neighbours(Append(f, b), a, c)
<1>1. PICK n \in Nat : n = Len(f)
  OBVIOUS
<1>2. ASSUME NEW a \in A PROVE Neighbours(Append(Append(f, a), b), a, b)
  <2>1. PICK g \in Seq(A) : g = Append(f, a) /\ Len(g) = n + 1 /\ g[n + 1] = a
    <3>1. /\ Append(f, a) \in Seq(A) /\ Len(Append(f, a)) = n + 1
          /\ Append(f, a)[n + 1] = a
      BY <1>1
    <3> QED BY <3>1
  <2>2. Len(Append(g, b)) = n + 2 /\ Append(g, b)[n + 1] = a /\ Append(g, b)[n + 2] = b
    BY <2>1
  <2>3. n + 2 \in 2 .. Len(Append(g, b)) /\ n + 2 - 1 = n + 1
    BY <2>2
  <2> QED BY <2>1, <2>2, <2>3 DEF Neighbours
<1>3. ASSUME NEW a, NEW c, Neighbours(f, a, c) PROVE Neighbours(Append(f, b), a, c)
  <2>1. PICK m \in 2 .. n : f[m - 1] = a /\ f[m] = c
    BY <1>1, <1>3 DEF Neighbours
  <2>2. m \in 1 .. n /\ m - 1 \in 1 .. n
    OBVIOUS
  <2>3. Len(Append(f, b)) = n + 1 /\ \A j \in 1 .. n : Append(f, b)[j] = f[j]
    BY <1>1
  <2>4. m \in 2 .. Len(Append(f, b)) /\ Append(f, b)[m - 1] = a /\ Append(f, b)[m] = c
    BY <2>1, <2>2, <2>3
  <2> QED BY <2>4 DEF Neighbours
<1> QED BY <1>2, <1>3

(* The members selected from two places with none between are neighbours.  *)
LEMMA SelectedNeighbours ==
  ASSUME NEW A, NEW P, NEW s \in Seq(A), NEW i \in 1 .. Len(s), NEW k \in 1 .. Len(s),
         i < k, s[i] \in P, s[k] \in P, \A j \in i + 1 .. k - 1 : s[j] \notin P
  PROVE  Neighbours(Selected(s, P), s[i], s[k])
<1>n. PICK n \in Nat : n = Len(s)
  OBVIOUS
<1>0. i \in 1 .. n /\ k \in 1 .. n
  BY <1>n
<1>1. PICK v \in [0 .. n -> Seq(A)] : Selecting(v, s, P)
  BY <1>n, SelectedSteps
<1>2. /\ Selected(s, P) = v[n]
      /\ \A j \in 1 .. n : v[j] = IF s[j] \in P THEN Append(v[j - 1], s[j]) ELSE v[j - 1]
  BY <1>n, <1>1 DEF Selecting
<1>3. \A j \in 1 .. n : s[j] \in A
  BY <1>n
<1>4. PICK a \in A, b \in A : a = s[i] /\ b = s[k]
  BY <1>0, <1>3
<1>5. \A j \in 0 .. n : i <= j /\ j < k => v[j] = v[i]
  <2> DEFINE T == {j \in 0 .. n : i <= j /\ j < k => v[j] = v[i]}
  <2>1. 0 \in T
    BY <1>0
  <2>2. ASSUME NEW j \in 1 .. n, j - 1 \in T PROVE j \in T
    <3>1. CASE j <= i \/ k <= j
      BY <1>0, <3>1
    <3>2. CASE i < j /\ j < k
      <4>1. j \in i + 1 .. k - 1
        BY <1>0, <3>2
      <4>2. v[j] = v[j - 1]
        BY <1>2, <4>1
      <4>3. i <= j - 1 /\ j - 1 < k
        BY <1>0, <3>2
      <4>4. v[j - 1] = v[i]
        BY <2>2, <4>3
      <4> QED BY <4>2, <4>4
    <3> QED BY <1>0, <3>1, <3>2
  <2> HIDE DEF T
  <2>3. 0 .. n \subseteq T
    BY <2>1, <2>2, UpTo
  <2> QED BY <2>3 DEF T
<1>6. PICK before \in Seq(A) : v[i] = Append(before, a)
  <2>1. v[i] = Append(v[i - 1], a)
    BY <1>0, <1>2, <1>4
  <2>2. i - 1 \in 0 .. n
    BY <1>0
  <2>3. v[i - 1] \in Seq(A)
    BY <1>1, <2>2
  <2> QED BY <2>1, <2>3
<1>7. v[k] = Append(v[i], b)
  <2>1. v[k] = Append(v[k - 1], b)
    BY <1>0, <1>2, <1>4
  <2>2. k - 1 \in 0 .. n /\ i <= k - 1 /\ k - 1 < k
    BY <1>0
  <2>3. v[k - 1] = v[i]
    BY <1>5, <2>2
  <2> QED BY <2>1, <2>3
<1>8. Neighbours(v[k], a, b)
  BY <1>6, <1>7, NeighboursAppend
<1>9. \A j \in 0 .. n : k <= j => Neighbours(v[j], a, b)
  <2> DEFINE T == {j \in 0 .. n : k <= j => Neighbours(v[j], a, b)}
  <2>1. 0 \in T
    BY <1>0
  <2>2. ASSUME NEW j \in 1 .. n, j - 1 \in T PROVE j \in T
    <3>1. CASE j <= k
      BY <1>0, <1>8, <3>1
    <3>2. CASE k < j
      <4>1. j - 1 \in 0 .. n /\ k <= j - 1
        BY <1>0, <3>2
      <4>2. v[j - 1] \in Seq(A) /\ Neighbours(v[j - 1], a, b)
        BY <1>1, <2>2, <4>1
      <4>3. Neighbours(Append(v[j - 1], s[j]), a, b)
        BY <1>3, <4>2, NeighboursAppend
      <4>4. Neighbours(v[j], a, b)
        BY <1>2, <4>2, <4>3
      <4> QED BY <4>4
    <3> QED BY <1>0, <3>1, <3>2
  <2> HIDE DEF T
  <2>3. 0 .. n \subseteq T
    BY <2>1, <2>2, UpTo
  <2> QED BY <2>3 DEF T
<1> QED BY <1>0, <1>2, <1>4, <1>9

(* pathConflict sees every conflict that Plain rules out.                  *)
LEMMA ConflictSeen ==
  ASSUME NEW view, ~pathConflict(view)
  PROVE  Plain(Files(view))
<1>n. PICK n \in Nat : n = Len(PathOrder) /\ DOMAIN PathOrder = 1 .. n
  BY StoreAssumption
<1> SUFFICES ASSUME NEW i \in 1 .. n, NEW j \in 1 .. n,
                    PathOrder[i] \in Files(view), PathOrder[j] \in Files(view),
                    IsStrictPrefix(PathOrder[i], PathOrder[j]),
                    \A k \in i + 1 .. j - 1 :
                      PathOrder[k] \in Files(view) => IsStrictPrefix(PathOrder[i], PathOrder[k])
             PROVE  FALSE
  BY <1>n DEF Plain
<1> DEFINE p == PathOrder[i]
<1>2. i < j
  BY <1>n, OrderAssumption
<1> DEFINE T == {k \in i + 1 .. j : PathOrder[k] \in Files(view)}
<1>3. T \in SUBSET Nat /\ j \in T
  BY <1>2
<1>4. PICK k \in T : \A m \in T : k <= m
  BY <1>3, LeastNumber
<1>5. k \in 1 .. n /\ i < k /\ PathOrder[k] \in Files(view) /\ IsStrictPrefix(p, PathOrder[k])
  <2>1. k \in i + 1 .. j - 1 \/ k = j
    BY <1>4
  <2> QED BY <1>2, <1>4, <2>1
<1>6. \A m \in i + 1 .. k - 1 : PathOrder[m] \notin Files(view)
  BY <1>4
<1>7. PathOrder \in Seq(Paths)
  BY StoreAssumption DEF Paths
<1>8. Neighbours(Selected(PathOrder, Files(view)), p, PathOrder[k])
  <2>1. /\ i \in 1 .. Len(PathOrder) /\ k \in 1 .. Len(PathOrder) /\ i < k
        /\ PathOrder[i] \in Files(view) /\ PathOrder[k] \in Files(view)
    BY <1>n, <1>5
  <2> HIDE DEF T
  <2> QED BY <1>6, <1>7, <2>1, SelectedNeighbours
<1> QED BY <1>5, <1>8 DEF pathConflict, Neighbours

(* The same files are there after the marker operation.                    *)
LEMMA MarkerKeepsFiles ==
  ASSUME ViewFacts, NEW c \in Commits
  PROVE  Files(Replay(ResolveView(c), MarkerOps(c))) = Files(ResolveView(c))
<1>1. PICK view \in Views : view = ResolveView(c)
  BY DEF ViewFacts
<1>2. CASE MarkerOps(c) = <<>>
  <2>1. <<>> \in Seq(Ops)
    OBVIOUS
  <2> QED BY <1>1, <1>2, <2>1, ReplaySteps DEF Replaying
<1>3. CASE /\ MarkerOps(c) = <<Op("overwrite", Marker, <<c>>)>>
           /\ Marker \in Paths /\ view[Marker] # <<>>
  <2>1. PICK o \in Ops : o = Op("overwrite", Marker, <<c>>)
    <3>1. <<c>> \in Seq(Contents \cup Commits)
      OBVIOUS
    <3>2. Op("overwrite", Marker, <<c>>) \in Ops
      BY <1>3, <3>1 DEF Op, Ops
    <3> QED BY <3>2
  <2>2. PICK none \in Seq(Ops) : none = <<>> /\ Append(none, o) = <<o>>
    <3>1. <<>> \in Seq(Ops) /\ Append(<<>>, o) = <<o>>
      OBVIOUS
    <3> QED BY <3>1
  <2>3. Replay(view, MarkerOps(c)) = ApplyOp(view, o)
    <3>1. Replay(view, <<>>) = view /\ Replay(view, Append(none, o)) = ApplyOp(Replay(view, none), o)
      BY ReplayAppend
    <3> QED BY <1>3, <2>1, <2>2, <3>1
  <2>4. \A p \in Paths : p # Marker => ApplyOp(view, o)[p] = view[p]
    BY <2>1, ApplyOpType DEF Op
  <2>5. ApplyOp(view, o)[Marker] = <<c>> /\ <<c>> # <<>>
    <3>1. o.kind = "overwrite" /\ o.path = Marker /\ o.content = <<c>>
      BY <2>1 DEF Op
    <3>2. view \in [Paths -> Seq(Contents \cup Commits)]
      BY DEF Views
    <3> QED BY <1>3, <3>1, <3>2 DEF ApplyOp
  <2> QED BY <1>1, <1>3, <2>3, <2>4, <2>5 DEF Files
<1> QED BY <1>1, <1>2, <1>3 DEF MarkerOps

LEMMA StepNoTypeConflict ==
  ASSUME ~RetargetOpen, SInv, TInv, OpenNotEmpty, ViewFacts, ViewFacts',
         NoTypeConflict, [Next]_vars
  PROVE  NoTypeConflict'
<1>1. SInv' /\ Effects /\ Shape
  BY StepSInv DEF SInv, RInv
<1> SUFFICES ASSUME NEW c \in Commits, rec'[c].status = "finished"
             PROVE  Plain(Files(ResolveView(c)'))
  BY DEF NoTypeConflict, Finished, Plain, Files
<1>2. CASE Finished(c)
  <2>1. ResolveView(c)' = ResolveView(c)
    BY <1>1, <1>2, FinishedLineageKept DEF Finished
  <2> QED BY <1>2, <2>1 DEF NoTypeConflict, Plain
<1>3. CASE ~Finished(c)
  <2>1. PICK empty \in BOOLEAN : Finishes(c, empty)
    BY <1>1, <1>3, FinishedHow
  <2>2. ResolveView(c)' = IF empty THEN NoFiles ELSE Replay(ResolveView(c), MarkerOps(c))
    BY <1>1, <2>1, FinishedView
  <2>3. Plain(Files(ResolveView(c)))
    BY <2>1, ConflictSeen DEF Finishes
  <2>4. Plain(Files(NoFiles))
    <3>1. Files(NoFiles) = {}
      BY DEF Files, NoFiles
    <3> QED BY <3>1 DEF Plain
  <2>5. Files(Replay(ResolveView(c), MarkerOps(c))) = Files(ResolveView(c))
    BY MarkerKeepsFiles
  <2> QED BY <2>2, <2>3, <2>4, <2>5
<1> QED BY <1>2, <1>3

(* What the properties of finished commits rest on.                        *)
LEMMA InitFinishing ==
  ASSUME Init
  PROVE  SInv /\ TInv /\ OpenNotEmpty /\ NoTypeConflict
<1>1. SInv /\ TInv
  BY InitRInv, InitTInv DEF SInv, Settled, Init, Empty, NoRecord
<1>2. \A c \in Commits : rec[c].status = "none"
  BY DEF Init, Empty, NoRecord
<1> QED BY <1>1, <1>2 DEF OpenNotEmpty, NoTypeConflict, Open, Finished

(* The NoTypeConflict property: where branches are pointed at finished     *)
(* commits only, a finished commit shows a path and another one below it   *)
(* only together with a path that sorts between the two (store.go          *)
(* FinishCommit: each path is compared with the next only).                *)
THEOREM ConflictsAreApart ==
  ASSUME ~RetargetOpen
  PROVE  Spec => []NoTypeConflict
<1>1. Init => SInv /\ TInv /\ OpenNotEmpty /\ NoTypeConflict
  BY InitFinishing
<1>2. SInv /\ TInv /\ OpenNotEmpty /\ [Next]_vars => SInv' /\ TInv' /\ OpenNotEmpty'
  BY StepSInv, StepTInv, StepOpenNotEmpty DEF TInv, RInv
<1>3. SInv /\ TInv /\ OpenNotEmpty /\ ViewFacts /\ ViewFacts' /\ NoTypeConflict /\ [Next]_vars
        => NoTypeConflict'
  BY StepNoTypeConflict
<1>4. TInv => ViewFacts
  BY ViewFactsHold
<1> QED BY <1>1, <1>2, <1>3, <1>4, PTL DEF Spec

----------------------------------------------------------------------------
(* Markers.                                                                *)

(* Content without a commit's id.                                          *)
Without(e) == (Contents \cup Commits) \ {e}
Clean(e) == [Paths -> Seq(Without(e))]

(* A commit that is not finished yet is named by nothing recorded.         *)
Unnamed ==
  \A e \in Commits : rec[e].status \in {"none", "open"} =>
    \A d \in Commits : rec[d].ops \in Seq(OpsOver(Without(e)))

LEMMA WithoutIsContent ==
  ASSUME NEW e
  PROVE  /\ Seq(Without(e)) \subseteq Seq(Contents \cup Commits)
         /\ Seq(OpsOver(Without(e))) \subseteq Seq(Ops)
<1>1. Seq(Without(e)) \subseteq Seq(Contents \cup Commits)
  BY SeqDef DEF Without
<1>2. OpsOver(Without(e)) \subseteq Ops
  BY <1>1 DEF OpsOver, Ops
<1>3. \A A, B : A \subseteq B => Seq(A) \subseteq Seq(B)
  BY SeqDef
<1> QED BY <1>1, <1>2, <1>3

(* Replaying operations without the id on a view without it.               *)
LEMMA CleanReplay ==
  ASSUME NEW e, NEW base \in Clean(e), NEW ops \in Seq(OpsOver(Without(e)))
  PROVE  Replay(base, ops) \in Clean(e)
<1> DEFINE T == {u \in Seq(OpsOver(Without(e))) : Replay(base, u) \in Clean(e)}
<1>1. base \in Views /\ Seq(OpsOver(Without(e))) \subseteq Seq(Ops)
  BY WithoutIsContent DEF Clean, Views
<1>2. <<>> \in T
  <2>1. <<>> \in Seq(Ops) /\ <<>> \in Seq(OpsOver(Without(e)))
    OBVIOUS
  <2>2. Replay(base, <<>>) = base
    BY <1>1, <2>1, ReplaySteps DEF Replaying
  <2> QED BY <2>1, <2>2
<1>3. ASSUME NEW u \in Seq(OpsOver(Without(e))), NEW o \in OpsOver(Without(e)), u \in T
      PROVE  Append(u, o) \in T
  <2>1. PICK view \in Clean(e) : view = Replay(base, u)
    BY <1>3
  <2>2. u \in Seq(Ops) /\ view \in Views
    BY <1>1, <2>1, WithoutIsContent DEF Clean, Views
  <2>3. o \in Ops
    BY WithoutIsContent DEF OpsOver, Ops
  <2>4. Replay(base, Append(u, o)) = ApplyOp(view, o)
    BY <1>1, <2>1, <2>2, <2>3, ReplayAppend
  <2>5. ApplyOp(view, o) \in Clean(e)
    <3>1. ApplyOp(view, o) \in [Paths -> Seq(Contents \cup Commits)]
      BY <2>2, <2>3, ApplyOpType DEF Views
    <3>2. \A p \in Paths : ApplyOp(view, o)[p] =
            IF p # o.path THEN view[p]
            ELSE IF o.kind = "delete" THEN <<>>
            ELSE IF o.kind = "overwrite" THEN o.content ELSE view[p] \o o.content
      BY <2>2, <2>3, ApplyOpType
    <3>3. <<>> \in Seq(Without(e)) /\ o.content \in Seq(Without(e))
      BY DEF OpsOver
    <3>4. \A p \in Paths : view[p] \in Seq(Without(e)) /\ view[p] \o o.content \in Seq(Without(e))
      BY <2>1, <3>3, ConcatProperties DEF Clean
    <3>5. \A p \in Paths : ApplyOp(view, o)[p] \in Seq(Without(e))
      BY <3>2, <3>3, <3>4
    <3> QED BY <3>1, <3>5 DEF Clean
  <2>6. Append(u, o) \in Seq(OpsOver(Without(e)))
    OBVIOUS
  <2> QED BY <2>4, <2>5, <2>6
<1>4. Seq(OpsOver(Without(e))) \subseteq T
  <2> HIDE DEF T
  <2> QED BY <1>2, <1>3, Sequences
<1> QED BY <1>4

(* No view shows an id that is not recorded: by rank.                      *)
LEMMA ViewsAreClean ==
  ASSUME TInv, NEW e, \A d \in Commits : rec[d].ops \in Seq(OpsOver(Without(e)))
  PROVE  \A c \in Commits : ResolveView(c) \in Clean(e)
<1>1. PICK rank \in [Commits -> Nat] : Falls(rank, rec)
  BY DEF TInv, RInv
<1> DEFINE Bad == {c \in Commits : ResolveView(c) \notin Clean(e)}
<1>2. SUFFICES ASSUME Bad # {} PROVE FALSE
  OBVIOUS
<1>3. PICK low \in {rank[c] : c \in Bad} : \A m \in {rank[c] : c \in Bad} : low <= m
  <2>1. {rank[c] : c \in Bad} \in SUBSET Nat /\ {rank[c] : c \in Bad} # {}
    BY <1>2
  <2> HIDE DEF Bad
  <2> QED BY <2>1, LeastNumber
<1>4. PICK c \in Bad : \A d \in Bad : rank[c] <= rank[d]
  BY <1>3
<1>5. NoFiles \in Clean(e) /\ <<>> \in Seq(Without(e))
  BY DEF NoFiles, Clean
<1>6. rec[c].parent \in Commits \cup {NoCommit} /\ rec[c].ops \in Seq(OpsOver(Without(e)))
  BY DEF TInv, RInv, Shape, RecordLike
<1>7. ASSUME NEW p \in Commits, p = rec[c].parent PROVE ResolveView(p) \in Clean(e)
  <2>1. rank[p] < rank[c] /\ rank[p] \in Nat /\ rank[c] \in Nat
    BY <1>1, <1>7, StoreAssumption DEF Falls
  <2>2. ~(rank[c] <= rank[p])
    BY <2>1
  <2> QED BY <1>4, <2>2
<1>8. ResolveView(c) = IF rec[c].empty THEN NoFiles
                       ELSE Replay(IF rec[c].parent = NoCommit THEN NoFiles
                                   ELSE ResolveView(rec[c].parent), rec[c].ops)
  BY ViewsAre
<1>9. PICK base \in Clean(e) : base = IF rec[c].parent = NoCommit THEN NoFiles
                                      ELSE ResolveView(rec[c].parent)
  BY <1>5, <1>6, <1>7
<1>10. Replay(base, rec[c].ops) \in Clean(e)
  BY <1>6, CleanReplay
<1> QED BY <1>5, <1>8, <1>9, <1>10

LEMMA StepUnnamed ==
  ASSUME Contents \cap Commits = {}, TInv, Unnamed, Effects, [Next]_vars
  PROVE  Unnamed'
<1> SUFFICES ASSUME NEW e \in Commits, rec'[e].status \in {"none", "open"}, NEW d \in Commits
             PROVE  rec'[d].ops \in Seq(OpsOver(Without(e)))
  BY DEF Unnamed
<1>1. rec[e].status \in {"none", "open"}
  BY DEF Effects, RecordStep, Vanishes, Starts, Edited, Open, NoRecord
<1>2. \A c \in Commits : rec[c].ops \in Seq(OpsOver(Without(e)))
  BY <1>1 DEF Unnamed
<1>3. \A c \in Commits : ResolveView(c) \in [Paths -> Seq(Without(e))]
  BY <1>2, ViewsAreClean DEF Clean
<1>4. /\ Contents \subseteq Without(e)
      /\ \A c \in Commits : c \in Without(e) \/ rec'[c].status # "finished"
  BY DEF Without
<1>5. OpsStep(d, Without(e))
  BY <1>3, <1>4, StepOps DEF TInv, RInv
<1>6. \A ops \in Seq(OpsOver(Without(e))) : rec[d].ops \o ops \in Seq(OpsOver(Without(e)))
  BY <1>2, ConcatProperties
<1>7. <<>> \in Seq(OpsOver(Without(e)))
  OBVIOUS
<1> QED BY <1>2, <1>5, <1>6, <1>7 DEF OpsStep

(* A commit is built on finished ones, as far as its lineage goes.         *)
AncestorsFinished ==
  \A c \in Commits : \A d \in ToSet(Lineage(c)) \ {c} : d \in Commits /\ Finished(d)

LEMMA AncestorsAreFinished == SInv => AncestorsFinished
<1> SUFFICES ASSUME SInv, NEW c \in Commits, NEW d \in ToSet(Lineage(c)), d # c
             PROVE  d \in Commits /\ Finished(d)
  BY DEF AncestorsFinished
<1>1. PICK rank \in [Commits -> Nat] : Falls(rank, rec)
  BY DEF SInv, RInv
<1> DEFINE A == {e \in Commits : Finished(e)}
<1>2. ASSUME NEW e \in Commits, GoesOn(rec, e) PROVE rec[e].parent \in A
  BY <1>2, StoreAssumption DEF GoesOn, SInv, Settled, Finished
<1>3. \A e \in A : Walk(rec)[e] \in Seq(A)
  <2>1. A \in SUBSET Commits /\ AgreeOn(A, rec, rec)
    BY <1>2 DEF AgreeOn
  <2> HIDE DEF A
  <2>2. SameWalk(A, rec, rec)
    BY <1>1, <2>1, WalksAgree
  <2> QED BY <2>2 DEF SameWalk
<1>4. Walk(rec)[c] = WalkStep(rec, Walk(rec), c)
  <2>1. Walk(rec) = [e \in Commits |-> WalkStep(rec, Walk(rec), e)]
    BY <1>1, WalkSolves
  <2> QED BY <2>1
<1>5. Lineage(c) = IF rec[c].empty THEN <<>> ELSE Walk(rec)[c]
  BY LineageIsWalk
<1>6. \A s \in Seq(A) : ToSet(s) \subseteq A /\ ToSet(Append(s, c)) \subseteq A \cup {c}
  <2> SUFFICES ASSUME NEW s \in Seq(A)
               PROVE  ToSet(s) \subseteq A /\ ToSet(Append(s, c)) \subseteq A \cup {c}
    OBVIOUS
  <2> HIDE DEF A
  <2>1. /\ DOMAIN s = 1 .. Len(s) /\ \A i \in 1 .. Len(s) : s[i] \in A
        /\ DOMAIN Append(s, c) = 1 .. Len(s) + 1 /\ Append(s, c)[Len(s) + 1] = c
        /\ \A i \in 1 .. Len(s) : Append(s, c)[i] = s[i]
    BY AppendProperties
  <2>2. \A i \in 1 .. Len(s) + 1 : i \in 1 .. Len(s) \/ i = Len(s) + 1
    OBVIOUS
  <2> QED BY <2>1, <2>2 DEF ToSet
<1>7. ToSet(<<>>) = {} /\ ToSet(<<c>>) = {c}
  BY DEF ToSet
<1>8. CASE GoesOn(rec, c)
  <2>1. PICK up \in Seq(A) : up = Walk(rec)[rec[c].parent]
    BY <1>2, <1>3, <1>8
  <2>2. Lineage(c) = <<>> \/ Lineage(c) = Append(up, c)
    BY <1>4, <1>5, <1>8, <2>1 DEF WalkStep
  <2> QED BY <1>6, <1>7, <2>2
<1>9. CASE ~GoesOn(rec, c)
  <2>1. Lineage(c) = <<>> \/ Lineage(c) = <<c>>
    BY <1>4, <1>5, <1>9 DEF WalkStep
  <2> QED BY <1>7, <2>1
<1> QED BY <1>8, <1>9

(* The marker of a commit that finishes is its own, or one it wrote.       *)
LEMMA FinishedMarker ==
  ASSUME Marker \in Paths, ViewFacts, TInv, NEW c \in Commits,
         ~WritesMarker(c)
  PROVE  Replay(ResolveView(c), MarkerOps(c))[Marker] \in {<<>>, <<c>>}
<1>1. PICK view \in Views : view = ResolveView(c)
  BY DEF ViewFacts
<1>2. CASE MarkerOps(c) = <<>> /\ view[Marker] \in {<<>>, <<c>>}
  <2>1. <<>> \in Seq(Ops)
    OBVIOUS
  <2>2. Replay(view, <<>>) = view
    BY <2>1, ReplaySteps DEF Replaying
  <2> QED BY <1>1, <1>2, <2>2
<1>3. CASE MarkerOps(c) = <<Op("overwrite", Marker, <<c>>)>>
  <2>1. PICK o \in Ops : o = Op("overwrite", Marker, <<c>>)
    <3>1. <<c>> \in Seq(Contents \cup Commits)
      OBVIOUS
    <3>2. Op("overwrite", Marker, <<c>>) \in Ops
      BY <3>1 DEF Op, Ops
    <3> QED BY <3>2
  <2>2. PICK none \in Seq(Ops) : none = <<>> /\ Append(none, o) = <<o>>
    <3>1. <<>> \in Seq(Ops) /\ Append(<<>>, o) = <<o>>
      OBVIOUS
    <3> QED BY <3>1
  <2>3. Replay(view, MarkerOps(c)) = ApplyOp(view, o)
    <3>1. Replay(view, <<>>) = view /\ Replay(view, Append(none, o)) = ApplyOp(Replay(view, none), o)
      BY ReplayAppend
    <3> QED BY <1>3, <2>1, <2>2, <3>1
  <2>4. ApplyOp(view, o)[Marker] = <<c>>
    <3>1. o.kind = "overwrite" /\ o.path = Marker /\ o.content = <<c>>
      BY <2>1 DEF Op
    <3> QED BY <3>1, ApplyOpType
  <2> QED BY <1>1, <2>3, <2>4
<1> QED BY <1>1, <1>2, <1>3 DEF MarkerOps

LEMMA StepMarkers ==
  ASSUME Marker \in Paths, ~RetargetOpen, SInv, TInv, OpenNotEmpty, Unnamed,
         ViewFacts, ViewFacts', AncestorsFinished, AncestorsFinished',
         MarkersTellApart, [Next]_vars
  PROVE  MarkersTellApart'
<1>1. SInv' /\ Effects /\ Shape
  BY StepSInv DEF SInv, RInv
<1> SUFFICES ASSUME NEW c \in Commits, rec'[c].status = "finished",
                    NEW d \in ToSet(Lineage(c)') \ {c},
                    ResolveView(c)'[Marker] # <<>>,
                    ResolveView(c)'[Marker] = ResolveView(d)'[Marker]
             PROVE  \E i \in DOMAIN rec'[c].ops :
                      rec'[c].ops[i].path = Marker /\ rec'[c].ops[i].content # <<c>>
  BY DEF MarkersTellApart, Finished
<1>2. d \in Commits /\ rec'[d].status = "finished"
  BY DEF AncestorsFinished, Finished
<1>3. ASSUME NEW e \in Commits, Finished(e), rec'[e].status = "finished"
      PROVE  /\ rec'[e] = rec[e] /\ Lineage(e)' = Lineage(e)
             /\ ResolveView(e)' = ResolveView(e)
  <2>1. ResolveView(e)' = ResolveView(e) /\ Lineage(e)' = Lineage(e)
    BY <1>1, <1>3, FinishedLineageKept DEF Finished
  <2>2. rec'[e] = rec[e]
    BY <1>1, <1>3 DEF Effects, RecordStep, Vanishes, Starts, Edited, Finished, Open, NoRecord
  <2> QED BY <2>1, <2>2
<1>4. CASE Finished(c)
  <2>1. rec'[c] = rec[c] /\ Lineage(c)' = Lineage(c) /\ ResolveView(c)' = ResolveView(c)
    BY <1>3, <1>4
  <2>2. Finished(d)
    BY <2>1 DEF AncestorsFinished
  <2>3. ResolveView(d)' = ResolveView(d)
    BY <1>2, <1>3, <2>2
  <2> QED BY <1>4, <2>1, <2>3 DEF MarkersTellApart
<1>5. CASE ~Finished(c)
  <2>1. PICK empty \in BOOLEAN : Finishes(c, empty)
    BY <1>1, <1>5, FinishedHow
  <2>2. Open(c) /\ Finished(d) /\ rec'[c].ops = rec[c].ops \o MarkerOps(c)
    BY <1>2, <2>1 DEF Finishes, Finished
  <2>3. \A e \in Commits : rec[e].ops \in Seq(OpsOver(Without(c)))
    BY <2>2 DEF Unnamed, Open
  <2>4. ResolveView(d)'[Marker] \in Seq(Without(c))
    <3>1. ResolveView(d) \in Clean(c)
      BY <1>2, <2>3, ViewsAreClean
    <3> QED BY <1>2, <1>3, <2>2, <3>1 DEF Clean
  <2>5. <<c>> \notin Seq(Without(c))
    <3> SUFFICES ASSUME <<c>> \in Seq(Without(c)) PROVE FALSE
      OBVIOUS
    <3>1. <<c>>[1] \in Without(c)
      BY ElementOfSeq
    <3> QED BY <3>1 DEF Without
  <2>6. ResolveView(c)' = IF empty THEN NoFiles ELSE Replay(ResolveView(c), MarkerOps(c))
    BY <1>1, <2>1, FinishedView
  <2>7. CASE ~WritesMarker(c)
    <3>1. Replay(ResolveView(c), MarkerOps(c))[Marker] \in {<<>>, <<c>>}
      BY <2>7, FinishedMarker
    <3>2. NoFiles[Marker] = <<>>
      BY DEF NoFiles
    <3> QED BY <2>4, <2>5, <2>6, <3>1, <3>2
  <2>8. CASE WritesMarker(c)
    <3>1. PICK i \in DOMAIN rec[c].ops : rec[c].ops[i].path = Marker
      BY <2>8 DEF WritesMarker
    <3>2. PICK ops \in Seq(OpsOver(Without(c))) : ops = rec[c].ops
      BY <2>3
    <3>3. ops[i] \in OpsOver(Without(c))
      BY <3>1, <3>2
    <3>4. ops[i].content # <<c>>
      BY <2>5, <3>3 DEF OpsOver
    <3>5. rec'[c].ops = ops
      BY <2>2, <2>8, <3>2, ConcatEmptySeq DEF MarkerOps
    <3> QED BY <3>1, <3>2, <3>4, <3>5
  <2> QED BY <2>7, <2>8
<1> QED BY <1>4, <1>5

(* The MarkersTellApart property: where branches are pointed at finished   *)
(* commits only and clients write no commit ids of their own, a commit     *)
(* never shows the delivery marker of a commit it builds on unless a       *)
(* client wrote that marker into it (store.go FinishCommit: the marker     *)
(* normalisation), whatever is copied from where and deleted.              *)
THEOREM MarkersAlwaysTellApart ==
  ASSUME Marker \in Paths, Contents \cap Commits = {}, ~RetargetOpen
  PROVE  Spec => []MarkersTellApart
<1>1. Init => SInv /\ TInv /\ OpenNotEmpty /\ Unnamed /\ MarkersTellApart
  <2> SUFFICES ASSUME Init PROVE Unnamed /\ MarkersTellApart
    BY InitFinishing
  <2>1. \A c \in Commits : rec[c].status = "none" /\ rec[c].ops = <<>>
    BY DEF Init, Empty, NoRecord
  <2>2. \A e : <<>> \in Seq(OpsOver(Without(e)))
    OBVIOUS
  <2> QED BY <2>1, <2>2 DEF Unnamed, MarkersTellApart, Finished
<1>2. SInv /\ TInv /\ OpenNotEmpty /\ Unnamed /\ [Next]_vars
        => SInv' /\ TInv' /\ OpenNotEmpty' /\ Unnamed'
  BY StepSInv, StepTInv, StepOpenNotEmpty, StepUnnamed DEF TInv, RInv
<1>3. SInv /\ TInv /\ OpenNotEmpty /\ Unnamed /\ ViewFacts /\ ViewFacts' /\ AncestorsFinished
        /\ AncestorsFinished' /\ MarkersTellApart /\ [Next]_vars => MarkersTellApart'
  BY StepMarkers
<1>4. (TInv => ViewFacts) /\ (SInv => AncestorsFinished)
  BY ViewFactsHold, AncestorsAreFinished
<1> QED BY <1>1, <1>2, <1>3, <1>4, PTL DEF Spec
=============================================================================
