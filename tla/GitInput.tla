------------------------------ MODULE GitInput ------------------------------
(***************************************************************************)
(* Git inputs (git.go): pushes and deltas of an external repository become *)
(* commits of the mapped repositories (commitRevision, jobs.go), the base  *)
(* guard of deltas, and the failure state a delivery leaves on or lifts    *)
(* from the bound pipelines (markPipelineFailed, clearPipelineFailure).    *)
(*                                                                         *)
(* Deliveries are HTTP requests and run concurrently.  A commit is made by *)
(* StartCommit, writes to that commit alone and FinishCommit, and then     *)
(* triggers; each pipeline's record has a lock of its own accesses, and    *)
(* the loops over pipelines, whose records are independent, are one step.  *)
(* Commits authored through the per-file API land on the same branch.      *)
(***************************************************************************)
EXTENDS Naturals, FiniteSets, Selection

CONSTANTS
  Deliveries, \* requests; a push or a delta has the request as its revision
  Pipelines,
  GitOf,      \* each pipeline's git input: the URL it names and its repository
  Url,        \* the URL of the events
  UrlRepo,    \* the repository name derived from that URL
  RepoOrder,  \* the mapped repositories, sorted
  Paths,
  Edits,      \* the edits of deliveries: files written and paths deleted
  None

Repos == {RepoOrder[i] : i \in DOMAIN RepoOrder}

VARIABLES
  commit,    \* the commits, in the order they were started
  head,      \* each repository's head
  pipe,      \* each pipeline: running, or failed for a clone or a delta base
  triggered, \* the commits each pipeline has been triggered for
  req,       \* each request
  abandoned  \* history: some write failed

vars == <<commit, head, pipe, triggered, req, abandoned>>

Kinds == {"push", "delta", "author"}
Steps == {"idle", "check", "clear", "start", "write", "trigger", "over"}
Revisions == Deliveries \cup (1 .. Len(commit)) \cup {None}

NoRequest == [step |-> "idle", kind |-> "push", base |-> None, files |-> {},
              deleted |-> {}, todo |-> <<>>, commit |-> 0]

TypeOK ==
  /\ \A c \in DOMAIN commit :
       commit[c] \in [repo : Repos, by : Deliveries, parent : 0 .. Len(commit),
                      finished : BOOLEAN, marker : Revisions,
                      tree : [Paths -> Deliveries \cup {None}],
                      over : 0 .. Len(commit)]
  /\ head \in [Repos -> 0 .. Len(commit)]
  /\ pipe \in [Pipelines -> {"running", "clone", "base"}]
  /\ triggered \in [Pipelines -> SUBSET DOMAIN commit]
  /\ \A d \in Deliveries :
       /\ req[d].step \in Steps /\ req[d].kind \in Kinds
       /\ req[d].base \in Revisions /\ req[d].commit \in 0 .. Len(commit)
  /\ abandoned \in BOOLEAN

Init ==
  /\ commit = <<>> /\ head = [r \in Repos |-> 0]
  /\ pipe = [p \in Pipelines |-> "running"]
  /\ triggered = [p \in Pipelines |-> {}]
  /\ req = [d \in Deliveries |-> NoRequest] /\ abandoned = FALSE

(* gitBindings: the input names the URL, or its repository is the one the  *)
(* URL names.                                                              *)
Bound == {p \in Pipelines : GitOf[p].url = Url \/ GitOf[p].repo = UrlRepo}
BoundTo(r) == {p \in Bound : GitOf[p].repo = r}
BoundRepos == Selected(RepoOrder, {r \in Repos : BoundTo(r) # {}})

markPipelineFailed(ps, reason) ==
  pipe' = [p \in Pipelines |-> IF p \in ps THEN reason ELSE pipe[p]]

clearPipelineFailure(ps, reason) ==
  pipe' = [p \in Pipelines |->
             IF p \in ps /\ pipe[p] = reason THEN "running" ELSE pipe[p]]

(* A push or delta of a repository that cannot be cloned.                  *)
DeliverPrivate(d) ==
  /\ req[d].step = "idle"
  /\ markPipelineFailed(Bound, "clone")
  /\ req' = [req EXCEPT ![d].step = "over"]
  /\ UNCHANGED <<commit, head, triggered, abandoned>>

(* headRevisionMarker: the marker in the head's tree, or the head's id.    *)
headRevisionMarker(c) == IF commit[c].marker # None THEN commit[c].marker ELSE c

(* The revisions a sender has seen.                                        *)
Seen == {headRevisionMarker(c) : c \in {k \in DOMAIN commit : commit[k].finished}}

(* A delivery that binds a pipeline lifts failures to clone.  A push goes  *)
(* straight to the commits.  A delta names a base, or none.                *)
Deliver(d) ==
  /\ req[d].step = "idle" /\ Bound # {}
  /\ \E kind \in {"push", "delta"}, edit \in Edits, base \in Seen \cup {None} :
       /\ kind = "push" => edit.deleted = {} /\ base = None
       /\ req' = [req EXCEPT ![d] =
            [step |-> IF kind = "push" THEN "start" ELSE "check", kind |-> kind,
             base |-> base, files |-> edit.files, deleted |-> edit.deleted,
             todo |-> BoundRepos, commit |-> 0]]
  /\ clearPipelineFailure(Bound, "clone")
  /\ UNCHANGED <<commit, head, triggered, abandoned>>

(* A client opens a commit of its own through the per-file API.            *)
Author(d) ==
  /\ req[d].step = "idle"
  /\ \E r \in Repos, edit \in Edits :
       req' = [req EXCEPT ![d] =
                 [NoRequest EXCEPT !.step = "start", !.kind = "author", !.todo = <<r>>,
                                   !.files = edit.files, !.deleted = edit.deleted]]
  /\ UNCHANGED <<commit, head, pipe, triggered, abandoned>>

Repo(d) == Head(req[d].todo)
After(d) ==
  LET rest == Tail(req[d].todo) IN
  IF rest = <<>> THEN "over" ELSE IF req[d].kind = "delta" THEN "check" ELSE "start"

baseMatches(d) ==
  req[d].base # None => /\ head[Repo(d)] # 0
                        /\ headRevisionMarker(head[Repo(d)]) = req[d].base

CheckBase(d) ==
  /\ req[d].step = "check" /\ baseMatches(d)
  /\ req' = [req EXCEPT ![d].step = "clear"]
  /\ UNCHANGED <<commit, head, pipe, triggered, abandoned>>

(* The base is not the recorded revision: no commit, and the pipelines of  *)
(* this repository fail.                                                   *)
RefuseBase(d) ==
  /\ req[d].step = "check" /\ ~baseMatches(d)
  /\ markPipelineFailed(BoundTo(Repo(d)), "base")
  /\ req' = [req EXCEPT ![d].step = After(d), ![d].todo = Tail(@)]
  /\ UNCHANGED <<commit, head, triggered, abandoned>>

(* The base matched: an earlier mismatch is lifted before the commit.      *)
LiftBase(d) ==
  /\ req[d].step = "clear"
  /\ clearPipelineFailure(BoundTo(Repo(d)), "base")
  /\ req' = [req EXCEPT ![d].step = "start"]
  /\ UNCHANGED <<commit, head, triggered, abandoned>>

StartCommit(d) ==
  LET r == Repo(d)  p == head[r] IN
  /\ req[d].step = "start"
  /\ commit' = Append(commit,
       [repo |-> r, by |-> d, parent |-> p, finished |-> FALSE, over |-> 0,
        marker |-> IF p = 0 THEN None ELSE commit[p].marker,
        tree |-> IF p = 0 THEN [f \in Paths |-> None] ELSE commit[p].tree])
  /\ req' = [req EXCEPT ![d].step = "write", ![d].commit = Len(commit) + 1]
  /\ UNCHANGED <<head, pipe, triggered, abandoned>>

(* The tree the request writes: deletions first, then the files.           *)
Written(d, tree) ==
  [f \in Paths |-> IF f \in req[d].files THEN d
                   ELSE IF f \in req[d].deleted THEN None ELSE tree[f]]

(* A delivery writes its revision; an authored commit that inherits a      *)
(* marker records itself (FinishCommit).                                   *)
Marked(d) == LET c == req[d].commit IN
             IF req[d].kind # "author" THEN d
             ELSE IF commit[c].marker # None THEN c ELSE None

(* The writes, and FinishCommit, which moves the head.                     *)
FinishCommit(d) ==
  LET c == req[d].commit  r == Repo(d) IN
  /\ req[d].step = "write"
  /\ commit' = [commit EXCEPT ![c].finished = TRUE, ![c].marker = Marked(d),
                              ![c].tree = Written(d, @), ![c].over = head[r]]
  /\ head' = [head EXCEPT ![r] = c]
  /\ req' = [req EXCEPT ![d].step = "trigger"]
  /\ UNCHANGED <<pipe, triggered, abandoned>>

(* A write fails: the revision is left open and the next repository's turn *)
(* comes.                                                                  *)
Abandon(d) ==
  /\ req[d].step = "write"
  /\ abandoned' = TRUE
  /\ req' = [req EXCEPT ![d].step = After(d), ![d].todo = Tail(@)]
  /\ UNCHANGED <<commit, head, pipe, triggered>>

(* Mutant of triggerForCommit: a mismatch is lifted after the commit.      *)
triggerThenLift(d) ==
  /\ req[d].step = "trigger"
  /\ triggered' = [p \in Pipelines |->
       IF GitOf[p].repo = Repo(d) /\ pipe[p] = "running"
         THEN triggered[p] \cup {req[d].commit} ELSE triggered[p]]
  /\ clearPipelineFailure(BoundTo(Repo(d)), "base")
  /\ req' = [req EXCEPT ![d].step = After(d), ![d].todo = Tail(@)]
  /\ UNCHANGED <<commit, head, abandoned>>

(* triggerForCommit: failed pipelines are skipped.                         *)
triggerForCommit(d) ==
  /\ req[d].step = "trigger"
  /\ triggered' = [p \in Pipelines |->
       IF GitOf[p].repo = Repo(d) /\ pipe[p] = "running"
         THEN triggered[p] \cup {req[d].commit} ELSE triggered[p]]
  /\ req' = [req EXCEPT ![d].step = After(d), ![d].todo = Tail(@)]
  /\ UNCHANGED <<commit, head, pipe, abandoned>>

Next == \E d \in Deliveries :
  \/ DeliverPrivate(d) \/ Deliver(d) \/ Author(d)
  \/ CheckBase(d) \/ RefuseBase(d) \/ LiftBase(d)
  \/ StartCommit(d) \/ FinishCommit(d) \/ Abandon(d) \/ triggerForCommit(d)

Spec == Init /\ [][Next]_vars

----------------------------------------------------------------------------
Idle == \A d \in Deliveries : req[d].step \in {"idle", "over"}

(* Once the deliveries are done, a pipeline that is not failed has been    *)
(* triggered for its repository's head: whatever mix of pushes, deltas and *)
(* authored commits lifted the failure, the commit that did so was seen    *)
(* (git.go: "Clearing after the commit would leave the recovery commit     *)
(* untriggered").                                                          *)
NotSilenced ==
  Idle /\ ~abandoned =>
    \A p \in Pipelines : pipe[p] = "running" /\ head[GitOf[p].repo] # 0 =>
      head[GitOf[p].repo] \in triggered[p]

(* The same where the write of a delta may fail. It fails: the earlier     *)
(* failure of the pipeline is lifted before the write.                     *)
NotSilencedByFailedWrite ==
  Idle => \A p \in Pipelines : pipe[p] = "running" /\ head[GitOf[p].repo] # 0 =>
            head[GitOf[p].repo] \in triggered[p]

(* An edit with a base lands on the tree it was made against, and replaces *)
(* no other head (git.go: "guarding against applying an edit made against  *)
(* a stale tree onto a newer head"). It fails: two deltas with the same    *)
(* base both pass the check.                                               *)
EditsKeepWork ==
  \A c \in DOMAIN commit :
    LET d == commit[c].by  p == commit[c].parent IN
    commit[c].finished /\ req[d].base # None =>
      /\ p # 0 /\ headRevisionMarker(p) = req[d].base
      /\ commit[c].over = p

(* A full push that ran alone leaves no pipeline failed for an earlier     *)
(* delta's base (git.go:436, the reason a refused delta leaves: "deliver a *)
(* full push or a delta with the current base"). It fails: a push does not *)
(* clear a failed base.                                                    *)
PushRecovers ==
  [][\A d \in Deliveries :
       req[d].kind = "push" /\ req[d].step = "trigger" /\ req'[d].step = "over"
         => \A p \in Bound : pipe[p] = "base" =>
              \E e \in Deliveries \ {d} : req[e].step \notin {"idle", "over"}]_vars

(* A push's commit holds the revision's tree (git.go: "each replacing the  *)
(* previous revision's tree"). It fails: paths that the revision no longer *)
(* has stay.                                                               *)
PushIsTheRevision ==
  \A c \in DOMAIN commit :
    LET d == commit[c].by IN
    commit[c].finished /\ req[d].kind = "push" =>
      commit[c].tree = [f \in Paths |-> IF f \in req[d].files THEN d ELSE None]
=============================================================================
