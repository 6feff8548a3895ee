------------------------------ MODULE Admission ------------------------------
(***************************************************************************)
(* Which declarations become pipelines, and which repositories go when a   *)
(* pipeline does (pipeline.go: createPipeline and the validations it       *)
(* calls, deletePipeline; git.go, cron.go: the derived repositories).      *)
(*                                                                         *)
(* A declaration is checked against the records and the repositories as    *)
(* they are, and takes effect some steps later: a second administrator     *)
(* may act in between.  An input is its sides; a union is a side that has  *)
(* sides of its own.  The jobs of a pipeline are in Pipelines.tla.         *)
(***************************************************************************)
EXTENDS Integers, Sequences, SequencesExt, FiniteSets

CONSTANTS
  Admins,          \* clients that create, update and delete
  Specs,           \* the declarations they submit
  Sources,         \* repositories that clients made
  Identifiers,     \* the names that are shell identifiers (shIdent)
  envName(_),      \* a repository's name as an environment variable (external to the model)
  cronRepo(_, _),  \* the repository of a pipeline's cron input
  MayForce         \* whether deletions may be forced

VARIABLES
  pipes,   \* the pipeline records
  repos,   \* the repositories that exist
  admin    \* what each administrator is doing

vars == <<pipes, repos, admin>>

Names == {s.name : s \in Specs}
Idle == [at |-> "idle"]
NoRecord == [kind |-> "none"]
Exists(n) == pipes[n] # NoRecord

(* An input is [shape, sides], a side [kind, name, repo, sides]; the kind  *)
(* is file, git, cron or union, a name "" is not declared, and only a      *)
(* union has sides.  An input that is one union is its only side.          *)
sidesOf(in) == in.sides

(* Every side at any depth: unions hold no unions here.                    *)
Leaves(in) == UNION {IF s.kind = "union" THEN Range(s.sides) ELSE {s} : s \in Range(sidesOf(in))}

----------------------------------------------------------------------------
(* Validation.                                                             *)

(* The name under which the members of a cross are told apart.             *)
Namespace(s) == CASE s.name # "" -> s.name
                  [] s.name = "" /\ s.kind = "file" -> s.repo
                  [] OTHER -> "input"

(* The name a side will have: a union's is its alias, a git side's is      *)
(* derived from its URL, here its repo.                                    *)
NameOf(s) == IF s.name # "" THEN s.name
             ELSE IF s.kind \in {"file", "git"} THEN envName(s.repo) ELSE ""

ValidSide(s, pipeline) ==
  /\ NameOf(s) \in Identifiers
  /\ s.kind \in {"file", "cron", "union"} => NameOf(s) # "out"
  /\ s.kind = "file" => s.repo # "" /\ s.repo # pipeline

(* A mutant: the names of joined and grouped sides are not compared.       *)
validateCrossSides(in, pipeline) ==
  /\ in.shape = "cross" => IsInjective([i \in DOMAIN sidesOf(in) |-> Namespace(sidesOf(in)[i])])
  /\ \A s \in Range(sidesOf(in)) : ValidSide(s, pipeline)

(* The sides that are no unions have different names; a union's members    *)
(* are validated each on its own.  An input of no shape mixes several (a   *)
(* repo and a cross, a join and a group), lacks a glob, or has a selector  *)
(* or a size trigger where none may be.                                    *)
validateInputSides(in, pipeline) ==
  LET side == sidesOf(in)
      plain == {i \in DOMAIN side : side[i].kind # "union"}
  IN /\ in.shape \in {"one", "cross", "join", "group"}
     /\ in.shape = "cross" => IsInjective([i \in DOMAIN sidesOf(in) |-> Namespace(sidesOf(in)[i])])
     /\ \A s \in Range(sidesOf(in)) : ValidSide(s, pipeline)
     /\ IsInjective([i \in plain |-> NameOf(side[i])])
     /\ \A s \in Range(sidesOf(in)) : \A t \in Range(s.sides) : ValidSide(t, pipeline)

(* The transform, its secrets and the parallelism have a shape of their    *)
(* own, which is taken to be right.                                        *)
validatePipelineSpec(s) ==
  /\ s.name # ""
  /\ "spout" \notin s.kind => validateInputSides(s.input, s.name)

validateService(s) ==
  "service" \in s.kind => /\ "spout" \notin s.kind
                          /\ ~s.standby
                          /\ s.port > 0
                          /\ s.workers <= 1

validateSpout(s) == "spout" \in s.kind => sidesOf(s.input) = <<>>

(* A mutant: the ports of the other services are not looked at.            *)
externalPortIgnored(port, except) == FALSE

externalPortTaken(port, except) ==
  \E n \in Names \ {except} :
    Exists(n) /\ "service" \in pipes[n].kind /\ pipes[n].port = port

(* Only the repository of an input of one side is looked for: that of a    *)
(* cross is "", and the directory of all repositories exists.              *)
InputRepoFound(s) ==
  \A side \in Range(sidesOf(s.input)) :
    (s.input.shape = "one" /\ side.kind = "file") => side.repo \in repos

Admitted(s) == /\ validatePipelineSpec(s) /\ validateService(s) /\ validateSpout(s)
               /\ InputRepoFound(s)
               /\ "service" \in s.kind => ~externalPortTaken(s.port, s.name)

----------------------------------------------------------------------------
(* What is stored.                                                         *)

(* The repository of a side, once derived.                                 *)
DerivedRepo(s, pipeline) == IF s.kind = "cron" THEN cronRepo(pipeline, s.name)
                            ELSE IF s.kind = "git" /\ s.name # "" THEN s.name
                            ELSE s.repo

(* A side's implicit name is filled in, and its derived repository.        *)
StoredSide(s, pipeline) ==
  [s EXCEPT !.name = IF s.name = "" /\ s.kind = "file" THEN envName(s.repo)
                     ELSE IF s.name = "" /\ s.kind = "git" THEN s.repo ELSE s.name,
            !.repo = DerivedRepo(s, pipeline)]

materializeInputDefaults(in, pipeline) ==
  [in EXCEPT !.sides = [i \in DOMAIN in.sides |->
     LET s == in.sides[i]
     IN [StoredSide(s, pipeline) EXCEPT !.sides =
           [j \in DOMAIN s.sides |-> StoredSide(s.sides[j], pipeline)]]]]

inputConsumesRepo(in, r) == \E s \in Leaves(in) : s.repo = r

(* A mutant: a repository that others read goes too.                       *)
repoReferencedByNone(r, except) == FALSE

repoReferencedByOther(r, except) ==
  \E n \in Names \ {except} : Exists(n) /\ inputConsumesRepo(pipes[n].input, r)

SideRepos(in) == {s.repo : s \in {t \in Leaves(in) : t.kind \in {"git", "cron"}}}

----------------------------------------------------------------------------
TypeOK ==
  /\ \A n \in Names : Exists(n) => pipes[n].name = n
  /\ \A a \in Admins : admin[a].at \in {"idle", "load", "apply", "remove", "output", "sides"}

Init == /\ pipes = [n \in Names |-> NoRecord]
        /\ repos = Sources
        /\ admin = [a \in Admins |-> Idle]

(* createPipeline, up to the load of the record.                           *)
Submit(a, s, update) ==
  /\ admin[a] = Idle
  /\ Admitted(s)
  /\ admin' = [admin EXCEPT ![a] = [at |-> "load", spec |-> s, update |-> update]]
  /\ UNCHANGED <<pipes, repos>>

(* A record that exists is updated if that was asked for; an update of     *)
(* none is a creation.                                                     *)
LoadExisting(a) ==
  /\ admin[a].at = "load"
  /\ admin' = [admin EXCEPT ![a] =
                 IF Exists(admin[a].spec.name) /\ ~admin[a].update THEN Idle
                 ELSE [@ EXCEPT !.at = "apply"]]
  /\ UNCHANGED <<pipes, repos>>

(* applyCreate and applyUpdate: the repositories are made, those that      *)
(* exist are used, and the record is saved.                                *)
Apply(a) ==
  /\ admin[a].at = "apply"
  /\ LET s == admin[a].spec
         in == materializeInputDefaults(s.input, s.name)
     IN /\ repos' = repos \cup SideRepos(in) \cup {s.name}
        /\ pipes' = [pipes EXCEPT ![s.name] = [s EXCEPT !.input = in]]
  /\ admin' = [admin EXCEPT ![a] = Idle]

(* deletePipeline, up to the removal of the record.                        *)
DeletePipeline(a, n, force, keepRepo) ==
  /\ admin[a] = Idle
  /\ Exists(n)
  /\ force \/ ~repoReferencedByOther(n, n)
  /\ admin' = [admin EXCEPT ![a] =
                 [at |-> "remove", name |-> n, input |-> pipes[n].input, keep |-> keepRepo]]
  /\ UNCHANGED <<pipes, repos>>

RemoveRecord(a) ==
  /\ admin[a].at = "remove"
  /\ pipes' = [pipes EXCEPT ![admin[a].name] = NoRecord]
  /\ admin' = [admin EXCEPT ![a] = IF @.keep THEN Idle ELSE [@ EXCEPT !.at = "output"]]
  /\ UNCHANGED repos

RemoveOutput(a) ==
  /\ admin[a].at = "output"
  /\ repos' = repos \ {admin[a].name}
  /\ admin' = [admin EXCEPT ![a].at = "sides"]
  /\ UNCHANGED pipes

(* The derived repositories go too, but for those another pipeline reads.  *)
RemoveSides(a) ==
  /\ admin[a].at = "sides"
  /\ repos' = repos \ {r \in SideRepos(admin[a].input) :
                         r # admin[a].name /\ ~repoReferencedByOther(r, admin[a].name)}
  /\ admin' = [admin EXCEPT ![a] = Idle]
  /\ UNCHANGED pipes

Next ==
  \E a \in Admins :
    \/ \E s \in Specs, update \in BOOLEAN : Submit(a, s, update)
    \/ LoadExisting(a) \/ Apply(a)
    \/ \E n \in Names, force \in IF MayForce THEN BOOLEAN ELSE {FALSE}, keep \in BOOLEAN :
         DeletePipeline(a, n, force, keep)
    \/ RemoveRecord(a) \/ RemoveOutput(a) \/ RemoveSides(a)

Spec == Init /\ [][Next]_vars

----------------------------------------------------------------------------
(* The sides of a pipeline's input are staged in different directories     *)
(* (datum_engine.go, runDatumAttempt: in/<name>), none in place of the     *)
(* output, and no file side reads what the pipeline itself writes, also    *)
(* after the defaults were filled in (pipeline.go, validateInputSides).    *)
SidesApart ==
  \A n \in Names : Exists(n) =>
    /\ IsInjective([i \in DOMAIN sidesOf(pipes[n].input) |-> sidesOf(pipes[n].input)[i].name])
    /\ \A s \in Leaves(pipes[n].input) :
         /\ s.kind \in {"file", "cron"} => s.name # "out"
         /\ s.kind = "file" => s.repo # n

(* No two services share a port of the control plane's host                *)
(* (externalPortTaken), whatever is updated and deleted in between.        *)
PortsApart ==
  \A m, n \in Names : ( /\ m # n /\ Exists(m) /\ Exists(n)
                        /\ "service" \in pipes[m].kind \cap pipes[n].kind )
    => pipes[m].port # pipes[n].port

(* The repositories that a pipeline's git and cron inputs are delivered to *)
(* exist as long as the pipeline does, although pipelines that share them  *)
(* are deleted (deletePipeline: side repos go "unless another pipeline     *)
(* still references them").                                                *)
SideReposKept == \A n \in Names : Exists(n) => SideRepos(pipes[n].input) \subseteq repos

(* "An input side may not consume the pipeline's own output": nor may one  *)
(* whose repository is derived.                                            *)
OwnOutputNeverRead == \A n \in Names : Exists(n) => ~inputConsumesRepo(pipes[n].input, n)

(* What a pipeline writes has a repository as long as the pipeline exists. *)
OutputsKept == \A n \in Names : Exists(n) => n \in repos

(* "Every declared input repository must exist at creation": a pipeline    *)
(* appears only when the repositories of its file inputs are there.        *)
InputsExistAtCreation ==
  [][\A n \in Names : (~Exists(n) /\ pipes'[n] # NoRecord) =>
       \A s \in Leaves(pipes'[n].input) : s.kind = "file" => s.repo \in repos]_vars
=============================================================================
