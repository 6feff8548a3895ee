---------------------------- MODULE DatumMemory ----------------------------
(***************************************************************************)
(* The datum records a pipeline keeps from job to job, and the output that *)
(* a job makes of them (execute.go: the part of runJob from loadDedup to   *)
(* saveDedup; datum_engine.go: the dedup table, setDatum, mergeOutputs).   *)
(*                                                                         *)
(* A job skips a datum whose record says that the same content succeeded   *)
(* before, and carries the files of that record into its output.  The      *)
(* table is rewritten on disk after every change of a record, jobs end by  *)
(* crashes and kills as well as by themselves, and the pipeline is updated *)
(* between jobs, with or without a change of its input.  The pipeline's    *)
(* gate lets one job run at a time; the order in which the workers of the  *)
(* pool change the records is any order (see DatumPool).                   *)
(*                                                                         *)
(* A hash is the content it is the hash of.  What a datum's run writes to  *)
(* an output path is a contribution: datum, content, transform version.    *)
(***************************************************************************)
EXTENDS Integers, FiniteSets, Selection

CONSTANTS
  NumDatums,     \* datum identities are numbers, in datum order
  Contents,      \* what a datum may contain
  Absent,        \* the datum is not in the job's input
  PathOf,        \* the output path each datum writes to
  Reprocess,     \* the pipeline reprocesses every datum in every job
  MaxJobs, MaxVersion

VARIABLES
  table,   \* the dedup table on disk
  version, \* the pipeline's transform
  jobs,    \* how many jobs have been started
  job,     \* the job that runs: its datums, its copy of the table, its outcome
  output,  \* the output branch's head: contributions by path
  last     \* history: the last job that settled: its input, transform and datums

vars == <<table, version, jobs, job, output, last>>

Datums == 1 .. NumDatums
Paths == {PathOf[d] : d \in Datums}
Versions == 1 .. MaxVersion
Contributions == Datums \X Contents \X Versions
Nothing == [p \in Paths |-> <<>>]

(* A datum record: the content it is about, how processing it ended (or    *)
(* "" while it is queued or running), the files and the transform they     *)
(* come from.                                                              *)
NoRecord == [hash |-> Absent, outcome |-> "", files |-> <<>>, transform |-> 0]
Records == [hash : Contents \cup {Absent}, outcome : {"", "success", "recovered", "failed"},
            files : {<<>>} \cup Contributions, transform : 0 .. MaxVersion]

NotSpawned == [state |-> "none", view |-> [d \in Datums |-> Absent], version |-> 0,
          dedup |-> [d \in Datums |-> NoRecord], skipped |-> {}, todo |-> {},
          active |-> {}, killed |-> FALSE]

Settled(j, state) ==
  [state |-> state, view |-> j.view, version |-> j.version, todo |-> j.todo,
   ran |-> {d \in j.todo : j.dedup[d].outcome \in {"success", "recovered"}}]

TypeOK ==
  /\ table \in [Datums -> Records]
  /\ version \in Versions /\ jobs \in 0 .. MaxJobs
  /\ job \in [state : {"none", "running"}, view : [Datums -> Contents \cup {Absent}],
              version : 0 .. MaxVersion, dedup : [Datums -> Records], skipped : SUBSET Datums,
              todo : SUBSET Datums, active : SUBSET Datums, killed : BOOLEAN]
  /\ last \in [state : {"none", "success", "failure", "killed"}, todo : SUBSET Datums,
               view : [Datums -> Contents \cup {Absent}], version : 0 .. MaxVersion,
               ran : SUBSET Datums]
  /\ DOMAIN output = Paths /\ \A p \in Paths : output[p] \in Seq(Contributions)

Init ==
  /\ table = [d \in Datums |-> NoRecord]
  /\ version = 1 /\ jobs = 0
  /\ job = NotSpawned /\ last = Settled(NotSpawned, "none")
  /\ output = Nothing

Running == job.state = "running"
Input(j) == {d \in Datums : j.view[d] # Absent}

----------------------------------------------------------------------------
(* Mutant of CanSkip: the record's content is not compared.                *)
CanSkipAny(record, hash) == ~Reprocess /\ record.outcome = "success"

(* The dedup decision: the same content was processed successfully.  A     *)
(* recovered datum is processed again.                                     *)
CanSkip(record, hash) == ~Reprocess /\ record.outcome = "success" /\ record.hash = hash

(* A job starts on the input's current content: it loads the table, skips  *)
(* what it can, and gives the datums without a record a placeholder.       *)
StartJob(view) ==
  LET input == {d \in Datums : view[d] # Absent}
      skipped == {d \in input : CanSkip(table[d], view[d])}
  IN
  /\ ~Running /\ jobs < MaxJobs /\ input # {}
  /\ jobs' = jobs + 1
  /\ job' = [NotSpawned EXCEPT !.state = "running", !.view = view, !.version = version,
                          !.skipped = skipped, !.todo = input \ skipped,
                          !.dedup = [d \in Datums |->
                             IF d \in input \ skipped /\ table[d] = NoRecord
                               THEN [NoRecord EXCEPT !.hash = view[d]] ELSE table[d]]]
  /\ UNCHANGED <<table, version, output, last>>

(* setDatum: a record changes in the job's table, and the whole table goes *)
(* to disk.                                                                *)
SetDatum(d, record, active) ==
  /\ job' = [job EXCEPT !.dedup[d] = record, !.active = active]
  /\ table' = [job.dedup EXCEPT ![d] = record]
  /\ UNCHANGED <<version, jobs, output, last>>

(* Mutant of PickUp: the live record keeps the outcome of the old one.     *)
PickUpInPlace(d) ==
  /\ Running /\ d \in job.todo \ job.active
  /\ SetDatum(d, [job.dedup[d] EXCEPT !.hash = job.view[d]], job.active \cup {d})

(* A worker picks the datum up: the live record has no outcome.            *)
PickUp(d) ==
  /\ Running /\ d \in job.todo \ job.active
  /\ SetDatum(d, [NoRecord EXCEPT !.hash = job.view[d]], job.active \cup {d})

(* The datum settles, in a cancelled job too if its command ended before   *)
(* the kill.  Its files are what the job's transform makes of its content; *)
(* a failed attempt leaves none.                                           *)
Settle(d, outcome) ==
  /\ Running /\ d \in job.todo \cap job.active /\ job.dedup[d].outcome = ""
  /\ SetDatum(d, IF outcome = "failed"
                   THEN [job.dedup[d] EXCEPT !.outcome = "failed"]
                   ELSE [hash |-> job.view[d], outcome |-> outcome,
                         files |-> <<d, job.view[d], job.version>>, transform |-> job.version],
              job.active)

(* A cancel; what the kill reaches in time fails.                          *)
Kill ==
  /\ Running /\ ~job.killed
  /\ job' = [job EXCEPT !.killed = TRUE]
  /\ UNCHANGED <<table, version, jobs, output, last>>

----------------------------------------------------------------------------
(* mergeOutputs.                                                           *)
Ran(j, d) == d \in j.todo /\ j.dedup[d].outcome \in {"success", "recovered"}
FreshPaths(j) == {PathOf[d] : d \in {e \in j.todo : Ran(j, e)}}
Stale(j, d) == j.dedup[d].transform \notin {0, j.version}

(* Mutant of Contributes: carried files are merged whatever made them.     *)
ContributesAll(j, d) == Ran(j, d) \/ (d \in j.skipped /\ j.dedup[d].files # <<>>)

(* A datum that ran contributes its files; a skipped datum the carried     *)
(* ones, unless they are another transform's and a datum that ran wrote    *)
(* the path.                                                               *)
Contributes(j, d) ==
  \/ Ran(j, d)
  \/ d \in j.skipped /\ j.dedup[d].files # <<>> /\ ~(PathOf[d] \in FreshPaths(j) /\ Stale(j, d))

(* Files for the same path are appended in datum order.                    *)
mergeOutputs(j) ==
  [p \in Paths |->
     LET order == Selected([d \in Datums |-> d],
                           {d \in Datums : PathOf[d] = p /\ Contributes(j, d)})
     IN  [n \in DOMAIN order |-> j.dedup[order[n]].files]]

FailedAny(j) == \E d \in j.todo : j.dedup[d].outcome = "failed"
Done == Running /\ job.todo = job.active /\ \A d \in job.todo : job.dedup[d].outcome # ""

(* The job settles: its output becomes the head and the table is saved. An *)
(* empty finish shows nothing: the files of the head before it are gone.   *)
Finish(state, out) ==
  /\ output' = out
  /\ last' = Settled(job, state)
  /\ job' = NotSpawned
  /\ table' = job.dedup
  /\ UNCHANGED <<version, jobs>>

FinishSuccess == Done /\ ~FailedAny(job) /\ Finish("success", mergeOutputs(job))

(* What the other datums made is published, or nothing if they made none.  *)
FinishPartial == Done /\ FailedAny(job) /\ ~job.killed /\ Finish("failure", mergeOutputs(job))
FinishKilled == Done /\ FailedAny(job) /\ job.killed /\ Finish("killed", Nothing)

(* The merge fails (a blob is missing, a path is file and directory), also *)
(* that of a failed job; the egress fails, which runs after the output is  *)
(* published.                                                              *)
MergeFails == Done /\ ~(FailedAny(job) /\ job.killed) /\ Finish("failure", Nothing)
EgressFails == Done /\ ~FailedAny(job) /\ Finish("failure", mergeOutputs(job))

(* A restart of the daemon: the job is gone, the table is what is on disk. *)
Restart ==
  /\ Running
  /\ job' = NotSpawned
  /\ UNCHANGED <<table, version, jobs, output, last>>

(* An update of the pipeline changes its transform, or its input: then the *)
(* table is dropped.  A job that runs goes on as it was started.           *)
applyUpdate(newInput) ==
  /\ version < MaxVersion
  /\ version' = version + 1
  /\ table' = IF newInput THEN [d \in Datums |-> NoRecord] ELSE table
  /\ UNCHANGED <<jobs, job, output, last>>

Next ==
  \/ \E view \in [Datums -> Contents \cup {Absent}] : StartJob(view)
  \/ \E d \in Datums : PickUp(d) \/ \E o \in {"success", "recovered", "failed"} : Settle(d, o)
  \/ Kill \/ Restart
  \/ FinishSuccess \/ FinishPartial \/ FinishKilled \/ MergeFails \/ EgressFails
  \/ \E newInput \in BOOLEAN : applyUpdate(newInput)

Spec == Init /\ [][Next]_vars

----------------------------------------------------------------------------
At(p) == {d \in Datums : PathOf[d] = p}
From(p, d) == {n \in DOMAIN output[p] : output[p][n][1] = d}

(* What the last job published, whatever became of it: every contribution  *)
(* is of the content the datum has in this job's input, each datum         *)
(* contributes at most once and in datum order, and a path this job's      *)
(* transform wrote holds nothing of an older transform. A successful job   *)
(* leaves a datum out of a path only where another one's fresh files       *)
(* supersede it; a failed one shows what its other datums made, or         *)
(* nothing; a killed one shows nothing (datum_engine.go: "no file lost,    *)
(* duplicated, or corrupted", "supersedes the carried content";            *)
(* execute.go: "the successful outputs remain readable", "all-or-nothing   *)
(* empty").                                                                *)
OutputCurrent ==
  /\ last.state \in {"success", "failure"} =>
       \A p \in Paths :
         /\ \A n \in DOMAIN output[p] : output[p][n][2] = last.view[output[p][n][1]]
         /\ \A n, m \in DOMAIN output[p] : n < m => output[p][n][1] < output[p][m][1]
         /\ At(p) \cap last.ran # {} =>
              \A n \in DOMAIN output[p] : output[p][n][3] = last.version
  /\ last.state = "success" =>
       \A p \in Paths : \A d \in At(p) \cap Input(last) :
         From(p, d) = {} => \E n \in DOMAIN output[p] : output[p][n][3] = last.version
  /\ last.state = "failure" =>
       output = Nothing \/ \A d \in last.ran : From(PathOf[d], d) # {}
  /\ last.state = "killed" => output = Nothing

(* The table on disk is never ahead of the truth: a record that would let  *)
(* the next job skip a datum holds the files that its content gives,       *)
(* through crashes and kills at any point (datum_engine.go: "never a wrong *)
(* skip").                                                                 *)
SkipsAreEarned ==
  \A d \in Datums : table[d].outcome = "success" =>
    /\ table[d].hash \in Contents
    /\ table[d].files = <<d, table[d].hash, table[d].transform>>

(* A path all of whose datums were skipped with unchanged content shows    *)
(* what it showed before (datum_engine.go: carried files "reproduce the    *)
(* parent's content exactly"). It fails: a job that runs some of the       *)
(* datums of a path leaves out what the skipped ones wrote under an older  *)
(* transform, and the next job, which skips them all, brings it back.      *)
CarriedReproducesParent ==
  [][\A p \in Paths :
       /\ last.state = "success" /\ last' # last /\ last'.state = "success"
       /\ \A d \in At(p) : last'.view[d] = last.view[d] /\ d \notin last'.todo
       => output'[p] = output[p]]_vars

(* A job none of whose datums succeeded leaves the branch's content as it  *)
(* was (execute.go: "falls back to the empty finish (parent view           *)
(* preserved, no tombstones)"). It fails: an empty commit shows nothing.   *)
ParentViewPreserved ==
  [][last' # last /\ last'.state = "failure" /\ last'.ran = {} => output' = output]_vars
=============================================================================
