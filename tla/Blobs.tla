------------------------------- MODULE Blobs -------------------------------
(***************************************************************************)
(* The content-addressed objects of the store, what refers to them, and    *)
(* the two operations that go through all of them: garbage collection      *)
(* (api.go: collectGarbage), which takes no lock, and backup (backup.go,   *)
(* store.go: BackupTar), which holds the store's lock while it copies the  *)
(* objects, the commits and the tags.                                      *)
(*                                                                         *)
(* A write (store.go: PutFile, OverwriteFile, AddFilesFromDir, PutTag)     *)
(* holds the lock from WriteBlob to the saved record; WriteBlob writes the *)
(* object in place and keeps an object that is there, cut short or not.  A *)
(* datum's files are written by storeOutput, in a job and without the      *)
(* lock, before the job's record names them.  Nothing keeps writes out of  *)
(* a collection, and a crash or a full disk may end one in the middle of   *)
(* its bytes: exposed holds the contents that met one of these.            *)
(***************************************************************************)
EXTENDS Integers, FiniteSets

CONSTANTS
  Shas,        \* the contents that are written
  Holders,     \* commits, tags, and the records of datums
  Tags,        \* the holders that are tags
  Datums       \* those that are records of datums: the files a skip carries forward

VARIABLES
  object,  \* each object's file: absent, whole, or cut short
  refs,    \* what the record of each holder refers to
  write,   \* the write that holds the store's lock, and the one storeOutput has begun
  gc,      \* the collection: its step, what it has found referenced, what is left to look at
  archive, \* the backup: its step, and the objects and the references it holds
  jobs,    \* a job is running
  exposed  \* history: contents cut short, or written while a collection ran, not made good

vars == <<object, refs, write, gc, archive, jobs, exposed>>

NoWrite == [step |-> "none"]
Slots == {"locked", "storeOutput"}
SlotOf(h) == IF h \in Datums THEN "storeOutput" ELSE "locked"
NoArchive == [step |-> "none", whole |-> {}, refs |-> {}, doubtful |-> {}]
NoCollection == [step |-> "idle", found |-> {}, left |-> {}]
Referenced(hs) == UNION {refs[h] : h \in hs}
Whole == {s \in Shas : object[s] = "whole"}
InFlight == {write[k].sha : k \in {l \in Slots : write[l] # NoWrite}}

(* Contents whose bytes are on their way, and those that nothing vouches   *)
(* for.                                                                    *)
Unfinished == {write[k].sha : k \in {l \in Slots : write[l].step = "write"}}
Doubtful == exposed \cup Unfinished

TypeOK ==
  /\ object \in [Shas -> {"absent", "short", "whole"}]
  /\ refs \in [Holders -> SUBSET Shas]
  /\ \A k \in Slots :
       \/ write[k] = NoWrite
       \/ write[k] \in [step : {"stat", "create", "write", "behind", "save"}, sha : Shas, to : Holders]
  /\ gc \in [step : {"idle", "commits", "tags", "objects", "sweep"},
             found : SUBSET Shas, left : SUBSET Shas]
  /\ archive \in [step : {"none", "objects", "done"}, whole : SUBSET Shas, refs : SUBSET Shas,
                  doubtful : SUBSET Shas]
  /\ jobs \in BOOLEAN /\ exposed \subseteq Shas

Init ==
  /\ object = [s \in Shas |-> "absent"] /\ refs = [h \in Holders |-> {}]
  /\ write = [k \in Slots |-> NoWrite] /\ gc = NoCollection /\ archive = NoArchive
  /\ jobs = FALSE /\ exposed = {}

Locked == write["locked"] # NoWrite \/ archive.step = "objects"

(* The bytes of the other writers of s go nowhere: its file was removed,   *)
(* or truncated, under them.                                               *)
Overtaken(s, others) ==
  [k \in Slots |-> IF k \in others /\ write[k].step = "write" /\ write[k].sha = s
                     THEN [write[k] EXCEPT !.step = "behind"] ELSE write[k]]

----------------------------------------------------------------------------
(* Writes, and what drops a reference.                                     *)

Begin(s, h) ==
  /\ write[SlotOf(h)] = NoWrite
  /\ IF h \in Datums THEN jobs ELSE ~Locked
  /\ write' = [write EXCEPT ![SlotOf(h)] = [step |-> "stat", sha |-> s, to |-> h]]
  /\ exposed' = IF gc.step = "idle" THEN exposed ELSE exposed \cup {s}
  /\ UNCHANGED <<object, refs, gc, archive, jobs>>

(* WriteBlob: an object that exists, whole or not, is kept.                *)
Stat(k) ==
  /\ write[k].step = "stat"
  /\ write' = [write EXCEPT ![k].step = IF object[write[k].sha] = "absent" THEN "create" ELSE "save"]
  /\ UNCHANGED <<object, refs, gc, archive, jobs, exposed>>

(* ... the file is created, or truncated if another write was faster ...   *)
Create(k) ==
  /\ write[k].step = "create"
  /\ object' = [object EXCEPT ![write[k].sha] = "short"]
  /\ write' = [Overtaken(write[k].sha, Slots \ {k}) EXCEPT ![k].step = "write"]
  /\ UNCHANGED <<refs, gc, archive, jobs, exposed>>

(* ... and its bytes are written.  Whole outside a collection, the content *)
(* is as good as any.                                                      *)
WriteBlob(k) ==
  /\ \/ /\ write[k].step = "write"
        /\ object' = [object EXCEPT ![write[k].sha] = "whole"]
        /\ exposed' = IF gc.step = "idle" THEN exposed \ {write[k].sha} ELSE exposed
     \/ write[k].step = "behind" /\ UNCHANGED <<object, exposed>>
  /\ write' = [write EXCEPT ![k].step = "save"]
  /\ UNCHANGED <<refs, gc, archive, jobs>>

(* The disk is full: what was written stays, and nothing refers to it yet. *)
WriteFails(k) ==
  /\ write[k].step \in {"create", "write", "behind"}
  /\ exposed' = IF write[k].step = "write" THEN exposed \cup {write[k].sha} ELSE exposed
  /\ write' = [write EXCEPT ![k] = NoWrite]
  /\ UNCHANGED <<object, refs, gc, archive, jobs>>

(* The record: a commit's grows, a tag's or a datum's names what it had    *)
(* last.                                                                   *)
Save(k) ==
  /\ write[k].step = "save"
  /\ refs' = [refs EXCEPT ![write[k].to] =
                IF write[k].to \in Tags \cup Datums THEN {write[k].sha} ELSE @ \cup {write[k].sha}]
  /\ write' = [write EXCEPT ![k] = NoWrite]
  /\ UNCHANGED <<object, gc, archive, jobs, exposed>>

(* DeleteTag; the deletion of a commit, of its repository, or of the       *)
(* pipeline's datum records.                                               *)
Drop(h) ==
  /\ ~Locked /\ refs[h] # {}
  /\ refs' = [refs EXCEPT ![h] = {}]
  /\ UNCHANGED <<object, write, gc, archive, jobs, exposed>>

JobStarts == ~jobs /\ jobs' = TRUE /\ UNCHANGED <<object, refs, write, gc, archive, exposed>>
JobEnds ==
  /\ jobs /\ write["storeOutput"] = NoWrite
  /\ jobs' = FALSE /\ UNCHANGED <<object, refs, write, gc, archive, exposed>>

Crash ==
  /\ exposed' = Doubtful \ Whole
  /\ write' = [k \in Slots |-> NoWrite] /\ gc' = NoCollection /\ jobs' = FALSE
  /\ archive' = IF archive.step = "objects" THEN NoArchive ELSE archive
  /\ UNCHANGED <<object, refs>>

----------------------------------------------------------------------------
(* collectGarbage.                                                         *)

(* Refused while a job runs.                                               *)
Collect ==
  /\ gc.step = "idle" /\ ~jobs
  /\ gc' = [NoCollection EXCEPT !.step = "commits"]
  /\ exposed' = exposed \cup InFlight
  /\ UNCHANGED <<object, refs, write, archive, jobs>>

MarkCommits ==
  /\ gc.step = "commits"
  /\ gc' = [gc EXCEPT !.step = "tags", !.found = Referenced(Holders \ (Tags \cup Datums))]
  /\ UNCHANGED <<object, refs, write, archive, jobs, exposed>>

(* Mutant of MarkTags: tags do not count.                                  *)
MarkNoTags ==
  /\ gc.step = "tags"
  /\ gc' = [gc EXCEPT !.step = "objects"]
  /\ UNCHANGED <<object, refs, write, archive, jobs, exposed>>

MarkTags ==
  /\ gc.step = "tags"
  /\ gc' = [gc EXCEPT !.step = "objects", !.found = @ \cup Referenced(Tags)]
  /\ UNCHANGED <<object, refs, write, archive, jobs, exposed>>

(* The directories are listed one by one, so that an object created        *)
(* meanwhile may be listed or not.                                         *)
ReadObjects ==
  /\ gc.step = "objects"
  /\ \E listed \in SUBSET Shas :
       /\ {s \in Shas : object[s] # "absent"} \subseteq listed
       /\ gc' = [gc EXCEPT !.step = "sweep", !.left = listed]
  /\ UNCHANGED <<object, refs, write, archive, jobs, exposed>>

Sweep(s) ==
  /\ gc.step = "sweep" /\ s \in gc.left
  /\ IF s \in gc.found THEN UNCHANGED <<object, write>>
     ELSE object' = [object EXCEPT ![s] = "absent"] /\ write' = Overtaken(s, Slots)
  /\ gc' = [gc EXCEPT !.left = @ \ {s}]
  /\ UNCHANGED <<refs, archive, jobs, exposed>>

(* What is whole at the end of the collection has escaped it.              *)
Collected ==
  /\ gc.step = "sweep" /\ gc.left = {}
  /\ gc' = NoCollection /\ exposed' = exposed \ Whole
  /\ UNCHANGED <<object, refs, write, archive, jobs>>

----------------------------------------------------------------------------
(* backupH.                                                                *)

(* BackupTar walks the repositories' directory: the objects come first ... *)
BackupTar ==
  /\ archive = NoArchive /\ ~Locked
  /\ archive' = [archive EXCEPT !.step = "objects", !.whole = Whole, !.doubtful = Doubtful \ Whole]
  /\ UNCHANGED <<object, refs, write, gc, jobs, exposed>>

(* ... then the commits and the tags.                                      *)
TarRecords ==
  /\ archive.step = "objects"
  /\ archive' = [archive EXCEPT !.step = "done", !.refs = Referenced(Holders \ Datums)]
  /\ UNCHANGED <<object, refs, write, gc, jobs, exposed>>

Forget ==
  /\ archive.step = "done"
  /\ archive' = NoArchive
  /\ UNCHANGED <<object, refs, write, gc, jobs, exposed>>

Next ==
  \/ \E s \in Shas : Sweep(s) \/ \E h \in Holders : Begin(s, h)
  \/ \E h \in Holders : Drop(h)
  \/ \E k \in Slots : Stat(k) \/ Create(k) \/ WriteBlob(k) \/ WriteFails(k) \/ Save(k)
  \/ JobStarts \/ JobEnds \/ Crash
  \/ Collect \/ MarkCommits \/ MarkTags \/ ReadObjects \/ Collected
  \/ BackupTar \/ TarRecords \/ Forget

Spec == Init /\ [][Next]_vars

----------------------------------------------------------------------------
(* What a commit or a tag refers to can be read, in full, unless its       *)
(* content was cut short, is on its way, or was written while a collection *)
(* ran (api.go: "Reachable data is never touched").                        *)
ReachableReadable == Referenced(Holders \ Datums) \subseteq Whole \cup Doubtful

(* A finished archive holds every object its own commits and tags refer to *)
(* that could be vouched for when it was made (backup.go: "pending repo    *)
(* writes queue on the mutex and land after the snapshot").                *)
ArchiveComplete ==
  archive.step = "done" => archive.refs \subseteq archive.whole \cup archive.doubtful

(* So can what a datum's record refers to, until the datum is processed    *)
(* again (datum_engine.go, execDatum: "the record's references stay        *)
(* readable for carry-forward and the output merge").  It fails: the       *)
(* collection does not look at these records, and where several datums     *)
(* write one path no commit refers to the piece of each.                   *)
CarriedReadable == Referenced(Datums) \subseteq Whole \cup Doubtful

(* The claims without the exceptions.  Both fail: a collection sweeps an   *)
(* object whose record is not saved yet, and a later write takes an object *)
(* that was cut short for complete.                                        *)
ReachableEver == Referenced(Holders \ Datums) \subseteq Whole
ArchiveEver == archive.step = "done" => archive.refs \subseteq archive.whole
=============================================================================
