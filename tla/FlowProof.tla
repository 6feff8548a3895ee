----------------------------- MODULE FlowProof -----------------------------
(***************************************************************************)
(* Proofs about the models that MCFlow puts together: garbage collection   *)
(* and backup keep what is referred to (Blobs), the start of the daemon    *)
(* brings back what it finds and the schedules (Restart, CronTickers), no  *)
(* pairing of heads is worked on by two live jobs, and lines of pipelines  *)
(* publish in the order of their inputs (Dag).                             *)
(***************************************************************************)
EXTENDS MCFlow, TLAPS, FiniteSetTheorems, SequenceTheorems

----------------------------------------------------------------------------
(* Objects and what refers to them.                                        *)

Kept == Holders \ DatumHolders
Writes == [step : {"stat", "create", "write", "behind", "save"}, sha : Shas, to : Holders]
BlobSlots == {"locked", "storeOutput"}
Collections == [step : {"idle", "commits", "tags", "objects", "sweep"},
                found : SUBSET Shas, left : SUBSET Shas]
Archives == [step : {"none", "objects", "done"}, whole : SUBSET Shas, refs : SUBSET Shas,
             doubtful : SUBSET Shas]

BlobTypes ==
  /\ object \in [Shas -> {"absent", "short", "whole"}]
  /\ refs \in [Holders -> SUBSET Shas]
  /\ write \in [BlobSlots -> Writes \cup {Blob!NoWrite}]
  /\ gc \in Collections /\ archive \in Archives
  /\ exposed \subseteq Shas

(* A content may be relied on, or the reason why not is known.             *)
Writing(k, s) == write[k].step = "write" /\ write[k].sha = s
Naming(k, s) == write[k].step \in {"behind", "save"} /\ write[k].sha = s
Accounted(s) == object[s] = "whole" \/ s \in exposed \/ \E k \in BlobSlots : Writing(k, s)

(* A write of a commit or a tag, and no other, is under the store's lock;  *)
(* what is written during a collection is exposed, and one writer's bytes  *)
(* make an object whole.                                                   *)
WriteInv ==
  /\ archive.step = "objects" => write["locked"] = Blob!NoWrite
  /\ write["storeOutput"] # Blob!NoWrite => write["storeOutput"].to \in DatumHolders
  /\ \A k \in BlobSlots : gc.step # "idle" /\ write[k] # Blob!NoWrite => write[k].sha \in exposed
  /\ \A k, l \in BlobSlots : \A s \in Shas : k # l /\ Writing(k, s) => ~Writing(l, s)

(* An object that is not whole is being written or exposed, and so is what *)
(* a record is about to name.                                              *)
ObjectInv ==
  /\ \A s \in Shas : object[s] = "short" => Accounted(s)
  /\ \A k \in BlobSlots : \A s \in Shas : /\ Writing(k, s) => object[s] = "short"
                                          /\ Naming(k, s) => Accounted(s)

(* What the collection has found, and the archive copied, at each step.    *)
FoundInv ==
  /\ \A h \in Kept : \A s \in refs[h] : Accounted(s)
  /\ gc.step = "tags" => \A h \in Kept \ TagHolders : refs[h] \subseteq gc.found \cup exposed
  /\ gc.step \in {"objects", "sweep"} => \A h \in Kept : refs[h] \subseteq gc.found \cup exposed
  /\ archive.step = "objects" => \A h \in Kept : refs[h] \subseteq archive.whole \cup archive.doubtful
  /\ archive.step = "done" => archive.refs \subseteq archive.whole \cup archive.doubtful

BlobInv == BlobTypes /\ WriteInv /\ ObjectInv /\ FoundInv

LEMMA BlobNames ==
  /\ Blob!NoWrite.step = "none" /\ Blob!Slots = BlobSlots
  /\ \A w \in Writes : w # Blob!NoWrite
BY DEF Blob!NoWrite, Blob!Slots, BlobSlots, Writes

LEMMA BlobInitial == ASSUME Blob!Init PROVE BlobInv
<1>1. /\ object = [s \in Shas |-> "absent"] /\ refs = [h \in Holders |-> {}]
      /\ write = [k \in BlobSlots |-> Blob!NoWrite] /\ exposed = {}
      /\ gc = [step |-> "idle", found |-> {}, left |-> {}]
      /\ archive = [step |-> "none", whole |-> {}, refs |-> {}, doubtful |-> {}]
  BY DEF Blob!Init, Blob!Slots, BlobSlots, Blob!NoCollection, Blob!NoArchive
<1>2. \A k \in BlobSlots : write[k] = Blob!NoWrite /\ write[k].step = "none"
  BY <1>1 DEF Blob!NoWrite
<1>3. BlobTypes
  BY <1>1 DEF BlobTypes, Collections, Archives
<1>4. WriteInv
  BY <1>1, <1>2 DEF WriteInv, BlobSlots, Writing
<1>5. ObjectInv
  BY <1>1, <1>2 DEF ObjectInv, Writing, Naming
<1>6. FoundInv
  BY <1>1 DEF FoundInv, Kept
<1> QED
  BY <1>3, <1>4, <1>5, <1>6 DEF BlobInv

(* Who writes a content, in the words of the model.                        *)
LEMMA BlobDoubtful ==
  ASSUME BlobTypes
  PROVE  /\ Blob!Doubtful \subseteq Shas
         /\ \A s \in Shas : s \in Blob!Whole <=> object[s] = "whole"
         /\ \A s \in Shas : s \in Blob!Doubtful <=>
                               s \in exposed \/ \E k \in BlobSlots : Writing(k, s)
<1>1. \A k \in BlobSlots : write[k].step = "write" => write[k].sha \in Shas
  <2> SUFFICES ASSUME NEW k \in BlobSlots, write[k].step = "write" PROVE write[k].sha \in Shas
    OBVIOUS
  <2>1. write[k] \in Writes
    BY BlobNames DEF BlobTypes
  <2> QED BY <2>1 DEF Writes
<1>2. Blob!Unfinished = {write[k].sha : k \in {l \in BlobSlots : write[l].step = "write"}}
  BY BlobNames DEF Blob!Unfinished
<1>3. Blob!Doubtful \subseteq Shas
  BY <1>1, <1>2 DEF Blob!Doubtful, BlobTypes
<1>4. \A s \in Shas : s \in Blob!Unfinished <=> \E k \in BlobSlots : Writing(k, s)
  BY <1>2 DEF Writing
<1> QED BY <1>3, <1>4 DEF Blob!Doubtful, Blob!Whole

LEMMA BlobWhole == BlobInv => Blob!ReachableReadable /\ Blob!ArchiveComplete
<1> SUFFICES ASSUME BlobInv PROVE Blob!ReachableReadable /\ Blob!ArchiveComplete
  OBVIOUS
<1>1. \A h \in Kept : refs[h] \subseteq Shas
  BY DEF BlobInv, BlobTypes, Kept
<1>2. \A h \in Kept : refs[h] \subseteq Blob!Whole \cup Blob!Doubtful
  BY <1>1, BlobDoubtful DEF BlobInv, FoundInv, Accounted
<1>3. Blob!ReachableReadable
  BY <1>2 DEF Blob!ReachableReadable, Blob!Referenced, Kept
<1>4. Blob!ArchiveComplete
  BY DEF BlobInv, FoundInv, Blob!ArchiveComplete
<1> QED
  BY <1>3, <1>4

(* A step that is neither the collection's nor the backup's keeps what     *)
(* they found, if what is referred to anew is accounted for.               *)
LEMMA FoundKept ==
  ASSUME BlobInv, gc' = gc, archive' = archive, refs' \in [Holders -> SUBSET Shas],
         \A s \in Shas : Accounted(s) => Accounted(s)',
         gc.step # "idle" => exposed \subseteq exposed',
         \A h \in Kept : \A s \in refs'[h] :
           \/ s \in refs[h]
           \/ /\ Accounted(s)' /\ archive.step # "objects"
              /\ gc.step # "idle" => s \in exposed'
  PROVE  FoundInv'
<1>1. \A h \in Kept : refs[h] \subseteq Shas /\ refs'[h] \subseteq Shas
  BY DEF BlobInv, BlobTypes, Kept
<1>2. \A h \in Kept : \A s \in refs'[h] : Accounted(s)'
  BY <1>1 DEF BlobInv, FoundInv
<1>3. gc.step = "tags" => \A h \in Kept \ TagHolders : refs'[h] \subseteq gc.found \cup exposed'
  BY DEF BlobInv, FoundInv
<1>4. gc.step \in {"objects", "sweep"} => \A h \in Kept : refs'[h] \subseteq gc.found \cup exposed'
  BY DEF BlobInv, FoundInv
<1>5. archive.step = "objects" =>
        \A h \in Kept : refs'[h] \subseteq archive.whole \cup archive.doubtful
  BY DEF BlobInv, FoundInv
<1> QED BY <1>2, <1>3, <1>4, <1>5 DEF BlobInv, FoundInv

(* A write that ends, fails or goes on without touching the others.        *)
LEMMA BlobSlot ==
  ASSUME BlobInv, NEW k \in BlobSlots, NEW w \in Writes \cup {Blob!NoWrite},
         write' = [write EXCEPT ![k] = w], gc' = gc, archive' = archive,
         object' \in [Shas -> {"absent", "short", "whole"}],
         refs' \in [Holders -> SUBSET Shas], exposed' \subseteq Shas,
         w.step \in {"none", "stat", "create", "save"},
         \A s \in Shas : object'[s] = object[s] \/ (object'[s] = "whole" /\ Writing(k, s)),
         \A s \in Shas : Writing(k, s) => object'[s] = "whole" \/ s \in exposed',
         \A s \in exposed : s \in exposed' \/ (object'[s] = "whole" /\ gc.step = "idle"),
         w # Blob!NoWrite =>
           /\ gc.step # "idle" => w.sha \in exposed'
           /\ IF k = "locked" THEN archive.step # "objects" ELSE w.to \in DatumHolders
           /\ w.step = "save" => object'[w.sha] = "whole" \/ Accounted(w.sha),
         \A l \in BlobSlots \ {k} : \A s \in Shas : Writing(l, s) => ~Writing(k, s),
         \A h \in Kept : \A s \in refs'[h] :
           \/ s \in refs[h]
           \/ /\ Accounted(s) /\ archive.step # "objects"
              /\ gc.step # "idle" => s \in exposed'
  PROVE  BlobInv'
<1>i. BlobTypes /\ WriteInv /\ ObjectInv
  BY DEF BlobInv
<1>1. /\ write' \in [BlobSlots -> Writes \cup {Blob!NoWrite}] /\ write'[k] = w
      /\ \A l \in BlobSlots \ {k} : write'[l] = write[l]
  BY <1>i DEF BlobTypes
<1>2. BlobTypes'
  BY <1>i, <1>1 DEF BlobTypes
<1>3. \A l \in BlobSlots : write[l] \in Writes => write[l].sha \in Shas
  BY DEF Writes
<1>4. \A l \in BlobSlots : write[l].step # "none" => write[l] \in Writes /\ write[l].sha \in Shas
  BY <1>i, <1>3, BlobNames DEF BlobTypes
<1>5. \A s \in Shas : Accounted(s) => Accounted(s)'
  <2> SUFFICES ASSUME NEW s \in Shas, Accounted(s) PROVE Accounted(s)'
    OBVIOUS
  <2>1. CASE object[s] = "whole"
    BY <2>1 DEF Accounted
  <2>2. CASE s \in exposed
    BY <2>2 DEF Accounted
  <2>3. ASSUME NEW l \in BlobSlots, Writing(l, s) PROVE Accounted(s)'
    <3>1. CASE l = k
      BY <2>3, <3>1 DEF Accounted
    <3>2. CASE l # k
      BY <1>1, <2>3, <3>2 DEF Accounted, Writing
    <3> QED BY <3>1, <3>2
  <2> QED BY <2>1, <2>2, <2>3 DEF Accounted
<1>6. WriteInv'
  <2>1. \A l \in BlobSlots : gc.step # "idle" /\ write'[l] # Blob!NoWrite => write'[l].sha \in exposed'
    BY <1>i, <1>1 DEF WriteInv
  <2>2. \A l, m \in BlobSlots : \A s \in Shas : l # m /\ Writing(l, s)' => ~Writing(m, s)'
    BY <1>i, <1>1 DEF WriteInv, Writing
  <2> QED BY <1>i, <1>1, <2>1, <2>2 DEF WriteInv, BlobSlots
<1>7. ObjectInv'
  <2>1. ASSUME NEW s \in Shas, object'[s] = "short" PROVE Accounted(s)'
    BY <1>i, <1>5, <2>1 DEF ObjectInv
  <2>2. ASSUME NEW l \in BlobSlots, NEW s \in Shas, Writing(l, s)' PROVE object'[s] = "short"
    <3>1. l # k /\ write'[l] = write[l]
      BY <1>1, <2>2 DEF Writing
    <3>2. Writing(l, s) /\ ~Writing(k, s)
      BY <2>2, <3>1 DEF Writing
    <3> QED BY <1>i, <3>2 DEF ObjectInv
  <2>3. ASSUME NEW l \in BlobSlots, NEW s \in Shas, Naming(l, s)' PROVE Accounted(s)'
    <3>1. CASE l = k
      <4>1. w # Blob!NoWrite /\ w.sha = s /\ w.step = "save"
        BY <1>1, <2>3, <3>1, BlobNames DEF Naming
      <4> QED BY <1>5, <4>1 DEF Accounted
    <3>2. CASE l # k
      <4>1. Naming(l, s)
        BY <1>1, <2>3, <3>2 DEF Naming
      <4> QED BY <1>i, <1>5, <4>1 DEF ObjectInv
    <3> QED BY <3>1, <3>2
  <2> QED BY <2>1, <2>2, <2>3 DEF ObjectInv
<1>8. \A h \in Kept : refs'[h] \subseteq Shas
  BY DEF Kept
<1>9. FoundInv'
  BY <1>5, <1>8, FoundKept
<1> QED BY <1>2, <1>6, <1>7, <1>9 DEF BlobInv

(* Files removed or truncated under their writers.                         *)
LEMMA BlobOvertaken ==
  ASSUME BlobTypes, NEW s \in Shas, NEW others \in SUBSET BlobSlots
  PROVE  /\ Blob!Overtaken(s, others) \in [BlobSlots -> Writes \cup {Blob!NoWrite}]
         /\ \A k \in BlobSlots :
              IF k \in others /\ Writing(k, s)
                THEN /\ Blob!Overtaken(s, others)[k].step = "behind"
                     /\ Blob!Overtaken(s, others)[k].sha = s
                     /\ Blob!Overtaken(s, others)[k].to = write[k].to
                     /\ Blob!Overtaken(s, others)[k] \in Writes /\ write[k] \in Writes
                ELSE Blob!Overtaken(s, others)[k] = write[k]
<1> DEFINE o == Blob!Overtaken(s, others)
<1>1. o = [k \in BlobSlots |-> IF k \in others /\ Writing(k, s)
                                 THEN [write[k] EXCEPT !.step = "behind"] ELSE write[k]]
  BY BlobNames DEF Blob!Overtaken, Writing
<1> HIDE DEF o
<1>2. ASSUME NEW k \in BlobSlots, k \in others, Writing(k, s)
      PROVE  /\ o[k].step = "behind" /\ o[k].sha = s /\ o[k].to = write[k].to
             /\ o[k] \in Writes /\ write[k] \in Writes
  <2>1. write[k] \in Writes
    BY <1>2, BlobNames DEF BlobTypes, Writing
  <2>2. o[k] = [write[k] EXCEPT !.step = "behind"]
    BY <1>1, <1>2
  <2> QED BY <1>2, <2>1, <2>2 DEF Writes, Writing
<1>3. ASSUME NEW k \in BlobSlots, ~(k \in others /\ Writing(k, s)) PROVE o[k] = write[k]
  BY <1>1, <1>3
<1>4. ASSUME NEW k \in BlobSlots PROVE o[k] \in Writes \cup {Blob!NoWrite}
  BY <1>2, <1>3 DEF BlobTypes
<1>5. o \in [BlobSlots -> Writes \cup {Blob!NoWrite}]
  BY <1>1, <1>4
<1> QED BY <1>2, <1>3, <1>5 DEF o

(* The writes.                                                             *)
LEMMA BlobWrites ==
  ASSUME BlobInv, \/ \E s \in Shas, h \in Holders : Blob!Begin(s, h)
                  \/ \E k \in Blob!Slots : \/ Blob!Stat(k) \/ Blob!Create(k) \/ Blob!WriteBlob(k)
                                           \/ Blob!WriteFails(k) \/ Blob!Save(k)
  PROVE  BlobInv'
<1>n. Blob!NoWrite.step = "none" /\ Blob!Slots = BlobSlots
  BY BlobNames
<1>i. BlobTypes /\ WriteInv /\ ObjectInv /\ FoundInv
  BY DEF BlobInv
<1>s. \A k \in BlobSlots : write[k].step # "none" =>
        write[k] \in Writes /\ write[k].sha \in Shas /\ write[k].to \in Holders /\ write[k] # Blob!NoWrite
  <2> SUFFICES ASSUME NEW k \in BlobSlots, write[k].step # "none"
               PROVE  /\ write[k] \in Writes /\ write[k].sha \in Shas /\ write[k].to \in Holders
                      /\ write[k] # Blob!NoWrite
    OBVIOUS
  <2>1. write[k] \in Writes
    BY <1>i, <1>n DEF BlobTypes
  <2> QED BY <2>1, BlobNames DEF Writes
<1>1. ASSUME NEW s \in Shas, NEW h \in Holders, Blob!Begin(s, h) PROVE BlobInv'
  <2> DEFINE k == Blob!SlotOf(h)  w == [step |-> "stat", sha |-> s, to |-> h]
  <2>1. /\ UNCHANGED <<object, refs, gc, archive>> /\ write[k] = Blob!NoWrite
        /\ h \notin DatumHolders => archive.step # "objects"
        /\ write' = [write EXCEPT ![k] = w]
        /\ exposed' = IF gc.step = "idle" THEN exposed ELSE exposed \cup {s}
    BY <1>1 DEF Blob!Begin, Blob!Locked
  <2>2. k \in BlobSlots /\ (k = "storeOutput" <=> h \in DatumHolders)
    BY DEF Blob!SlotOf, BlobSlots
  <2>3. w \in Writes /\ w.step = "stat" /\ w.to = h /\ w.sha = s
    BY DEF Writes
  <2> HIDE DEF k, w
  <2>4. \A z \in Shas : ~Writing(k, z)
    BY <1>n, <2>1 DEF Writing
  <2>5. exposed \subseteq exposed' /\ exposed' \subseteq Shas
    BY <1>i, <2>1 DEF BlobTypes
  <2>6. k \in {"locked", "storeOutput"}
    BY <2>2 DEF BlobSlots
  <2> QED BY <1>i, <2>1, <2>2, <2>3, <2>4, <2>5, <2>6, BlobSlot DEF BlobTypes
<1>2. ASSUME NEW k \in BlobSlots, Blob!Stat(k) PROVE BlobInv'
  <2> DEFINE st == IF object[write[k].sha] = "absent" THEN "create" ELSE "save"
             w == [write[k] EXCEPT !.step = st]
  <2>1. /\ UNCHANGED <<object, refs, gc, archive, exposed>> /\ write[k].step = "stat"
        /\ write' = [write EXCEPT ![k] = w]
    BY <1>2 DEF Blob!Stat
  <2>2. write[k] \in Writes /\ write[k].sha \in Shas /\ write[k] # Blob!NoWrite
    BY <1>s, <2>1
  <2>3. w \in Writes /\ w.step = st /\ w.sha = write[k].sha /\ w.to = write[k].to
    BY <2>2 DEF Writes
  <2>4. st = "save" => Accounted(write[k].sha)
    <3>1. st = "save" => object[write[k].sha] \in {"short", "whole"}
      BY <1>i, <2>2 DEF BlobTypes
    <3> QED BY <1>i, <2>2, <3>1 DEF ObjectInv, Accounted
  <2>5. st \in {"create", "save"}
    OBVIOUS
  <2> HIDE DEF w, st
  <2>6. \A z \in Shas : ~Writing(k, z)
    BY <2>1 DEF Writing
  <2>7. /\ gc.step # "idle" => w.sha \in exposed
        /\ IF k = "locked" THEN archive.step # "objects" ELSE w.to \in DatumHolders
    BY <1>i, <2>2, <2>3 DEF WriteInv, BlobSlots
  <2> QED BY <1>i, <2>1, <2>3, <2>4, <2>5, <2>6, <2>7, BlobSlot DEF BlobTypes
<1>3. ASSUME NEW k \in BlobSlots, Blob!WriteBlob(k) PROVE BlobInv'
  <2> DEFINE w == [write[k] EXCEPT !.step = "save"]  z == write[k].sha
  <2>1. /\ UNCHANGED <<refs, gc, archive>> /\ write[k].step \in {"write", "behind"}
        /\ write' = [write EXCEPT ![k] = w]
        /\ IF write[k].step = "write"
             THEN /\ object' = [object EXCEPT ![z] = "whole"]
                  /\ exposed' = IF gc.step = "idle" THEN exposed \ {z} ELSE exposed
             ELSE UNCHANGED <<object, exposed>>
    BY <1>3 DEF Blob!WriteBlob
  <2>2. write[k] \in Writes /\ z \in Shas /\ write[k] # Blob!NoWrite
    BY <1>s, <2>1
  <2>3. w \in Writes /\ w.step = "save" /\ w.sha = z /\ w.to = write[k].to /\ w # Blob!NoWrite
    BY <2>2, BlobNames DEF Writes
  <2>4. \A s \in Shas : Writing(k, s) <=> write[k].step = "write" /\ s = z
    BY DEF Writing
  <2>5. /\ gc.step # "idle" => z \in exposed
        /\ IF k = "locked" THEN archive.step # "objects" ELSE w.to \in DatumHolders
    BY <1>i, <2>2, <2>3 DEF WriteInv, BlobSlots
  <2>6. write[k].step = "behind" => Accounted(z)
    BY <1>i, <2>2 DEF ObjectInv, Naming
  <2> HIDE DEF w, z
  <2>7. /\ object' \in [Shas -> {"absent", "short", "whole"}] /\ exposed' \subseteq Shas
        /\ \A s \in Shas : object'[s] = object[s] \/ (object'[s] = "whole" /\ Writing(k, s))
        /\ \A s \in Shas : Writing(k, s) => object'[s] = "whole"
        /\ \A s \in exposed : s \in exposed' \/ (object'[s] = "whole" /\ gc.step = "idle")
        /\ gc.step # "idle" => z \in exposed'
        /\ object'[z] = "whole" \/ Accounted(z)
    <3>1. CASE write[k].step = "write"
      BY <1>i, <2>1, <2>2, <2>4, <2>5, <3>1 DEF BlobTypes
    <3>2. CASE write[k].step = "behind"
      BY <1>i, <2>1, <2>2, <2>4, <2>5, <2>6, <3>2 DEF BlobTypes
    <3> QED BY <2>1, <3>1, <3>2
  <2>8. \A l \in BlobSlots \ {k} : \A s \in Shas : Writing(l, s) => ~Writing(k, s)
    BY <1>i DEF WriteInv
  <2>9. refs' \in [Holders -> SUBSET Shas]
    BY <1>i, <2>1 DEF BlobTypes
  <2> QED BY <2>1, <2>3, <2>5, <2>7, <2>8, <2>9, BlobSlot
<1>4. ASSUME NEW k \in BlobSlots, Blob!WriteFails(k) PROVE BlobInv'
  <2>1. /\ UNCHANGED <<object, refs, gc, archive>> /\ write[k].step \in {"create", "write", "behind"}
        /\ write' = [write EXCEPT ![k] = Blob!NoWrite]
        /\ exposed' = IF write[k].step = "write" THEN exposed \cup {write[k].sha} ELSE exposed
    BY <1>4 DEF Blob!WriteFails
  <2>2. write[k].sha \in Shas
    BY <1>s, <2>1
  <2>3. exposed \subseteq exposed' /\ exposed' \subseteq Shas
    BY <1>i, <2>1, <2>2 DEF BlobTypes
  <2>4. \A s \in Shas : Writing(k, s) => s \in exposed'
    BY <2>1 DEF Writing
  <2>5. \A l \in BlobSlots \ {k} : \A s \in Shas : Writing(l, s) => ~Writing(k, s)
    BY <1>i DEF WriteInv
  <2>6. refs' \in [Holders -> SUBSET Shas] /\ object' \in [Shas -> {"absent", "short", "whole"}]
    BY <1>i, <2>1 DEF BlobTypes
  <2> QED BY <1>n, <2>1, <2>3, <2>4, <2>5, <2>6, BlobSlot
<1>5. ASSUME NEW k \in BlobSlots, Blob!Save(k) PROVE BlobInv'
  <2> DEFINE z == write[k].sha  h == write[k].to
  <2>1. /\ UNCHANGED <<object, gc, archive, exposed>> /\ write[k].step = "save"
        /\ write' = [write EXCEPT ![k] = Blob!NoWrite]
    BY <1>5 DEF Blob!Save
  <2>2. write[k] \in Writes /\ z \in Shas /\ h \in Holders /\ write[k] # Blob!NoWrite
    BY <1>s, <2>1
  <2>3. PICK f \in SUBSET Shas : refs' = [refs EXCEPT ![h] = f] /\ f \subseteq refs[h] \cup {z}
    BY <1>5, <1>i, <2>2 DEF Blob!Save, BlobTypes
  <2>4. Accounted(z) /\ (gc.step # "idle" => z \in exposed)
    BY <1>i, <2>1, <2>2 DEF ObjectInv, WriteInv, Naming
  <2>5. archive.step = "objects" => h \in DatumHolders
    BY <1>i, <2>2 DEF WriteInv, BlobSlots
  <2> HIDE DEF z, h
  <2>6. /\ refs' \in [Holders -> SUBSET Shas] /\ refs'[h] = f
        /\ \A g \in Holders : g # h => refs'[g] = refs[g]
    BY <1>i, <2>2, <2>3 DEF BlobTypes
  <2>7. \A g \in Kept : g \in Holders /\ g \notin DatumHolders
    BY DEF Kept
  <2>8. \A g \in Kept : \A s \in refs'[g] :
          \/ s \in refs[g]
          \/ Accounted(s) /\ archive.step # "objects" /\ (gc.step # "idle" => s \in exposed')
    BY <2>1, <2>3, <2>4, <2>5, <2>6, <2>7
  <2>9. \A s \in Shas : ~Writing(k, s)
    BY <2>1 DEF Writing
  <2> QED BY <1>i, <1>n, <2>1, <2>6, <2>8, <2>9, BlobSlot DEF BlobTypes
<1>6. ASSUME NEW k \in BlobSlots, Blob!Create(k) PROVE BlobInv'
  <2> DEFINE z == write[k].sha  o == Blob!Overtaken(z, BlobSlots \ {k})
             w == [o[k] EXCEPT !.step = "write"]
  <2>1. /\ UNCHANGED <<refs, gc, archive, exposed>> /\ write[k].step = "create"
        /\ object' = [object EXCEPT ![z] = "short"]
    BY <1>6 DEF Blob!Create
  <2>2. write[k] \in Writes /\ z \in Shas /\ write[k] # Blob!NoWrite
    BY <1>s, <2>1
  <2>3. /\ o \in [BlobSlots -> Writes \cup {Blob!NoWrite}] /\ o[k] = write[k]
        /\ \A l \in BlobSlots \ {k} :
             IF Writing(l, z) THEN /\ o[l].step = "behind" /\ o[l].sha = z /\ o[l].to = write[l].to
                                   /\ o[l] \in Writes /\ write[l] \in Writes
                              ELSE o[l] = write[l]
    BY <1>i, <2>2, BlobOvertaken
  <2>4. w \in Writes /\ w.step = "write" /\ w.sha = z /\ w.to = write[k].to /\ w # Blob!NoWrite
    BY <2>2, <2>3, BlobNames DEF Writes
  <2>5. write' = [o EXCEPT ![k] = w]
    BY <1>6, <1>n DEF Blob!Create
  <2> HIDE DEF o, w
  <2>6. /\ write' \in [BlobSlots -> Writes \cup {Blob!NoWrite}] /\ write'[k] = w
        /\ \A l \in BlobSlots \ {k} : write'[l] = o[l]
    BY <2>3, <2>4, <2>5
  <2>7. ASSUME NEW l \in BlobSlots
        PROVE  /\ write'[l] # Blob!NoWrite =>
                    write[l] # Blob!NoWrite /\ write'[l].sha = write[l].sha /\ write'[l].to = write[l].to
               /\ write'[l] = Blob!NoWrite => write[l] = Blob!NoWrite
    <3>1. CASE l = k
      BY <2>2, <2>4, <2>6, <3>1
    <3>2. CASE l # k
      BY <2>3, <2>6, <3>2, BlobNames DEF Writing
    <3> QED BY <3>1, <3>2
  <2>8. /\ object' \in [Shas -> {"absent", "short", "whole"}] /\ object'[z] = "short"
        /\ \A s \in Shas \ {z} : object'[s] = object[s]
    BY <1>i, <2>1, <2>2 DEF BlobTypes
  <2>9. ASSUME NEW s \in Shas, Accounted(s) PROVE Accounted(s)'
    <3>1. CASE s = z
      BY <2>4, <2>6, <3>1 DEF Accounted, Writing
    <3>2. CASE s # z /\ \E l \in BlobSlots : Writing(l, s)
      <4>1. PICK l \in BlobSlots : Writing(l, s)
        BY <3>2
      <4>2. l # k /\ ~Writing(l, z)
        BY <2>1, <3>2, <4>1 DEF Writing
      <4>3. write'[l] = write[l]
        BY <2>3, <2>6, <4>2
      <4> QED BY <4>1, <4>3 DEF Accounted, Writing
    <3>3. CASE s # z /\ ~\E l \in BlobSlots : Writing(l, s)
      BY <2>1, <2>8, <2>9, <3>3 DEF Accounted
    <3> QED BY <3>1, <3>2, <3>3
  <2>10. BlobTypes'
    BY <1>i, <2>1, <2>6, <2>8 DEF BlobTypes
  <2>11. WriteInv'
    <3>1. \A l \in BlobSlots \ {k} : \A s \in Shas : Writing(l, s)' => Writing(l, s) /\ s # z
      BY <2>3, <2>6 DEF Writing
    <3>2. \A s \in Shas : Writing(k, s)' => s = z
      BY <2>4, <2>6 DEF Writing
    <3>3. \A l, m \in BlobSlots : \A s \in Shas : l # m /\ Writing(l, s)' => ~Writing(m, s)'
      BY <1>i, <3>1, <3>2 DEF WriteInv
    <3> QED BY <1>i, <2>1, <2>7, <3>3 DEF WriteInv, BlobSlots
  <2>12. ASSUME NEW s \in Shas, s = z PROVE Accounted(s)'
    BY <2>4, <2>6, <2>12 DEF Accounted, Writing
  <2>13. ObjectInv'
    <3>1. ASSUME NEW s \in Shas, object'[s] = "short" PROVE Accounted(s)'
      <4>1. CASE s = z
        BY <2>12, <4>1
      <4>2. CASE s # z
        BY <1>i, <2>8, <2>9, <3>1, <4>2 DEF ObjectInv
      <4> QED BY <4>1, <4>2
    <3>2. ASSUME NEW l \in BlobSlots, NEW s \in Shas, Writing(l, s)' PROVE object'[s] = "short"
      <4>1. CASE l = k
        BY <2>4, <2>6, <2>8, <3>2, <4>1 DEF Writing
      <4>2. CASE l # k
        <5>1. Writing(l, s) /\ s # z
          BY <2>3, <2>6, <3>2, <4>2 DEF Writing
        <5> QED BY <1>i, <2>8, <5>1 DEF ObjectInv
      <4> QED BY <4>1, <4>2
    <3>3. ASSUME NEW l \in BlobSlots, NEW s \in Shas, Naming(l, s)' PROVE Accounted(s)'
      <4>1. l # k /\ write'[l] = o[l]
        BY <2>4, <2>6, <3>3 DEF Naming
      <4>2. CASE s = z
        BY <2>12, <4>2
      <4>3. CASE s # z
        <5>1. write'[l] = write[l]
          BY <2>3, <3>3, <4>1, <4>3 DEF Naming
        <5>2. Accounted(s)
          BY <1>i, <3>3, <5>1 DEF ObjectInv, Naming
        <5> QED BY <2>9, <5>2
      <4> QED BY <4>2, <4>3
    <3> QED BY <3>1, <3>2, <3>3 DEF ObjectInv
  <2>14. FoundInv'
    <3>1. refs' \in [Holders -> SUBSET Shas]
      BY <2>1, <1>i DEF BlobTypes
    <3> QED BY <2>1, <2>9, <3>1, FoundKept
  <2> QED BY <2>10, <2>11, <2>13, <2>14 DEF BlobInv
<1> QED
  BY <1>1, <1>2, <1>3, <1>4, <1>5, <1>6, <1>n

(* What drops a reference, the jobs, a crash.                              *)
LEMMA BlobLosses ==
  ASSUME BlobInv, \/ \E h \in Holders : Blob!Drop(h)
                  \/ Blob!JobStarts \/ Blob!JobEnds \/ Blob!Crash
  PROVE  BlobInv'
<1>n. Blob!NoWrite.step = "none" /\ Blob!Slots = BlobSlots
  BY BlobNames
<1>i. BlobTypes /\ WriteInv /\ ObjectInv /\ FoundInv
  BY DEF BlobInv
<1>1. ASSUME NEW h \in Holders, Blob!Drop(h) PROVE BlobInv'
  <2>1. UNCHANGED <<object, write, gc, archive, exposed>> /\ refs' = [refs EXCEPT ![h] = {}]
    BY <1>1 DEF Blob!Drop
  <2>2. refs' \in [Holders -> SUBSET Shas] /\ \A g \in Holders : refs'[g] \subseteq refs[g]
    BY <1>i, <2>1 DEF BlobTypes
  <2>3. \A s \in Shas : Accounted(s) => Accounted(s)'
    BY <2>1 DEF Accounted, Writing
  <2>4. BlobTypes' /\ WriteInv' /\ ObjectInv'
    BY <1>i, <2>1, <2>2 DEF BlobTypes, WriteInv, ObjectInv, Accounted, Writing, Naming
  <2>5. \A g \in Kept : g \in Holders
    BY DEF Kept
  <2>6. FoundInv'
    BY <2>1, <2>2, <2>3, <2>5, FoundKept
  <2> QED
    BY <2>4, <2>6 DEF BlobInv
<1>2. CASE Blob!JobStarts \/ Blob!JobEnds
  <2>1. UNCHANGED <<object, refs, write, gc, archive, exposed>>
    BY <1>2 DEF Blob!JobStarts, Blob!JobEnds
  <2> QED
    BY <1>i, <2>1 DEF BlobInv, BlobTypes, WriteInv, ObjectInv, FoundInv, Accounted, Writing, Naming
<1>3. CASE Blob!Crash
  <2>1. /\ UNCHANGED <<object, refs>> /\ write' = [k \in BlobSlots |-> Blob!NoWrite]
        /\ gc' = [step |-> "idle", found |-> {}, left |-> {}]
        /\ \/ archive' = archive
           \/ archive' = [step |-> "none", whole |-> {}, refs |-> {}, doubtful |-> {}]
        /\ archive'.step # "objects"
        /\ exposed' = Blob!Doubtful \ Blob!Whole
    BY <1>3, <1>n DEF Blob!Crash, Blob!NoCollection, Blob!NoArchive
  <2>2. /\ exposed' \subseteq Shas
        /\ \A s \in Shas : Accounted(s) => object[s] = "whole" \/ s \in exposed'
    BY <1>i, <2>1, BlobDoubtful DEF Accounted
  <2>3. \A s \in Shas : Accounted(s) => Accounted(s)'
    BY <2>1, <2>2 DEF Accounted
  <2>4. BlobTypes'
    BY <1>i, <2>1, <2>2 DEF BlobTypes, Collections, Archives
  <2>5. WriteInv'
    BY <1>n, <2>1 DEF WriteInv, BlobSlots, Writing
  <2>6. ObjectInv'
    BY <1>i, <1>n, <2>1, <2>3 DEF ObjectInv, Writing, Naming
  <2>7. FoundInv'
    <3>1. \A h \in Kept : refs[h] \subseteq Shas
      BY <1>i DEF BlobTypes, Kept
    <3> QED BY <1>i, <2>1, <2>3, <3>1 DEF FoundInv
  <2> QED
    BY <2>4, <2>5, <2>6, <2>7 DEF BlobInv
<1> QED
  BY <1>1, <1>2, <1>3

(* The collection.                                                         *)
LEMMA BlobCollection ==
  ASSUME BlobInv, \/ Blob!Collect \/ Blob!MarkCommits \/ Blob!MarkTags \/ Blob!ReadObjects
                  \/ Blob!Collected \/ \E s \in Shas : Blob!Sweep(s)
  PROVE  BlobInv'
<1>n. Blob!NoWrite.step = "none" /\ Blob!Slots = BlobSlots
  BY BlobNames
<1>i. BlobTypes /\ WriteInv /\ ObjectInv /\ FoundInv
  BY DEF BlobInv
<1>k. \A h \in Kept : h \in Holders /\ h \notin DatumHolders /\ refs[h] \subseteq Shas
  BY <1>i DEF BlobTypes, Kept
<1>g. gc \in Collections
  BY <1>i DEF BlobTypes
<1>w. \A k \in BlobSlots : write[k] # Blob!NoWrite => write[k].sha \in Shas
  <2> SUFFICES ASSUME NEW k \in BlobSlots, write[k] # Blob!NoWrite PROVE write[k].sha \in Shas
    OBVIOUS
  <2>1. write[k] \in Writes
    BY <1>i DEF BlobTypes
  <2> QED BY <2>1 DEF Writes
<1>q. ASSUME UNCHANGED <<object, refs, write, archive>>, gc' \in Collections,
             exposed' \subseteq Shas,
             \A s \in exposed : s \in exposed' \/ object[s] = "whole",
             gc'.step # "idle" =>
               \A k \in BlobSlots : write[k] # Blob!NoWrite => write[k].sha \in exposed',
             gc'.step = "tags" => \A h \in Kept \ TagHolders : refs[h] \subseteq gc'.found \cup exposed',
             gc'.step \in {"objects", "sweep"} => \A h \in Kept : refs[h] \subseteq gc'.found \cup exposed'
      PROVE  BlobInv'
  <2>1. \A s \in Shas : Accounted(s) => Accounted(s)'
    BY <1>q DEF Accounted, Writing
  <2>2. BlobTypes'
    BY <1>i, <1>q DEF BlobTypes
  <2>3. ObjectInv'
    BY <1>i, <1>q, <2>1 DEF ObjectInv, Writing, Naming
  <2>4. WriteInv'
    BY <1>i, <1>q DEF WriteInv, Writing
  <2>5. FoundInv'
    BY <1>i, <1>k, <1>q, <2>1 DEF FoundInv
  <2> QED
    BY <2>2, <2>3, <2>4, <2>5 DEF BlobInv
<1>1. CASE Blob!Collect
  <2>1. /\ UNCHANGED <<object, refs, write, archive>>
        /\ exposed' = exposed \cup Blob!InFlight
        /\ gc' = [step |-> "commits", found |-> {}, left |-> {}]
    BY <1>1 DEF Blob!Collect, Blob!NoCollection
  <2>2. Blob!InFlight = {write[k].sha : k \in {l \in BlobSlots : write[l] # Blob!NoWrite}}
    BY <1>n DEF Blob!InFlight
  <2>3. Blob!InFlight \subseteq Shas /\ gc' \in Collections
    BY <1>w, <2>1, <2>2 DEF Collections
  <2>4. exposed' \subseteq Shas
    BY <1>i, <2>1, <2>3 DEF BlobTypes
  <2>5. \A k \in BlobSlots : write[k] # Blob!NoWrite => write[k].sha \in exposed'
    BY <2>1, <2>2
  <2> QED
    BY <1>q, <2>1, <2>3, <2>4, <2>5
<1>2. CASE Blob!MarkCommits
  <2> DEFINE f == UNION {refs[h] : h \in Kept \ TagHolders}
  <2>1. UNCHANGED <<object, refs, write, archive, exposed>> /\ gc.step = "commits"
    BY <1>2 DEF Blob!MarkCommits
  <2>2. Holders \ (TagHolders \cup DatumHolders) = Kept \ TagHolders
    BY DEF Kept
  <2>3. gc' = [gc EXCEPT !.step = "tags", !.found = f]
    BY <1>2, <2>2 DEF Blob!MarkCommits, Blob!Referenced
  <2>4. f \in SUBSET Shas /\ \A h \in Kept \ TagHolders : refs[h] \subseteq f
    BY <1>k
  <2> HIDE DEF f
  <2>5. gc' \in Collections /\ gc'.step = "tags" /\ gc'.found = f
    BY <1>g, <2>3, <2>4 DEF Collections
  <2> QED
    BY <1>i, <1>q, <2>1, <2>4, <2>5 DEF WriteInv, BlobTypes
<1>3. CASE Blob!MarkTags
  <2> DEFINE f == gc.found \cup UNION {refs[h] : h \in TagHolders}
  <2>1. UNCHANGED <<object, refs, write, archive, exposed>> /\ gc.step = "tags"
    BY <1>3 DEF Blob!MarkTags
  <2>2. gc' = [gc EXCEPT !.step = "objects", !.found = f]
    BY <1>3, <1>g DEF Blob!MarkTags, Blob!Referenced, Collections
  <2>3. f \in SUBSET Shas
    BY <1>i, FlowAssumption DEF BlobTypes, Collections
  <2>4. \A h \in Kept : refs[h] \subseteq f \cup exposed
    BY <1>i, <2>1 DEF FoundInv
  <2> HIDE DEF f
  <2>5. gc' \in Collections /\ gc'.step = "objects" /\ gc'.found = f
    BY <1>g, <2>2, <2>3 DEF Collections
  <2> QED
    BY <1>i, <1>q, <2>1, <2>4, <2>5 DEF WriteInv, BlobTypes
<1>4. CASE Blob!ReadObjects
  <2>1. /\ UNCHANGED <<object, refs, write, archive, exposed>> /\ gc.step = "objects"
        /\ \E l \in SUBSET Shas : gc' = [gc EXCEPT !.step = "sweep", !.left = l]
    BY <1>4 DEF Blob!ReadObjects
  <2>2. gc' \in Collections /\ gc'.step = "sweep" /\ gc'.found = gc.found
    BY <1>g, <2>1 DEF Collections
  <2> QED
    BY <1>i, <1>q, <2>1, <2>2 DEF WriteInv, FoundInv, BlobTypes
<1>5. CASE Blob!Collected
  <2>1. /\ UNCHANGED <<object, refs, write, archive>>
        /\ gc' = [step |-> "idle", found |-> {}, left |-> {}] /\ exposed' = exposed \ Blob!Whole
    BY <1>5 DEF Blob!Collected, Blob!NoCollection
  <2>2. gc' \in Collections /\ exposed' \subseteq Shas
    BY <1>i, <2>1 DEF Collections, BlobTypes
  <2>3. \A s \in exposed : s \in exposed' \/ object[s] = "whole"
    BY <2>1 DEF Blob!Whole
  <2> QED
    BY <1>q, <2>1, <2>2, <2>3
<1>6. ASSUME NEW s \in Shas, Blob!Sweep(s) PROVE BlobInv'
  <2>1. /\ UNCHANGED <<refs, archive, exposed>> /\ gc.step = "sweep"
        /\ IF s \in gc.found THEN UNCHANGED <<object, write>>
           ELSE /\ object' = [object EXCEPT ![s] = "absent"]
                /\ write' = Blob!Overtaken(s, BlobSlots)
        /\ \E l \in SUBSET Shas : gc' = [gc EXCEPT !.left = l]
    BY <1>6, <1>g, <1>n DEF Blob!Sweep, Collections
  <2>2. gc' \in Collections /\ gc'.step = "sweep" /\ gc'.found = gc.found
    BY <1>g, <2>1 DEF Collections
  <2>3. CASE s \in gc.found
    BY <1>i, <1>q, <2>1, <2>2, <2>3 DEF WriteInv, FoundInv, BlobTypes
  <2>4. CASE s \notin gc.found
    <3>1. /\ object' \in [Shas -> {"absent", "short", "whole"}] /\ object'[s] = "absent"
          /\ \A z \in Shas \ {s} : object'[z] = object[z]
      BY <1>i, <2>1, <2>4 DEF BlobTypes
    <3>2. /\ write' \in [BlobSlots -> Writes \cup {Blob!NoWrite}]
          /\ \A k \in BlobSlots :
               IF Writing(k, s) THEN /\ write'[k].step = "behind" /\ write'[k].sha = s
                                     /\ write'[k].to = write[k].to
                                     /\ write'[k] \in Writes /\ write[k] \in Writes
                                ELSE write'[k] = write[k]
      BY <1>i, <2>1, <2>4, BlobOvertaken
    <3>3. ASSUME NEW k \in BlobSlots
          PROVE  /\ write'[k] # Blob!NoWrite =>
                      /\ write[k] # Blob!NoWrite /\ write'[k].sha = write[k].sha
                      /\ write'[k].to = write[k].to /\ write'[k].sha \in exposed
                 /\ write'[k] = Blob!NoWrite => write[k] = Blob!NoWrite
      BY <1>i, <2>1, <3>2, BlobNames DEF Writing, WriteInv
    <3>4. ASSUME NEW z \in Shas, Accounted(z), z # s \/ s \in exposed PROVE Accounted(z)'
      <4>1. CASE z \in exposed
        BY <2>1, <4>1 DEF Accounted
      <4>2. CASE z # s /\ \E k \in BlobSlots : Writing(k, z)
        <5>1. PICK k \in BlobSlots : Writing(k, z)
          BY <4>2
        <5>2. ~Writing(k, s) /\ write'[k] = write[k]
          BY <3>2, <4>2, <5>1 DEF Writing
        <5> QED BY <5>1, <5>2 DEF Accounted, Writing
      <4>3. CASE z # s /\ object[z] = "whole"
        BY <3>1, <4>3 DEF Accounted
      <4> QED BY <3>4, <4>1, <4>2, <4>3 DEF Accounted
    <3>5. BlobTypes'
      BY <1>i, <2>1, <2>2, <3>1, <3>2 DEF BlobTypes
    <3>w. \A k \in BlobSlots : \A z \in Shas : Writing(k, z)' => Writing(k, z) /\ z # s
      BY <3>2 DEF Writing
    <3>6. WriteInv'
      <4>1. \A k, l \in BlobSlots : \A z \in Shas : k # l /\ Writing(k, z)' => ~Writing(l, z)'
        BY <1>i, <3>w DEF WriteInv
      <4> QED BY <1>i, <2>1, <3>3, <4>1 DEF WriteInv, BlobSlots
    <3>7. ObjectInv'
      <4>1. ASSUME NEW z \in Shas, object'[z] = "short" PROVE Accounted(z)'
        BY <1>i, <3>1, <3>4, <4>1 DEF ObjectInv
      <4>2. ASSUME NEW k \in BlobSlots, NEW z \in Shas, Writing(k, z)' PROVE object'[z] = "short"
        BY <1>i, <3>1, <3>w, <4>2 DEF ObjectInv
      <4>3. ASSUME NEW k \in BlobSlots, NEW z \in Shas, Naming(k, z)' PROVE Accounted(z)'
        <5>1. z \in exposed
          BY <1>n, <3>3, <4>3 DEF Naming
        <5> QED BY <2>1, <5>1 DEF Accounted
      <4> QED BY <4>1, <4>2, <4>3 DEF ObjectInv
    <3>8. FoundInv'
      <4>1. \A h \in Kept : \A z \in refs[h] : z # s \/ s \in exposed
        BY <1>i, <2>1, <2>4 DEF FoundInv
      <4>2. \A h \in Kept : \A z \in refs[h] : Accounted(z)'
        BY <1>i, <1>k, <3>4, <4>1 DEF FoundInv
      <4> QED BY <1>i, <2>1, <2>2, <4>2 DEF FoundInv
    <3> QED BY <3>5, <3>6, <3>7, <3>8 DEF BlobInv
  <2> QED BY <2>3, <2>4
<1> QED
  BY <1>1, <1>2, <1>3, <1>4, <1>5, <1>6

(* The backup.                                                             *)
LEMMA BlobBackup ==
  ASSUME BlobInv, Blob!BackupTar \/ Blob!TarRecords \/ Blob!Forget
  PROVE  BlobInv'
<1>i. BlobTypes /\ WriteInv /\ ObjectInv /\ FoundInv
  BY DEF BlobInv
<1>a. archive \in Archives
  BY <1>i DEF BlobTypes
<1>k. \A h \in Kept : refs[h] \subseteq Shas
  BY <1>i DEF BlobTypes, Kept
<1>q. ASSUME UNCHANGED <<object, refs, write, gc, exposed>>, archive' \in Archives,
             archive'.step = "objects" => write["locked"] = Blob!NoWrite,
             archive'.step = "objects" =>
               \A h \in Kept : refs[h] \subseteq archive'.whole \cup archive'.doubtful,
             archive'.step = "done" => archive'.refs \subseteq archive'.whole \cup archive'.doubtful
      PROVE  BlobInv'
  <2>1. BlobTypes' /\ ObjectInv'
    BY <1>i, <1>q DEF BlobTypes, ObjectInv, Accounted, Writing, Naming
  <2>2. WriteInv' /\ FoundInv'
    BY <1>i, <1>q DEF WriteInv, FoundInv, Accounted, Writing
  <2> QED
    BY <2>1, <2>2 DEF BlobInv
<1>1. CASE Blob!BackupTar
  <2> DEFINE w == Blob!Whole  d == Blob!Doubtful \ Blob!Whole
  <2>1. /\ UNCHANGED <<object, refs, write, gc, exposed>> /\ write["locked"] = Blob!NoWrite
        /\ archive' = [archive EXCEPT !.step = "objects", !.whole = w, !.doubtful = d]
    BY <1>1 DEF Blob!BackupTar, Blob!Locked
  <2>2. w \in SUBSET Shas /\ d \in SUBSET Shas /\ \A h \in Kept : refs[h] \subseteq w \cup d
    <3>1. w \subseteq Shas
      BY DEF Blob!Whole
    <3> QED BY <1>i, <1>k, <3>1, BlobDoubtful DEF FoundInv, Accounted
  <2> HIDE DEF w, d
  <2>3. archive' \in Archives /\ archive'.step = "objects" /\ archive'.whole = w /\ archive'.doubtful = d
    BY <1>a, <2>1, <2>2 DEF Archives
  <2> QED
    BY <1>q, <2>1, <2>2, <2>3
<1>2. CASE Blob!TarRecords
  <2> DEFINE f == UNION {refs[h] : h \in Kept}
  <2>1. /\ UNCHANGED <<object, refs, write, gc, exposed>> /\ archive.step = "objects"
        /\ archive' = [archive EXCEPT !.step = "done", !.refs = f]
    BY <1>2 DEF Blob!TarRecords, Blob!Referenced, Kept
  <2>2. f \in SUBSET Shas /\ f \subseteq archive.whole \cup archive.doubtful
    BY <1>i, <1>k, <2>1 DEF FoundInv
  <2> HIDE DEF f
  <2>3. /\ archive' \in Archives /\ archive'.step = "done" /\ archive'.refs = f
        /\ archive'.whole = archive.whole /\ archive'.doubtful = archive.doubtful
    BY <1>a, <2>1, <2>2 DEF Archives
  <2> QED
    BY <1>q, <2>1, <2>2, <2>3
<1>3. CASE Blob!Forget
  <2>1. /\ UNCHANGED <<object, refs, write, gc, exposed>>
        /\ archive' = [step |-> "none", whole |-> {}, refs |-> {}, doubtful |-> {}]
    BY <1>3 DEF Blob!Forget, Blob!NoArchive
  <2>2. archive' \in Archives
    BY <2>1 DEF Archives
  <2> QED
    BY <1>q, <2>1, <2>2
<1> QED
  BY <1>1, <1>2, <1>3

LEMMA BlobStep ==
  ASSUME BlobInv, [Blob!Next]_blobVars
  PROVE  BlobInv'
<1>1. CASE Blob!Next
  BY <1>1, BlobWrites, BlobLosses, BlobCollection, BlobBackup DEF Blob!Next
<1>2. CASE UNCHANGED blobVars
  BY <1>2 DEF blobVars, BlobInv, BlobTypes, WriteInv, ObjectInv, FoundInv, Accounted, Writing, Naming
<1> QED
  BY <1>1, <1>2

----------------------------------------------------------------------------
(* The start of the daemon.                                                *)

BootStates == {"none", "queued", "running", "success", "failure", "killed"}
BootRecs == [pipe : Daemon!Pipelines, state : BootStates]
Born(p) == \E j \in DOMAIN bootRec : j > born /\ bootRec[j].pipe = p

BootTypes ==
  /\ phase \in {"down", "prune", "mark", "respawn", "up", "draining"}
  /\ bootRec \in Seq(BootRecs) /\ live \subseteq DOMAIN bootRec
  /\ born \in Nat /\ born <= Len(bootRec)
  /\ pstate \in [Daemon!Pipelines -> {"running", "standby"}]

(* Goroutines and requests die with the process; from the visit of the     *)
(* records on, what is pending is on the list or has a goroutine, and what *)
(* has a container runs.                                                   *)
LifeInv ==
  /\ phase \in {"down", "prune", "mark"} => live = {}
  /\ phase \in {"down", "prune", "mark", "respawn"} => bootRequest = {}
  /\ phase = "mark" => todo \subseteq Nat \cup Standby
  /\ phase = "mark" => \A j \in DOMAIN bootRec : Daemon!Pending(j) => j \in todo
  /\ phase \in {"respawn", "up", "draining"} => \A j \in DOMAIN bootRec : Daemon!Pending(j) => j \in live
  /\ phase \notin {"down", "prune"} => \A j \in boxes : j \in live /\ bootRec[j].state = "running"

(* A background pipeline's record says running, always; those the start    *)
(* has visited, and that were not stopped, have a job of this life.        *)
BackInv ==
  /\ \A p \in Background : pstate[p] = "running"
  /\ phase = "respawn" => \A p \in Background \ (stopped \cup todo) : Born(p)
  /\ phase \in {"up", "draining"} => \A p \in Background \ (stopped \cup bootRequest) : Born(p)

BootInv == BootTypes /\ LifeInv /\ BackInv

LEMMA BootInitial == ASSUME Daemon!Init PROVE BootInv
<1>1. /\ phase = "down" /\ bootRec = <<>> /\ live = {} /\ born = 0 /\ bootRequest = {}
      /\ pstate = [p \in Daemon!Pipelines |-> IF p \in Standby THEN "standby" ELSE "running"]
  BY DEF Daemon!Init
<1>2. BootTypes
  BY <1>1 DEF BootTypes
<1>3. LifeInv
  BY <1>1 DEF LifeInv
<1>4. \A p \in Background : p \in Daemon!Pipelines /\ p \notin Standby
  BY FlowAssumption DEF Daemon!Pipelines
<1>5. BackInv
  BY <1>1, <1>4 DEF BackInv
<1> QED
  BY <1>2, <1>3, <1>5 DEF BootInv

LEMMA BootSound == BootInv => Daemon!NoDangling /\ Daemon!BackgroundBack
<1> SUFFICES ASSUME BootInv PROVE Daemon!NoDangling /\ Daemon!BackgroundBack
  OBVIOUS
<1>1. Daemon!NoDangling
  BY DEF BootInv, LifeInv, Daemon!NoDangling, Daemon!Serving, Daemon!Jobs
<1>2. Daemon!BackgroundBack
  BY DEF BootInv, BackInv, Born, Daemon!BackgroundBack, Daemon!Serving, Daemon!Jobs
<1> QED
  BY <1>1, <1>2

(* The record of a job changes its state; a job is added.                  *)
LEMMA StateChanges ==
  ASSUME BootTypes, NEW j \in DOMAIN bootRec, NEW st \in BootStates,
         bootRec' = [bootRec EXCEPT ![j].state = st]
  PROVE  /\ bootRec' \in Seq(BootRecs) /\ DOMAIN bootRec' = DOMAIN bootRec /\ Len(bootRec') = Len(bootRec)
         /\ bootRec'[j].state = st /\ \A k \in DOMAIN bootRec : k # j => bootRec'[k] = bootRec[k]
         /\ \A k \in DOMAIN bootRec : bootRec'[k].pipe = bootRec[k].pipe
<1>1. bootRec[j] \in BootRecs /\ bootRec \in Seq(BootRecs)
  BY DEF BootTypes
<1> DEFINE r == [bootRec[j] EXCEPT !.state = st]
<1>2. r \in BootRecs /\ r.state = st /\ r.pipe = bootRec[j].pipe
  BY <1>1 DEF BootRecs
<1>3. bootRec' = [bootRec EXCEPT ![j] = r]
  OBVIOUS
<1> HIDE DEF r
<1> QED
  BY <1>1, <1>2, <1>3

LEMMA JobAdded ==
  ASSUME BootTypes, NEW p \in Daemon!Pipelines, Daemon!Spawned(p)
  PROVE  /\ bootRec' \in Seq(BootRecs) /\ Len(bootRec') = Len(bootRec) + 1
         /\ DOMAIN bootRec \subseteq DOMAIN bootRec'
         /\ \A k \in DOMAIN bootRec : bootRec'[k] = bootRec[k]
         /\ \A k \in DOMAIN bootRec' \ DOMAIN bootRec : bootRec'[k].state = "none"
         /\ \E k \in DOMAIN bootRec' : k > born /\ bootRec'[k].pipe = p
         /\ live \subseteq live' /\ live' \subseteq DOMAIN bootRec'
<1> DEFINE r == [pipe |-> p, state |-> "none"]
<1>1. bootRec' = Append(bootRec, r) /\ live' = live \cup {Len(bootRec) + 1} /\ bootRec \in Seq(BootRecs)
  BY DEF Daemon!Spawned, BootTypes
<1>2. r \in BootRecs /\ r.state = "none" /\ r.pipe = p
  BY DEF BootRecs, BootStates
<1> HIDE DEF r
<1>3. /\ bootRec' \in Seq(BootRecs) /\ Len(bootRec') = Len(bootRec) + 1
      /\ \A k \in DOMAIN bootRec : k \in DOMAIN bootRec' /\ bootRec'[k] = bootRec[k]
      /\ Len(bootRec) + 1 \in DOMAIN bootRec' /\ bootRec'[Len(bootRec) + 1] = r
      /\ \A k \in DOMAIN bootRec' \ DOMAIN bootRec : k = Len(bootRec) + 1
  BY <1>1, <1>2
<1>4. Len(bootRec) + 1 > born
  BY <1>1 DEF BootTypes
<1> QED
  BY <1>1, <1>2, <1>3, <1>4 DEF BootTypes

(* The phases of the process.                                              *)
LEMMA BootPhases ==
  ASSUME BootInv, \/ Daemon!Boot \/ Daemon!pruneOrphans \/ Daemon!AllMarked \/ Daemon!Listen
                  \/ Daemon!Shutdown \/ Daemon!Exit \/ Daemon!Crash
  PROVE  BootInv'
<1>i. BootTypes /\ LifeInv /\ BackInv
  BY DEF BootInv
<1>j. DOMAIN bootRec \subseteq Nat /\ Len(bootRec) \in Nat
  BY <1>i DEF BootTypes
<1>1. CASE Daemon!Boot
  <2>1. /\ phase = "down" /\ phase' = "prune" /\ born' = Len(bootRec)
        /\ UNCHANGED <<bootRec, live, pstate, bootRequest>>
    BY <1>1 DEF Daemon!Boot
  <2>2. BootTypes' /\ LifeInv' /\ BackInv'
    BY <1>i, <1>j, <2>1 DEF BootTypes, LifeInv, BackInv
  <2> QED
    BY <2>2 DEF BootInv
<1>2. CASE Daemon!pruneOrphans
  <2>1. /\ phase = "prune" /\ phase' = "mark" /\ boxes' = {}
        /\ todo' = {j \in DOMAIN bootRec : bootRec[j].state # "none"}
        /\ UNCHANGED <<bootRec, live, born, pstate, bootRequest>>
    BY <1>2 DEF Daemon!pruneOrphans, Daemon!Jobs
  <2>2. \A j \in DOMAIN bootRec : Daemon!Pending(j)' => j \in todo'
    BY <2>1 DEF Daemon!Pending
  <2>3. BootTypes' /\ BackInv'
    BY <1>i, <2>1 DEF BootTypes, BackInv
  <2>4. LifeInv'
    BY <1>i, <1>j, <2>1, <2>2 DEF LifeInv
  <2> QED
    BY <2>3, <2>4 DEF BootInv
<1>3. CASE Daemon!AllMarked
  <2>1. /\ phase = "mark" /\ todo = {} /\ phase' = "respawn" /\ todo' = Daemon!Pipelines
        /\ UNCHANGED <<bootRec, live, born, boxes, pstate, bootRequest>>
    BY <1>3 DEF Daemon!AllMarked
  <2>2. \A j \in DOMAIN bootRec : ~Daemon!Pending(j)'
    BY <1>i, <2>1 DEF LifeInv, Daemon!Pending
  <2>3. Background \subseteq Daemon!Pipelines
    BY DEF Daemon!Pipelines
  <2>4. BootTypes' /\ BackInv'
    BY <1>i, <2>1, <2>3 DEF BootTypes, BackInv
  <2>5. LifeInv'
    BY <1>i, <2>1, <2>2 DEF LifeInv
  <2> QED
    BY <2>4, <2>5 DEF BootInv
<1>4. CASE Daemon!Listen \/ Daemon!Shutdown
  <2>1. /\ UNCHANGED <<todo, bootRec, live, born, boxes, pstate, stopped, bootRequest>>
        /\ \/ phase = "respawn" /\ todo = {} /\ phase' = "up"
           \/ phase = "up" /\ phase' = "draining"
    BY <1>4 DEF Daemon!Listen, Daemon!Shutdown
  <2>2. \A j \in DOMAIN bootRec : Daemon!Pending(j)' = Daemon!Pending(j)
    BY <2>1 DEF Daemon!Pending
  <2>3. \A p \in Background : Born(p)' <=> Born(p)
    BY <2>1 DEF Born
  <2>4. BootTypes'
    BY <1>i, <2>1 DEF BootTypes
  <2>5. LifeInv'
    BY <1>i, <2>1, <2>2 DEF LifeInv
  <2>6. BackInv'
    BY <1>i, <2>1, <2>3 DEF BackInv
  <2> QED
    BY <2>4, <2>5, <2>6 DEF BootInv
<1>5. CASE Daemon!Exit \/ Daemon!Crash
  <2>1. phase' = "down" /\ live' = {} /\ bootRequest' = {} /\ UNCHANGED <<bootRec, born, pstate>>
    BY <1>5 DEF Daemon!Exit, Daemon!Crash, Daemon!Die
  <2>2. BootTypes' /\ LifeInv' /\ BackInv'
    BY <1>i, <2>1 DEF BootTypes, LifeInv, BackInv
  <2> QED
    BY <2>2 DEF BootInv
<1> QED
  BY <1>1, <1>2, <1>3, <1>4, <1>5

(* The jobs, and the visit of their records at the start.                  *)
LEMMA BootRecords ==
  ASSUME BootInv, NEW j \in Daemon!Jobs,
         \/ Daemon!MarkStale(j) \/ Daemon!SaveQueued(j) \/ Daemon!RunJob(j) \/ Daemon!Settle(j)
         \/ Daemon!Unregister(j)
  PROVE  BootInv'
<1>i. BootTypes /\ LifeInv /\ BackInv
  BY DEF BootInv
<1>j. j \in DOMAIN bootRec /\ j \in Nat /\ bootRec[j] \in BootRecs
  BY <1>i DEF BootTypes, Daemon!Jobs
<1>s. ASSUME NEW st \in BootStates, bootRec' = [bootRec EXCEPT ![j].state = st],
             UNCHANGED <<phase, live, born, pstate, stopped, bootRequest>>
      PROVE  /\ BootTypes' /\ bootRec'[j].state = st
             /\ DOMAIN bootRec' = DOMAIN bootRec
             /\ \A k \in DOMAIN bootRec : k # j => bootRec'[k] = bootRec[k]
             /\ \A k \in DOMAIN bootRec : k # j => Daemon!Pending(k)' = Daemon!Pending(k)
             /\ Daemon!Pending(j)' <=> st \in {"queued", "running"}
             /\ todo' = todo => BackInv'
  <2>1. /\ bootRec' \in Seq(BootRecs) /\ DOMAIN bootRec' = DOMAIN bootRec /\ Len(bootRec') = Len(bootRec)
        /\ bootRec'[j].state = st /\ \A k \in DOMAIN bootRec : k # j => bootRec'[k] = bootRec[k]
        /\ \A k \in DOMAIN bootRec : bootRec'[k].pipe = bootRec[k].pipe
    BY <1>i, <1>j, <1>s, StateChanges
  <2>2. \A p \in Background : Born(p) => Born(p)'
    BY <1>s, <2>1 DEF Born
  <2>3. BootTypes'
    BY <1>i, <1>s, <2>1 DEF BootTypes
  <2>4. todo' = todo => BackInv'
    BY <1>i, <1>s, <2>2 DEF BackInv
  <2> QED
    BY <2>1, <2>3, <2>4 DEF Daemon!Pending
<1>1. CASE Daemon!MarkStale(j)
  <2>1. PICK st \in BootStates : /\ bootRec' = [bootRec EXCEPT ![j].state = st]
                                 /\ st \notin {"queued", "running"}
    <3>1. CASE Daemon!Stale(j)
      BY <1>1, <3>1 DEF Daemon!MarkStale, BootStates
    <3>2. CASE ~Daemon!Stale(j)
      <4>1. bootRec[j].state \in BootStates /\ bootRec[j].state \notin {"queued", "running"}
        BY <1>j, <3>2 DEF BootRecs, Daemon!Stale, Daemon!Pending
      <4>2. bootRec' = [bootRec EXCEPT ![j].state = bootRec[j].state]
        BY <1>1, <3>2, <1>j, <1>i DEF Daemon!MarkStale, BootTypes, BootRecs
      <4> QED
        BY <4>1, <4>2
    <3> QED
      BY <3>1, <3>2
  <2>2. /\ phase = "mark" /\ UNCHANGED <<phase, live, born, boxes, pstate, stopped, bootRequest>>
        /\ todo' \subseteq todo \cup Standby /\ \A k \in todo : k # j => k \in todo'
    BY <1>1 DEF Daemon!MarkStale
  <2>3. BootTypes' /\ DOMAIN bootRec' = DOMAIN bootRec /\ ~Daemon!Pending(j)'
        /\ \A k \in DOMAIN bootRec : k # j => Daemon!Pending(k)' = Daemon!Pending(k)
    BY <1>s, <2>1, <2>2
  <2>4. boxes = {}
    BY <1>i, <2>2 DEF LifeInv
  <2>5. LifeInv'
    BY <1>i, <2>2, <2>3, <2>4 DEF LifeInv
  <2>6. BackInv'
    BY <1>i, <2>2 DEF BackInv
  <2> QED
    BY <2>3, <2>5, <2>6 DEF BootInv
<1>2. CASE Daemon!SaveQueued(j) \/ Daemon!RunJob(j) \/ Daemon!Settle(j)
  <2>1. /\ j \in live /\ UNCHANGED <<phase, todo, live, born, pstate, stopped, bootRequest>>
        /\ \E st \in {"queued", "running", "killed", "success"} :
             /\ bootRec' = [bootRec EXCEPT ![j].state = st]
             /\ \/ boxes' = boxes /\ bootRec[j].state = "none"
                \/ boxes' = boxes \cup {j} /\ st = "running"
                \/ boxes' = boxes \ {j}
    BY <1>2 DEF Daemon!SaveQueued, Daemon!RunJob, Daemon!Settle
  <2>2. PICK st \in {"queued", "running", "killed", "success"} :
             /\ bootRec' = [bootRec EXCEPT ![j].state = st]
             /\ \/ boxes' = boxes /\ bootRec[j].state = "none"
                \/ boxes' = boxes \cup {j} /\ st = "running"
                \/ boxes' = boxes \ {j}
    BY <2>1
  <2>3. /\ BootTypes' /\ BackInv' /\ DOMAIN bootRec' = DOMAIN bootRec /\ bootRec'[j].state = st
        /\ \A k \in DOMAIN bootRec : k # j => bootRec'[k] = bootRec[k]
        /\ \A k \in DOMAIN bootRec : k # j => Daemon!Pending(k)' = Daemon!Pending(k)
    <3>1. st \in BootStates
      BY DEF BootStates
    <3> QED
      BY <1>s, <2>1, <2>2, <3>1
  <2>4. phase \notin {"down", "prune", "mark"} /\ live \subseteq DOMAIN bootRec
    BY <1>i, <2>1 DEF LifeInv, BootTypes
  <2>5. \A k \in boxes' : k \in live /\ bootRec'[k].state = "running"
    BY <1>i, <2>1, <2>2, <2>3, <2>4 DEF LifeInv
  <2>6. LifeInv'
    BY <1>i, <2>1, <2>3, <2>4, <2>5 DEF LifeInv, BootTypes
  <2> QED
    BY <2>3, <2>6 DEF BootInv
<1>3. CASE Daemon!Unregister(j)
  <2>1. /\ j \in live /\ ~Daemon!Pending(j) /\ live' = live \ {j}
        /\ UNCHANGED <<phase, todo, bootRec, born, boxes, stopped, bootRequest>>
        /\ pstate' = [p \in Daemon!Pipelines |->
             IF p \in Standby /\ p = bootRec[j].pipe /\ Daemon!Of(p) = {j} THEN "standby" ELSE pstate[p]]
    BY <1>3 DEF Daemon!Unregister
  <2>2. \A k \in DOMAIN bootRec : Daemon!Pending(k)' = Daemon!Pending(k)
    BY <2>1 DEF Daemon!Pending
  <2>3. \A p \in Background : p \in Daemon!Pipelines /\ p \notin Standby /\ (Born(p)' <=> Born(p))
    BY <2>1, FlowAssumption DEF Daemon!Pipelines, Born
  <2>4. bootRec[j].state # "running"
    BY <2>1 DEF Daemon!Pending
  <2>5. BootTypes'
    <3>1. pstate' \in [Daemon!Pipelines -> {"running", "standby"}]
      BY <1>i, <2>1 DEF BootTypes
    <3> QED
      BY <1>i, <2>1, <3>1 DEF BootTypes
  <2>6. LifeInv'
    BY <1>i, <2>1, <2>2, <2>4 DEF LifeInv
  <2>7. BackInv'
    BY <1>i, <2>1, <2>3 DEF BackInv
  <2> QED
    BY <2>5, <2>6, <2>7 DEF BootInv
<1> QED
  BY <1>1, <1>2, <1>3

(* The pipelines.                                                          *)
LEMMA BootPipelines ==
  ASSUME BootInv, NEW p \in Daemon!Pipelines,
         \/ Daemon!BackToStandby(p) \/ Daemon!Respawn(p) \/ Daemon!FinishInput(p) \/ Daemon!Wake(p)
         \/ Daemon!Trigger(p) \/ Daemon!StopPipeline(p) \/ Daemon!StartPipeline(p)
  PROVE  BootInv'
<1>i. BootTypes /\ LifeInv /\ BackInv
  BY DEF BootInv
<1>b. \A q \in Background : q \in Daemon!Pipelines /\ q \notin Standby
  BY FlowAssumption DEF Daemon!Pipelines
<1>p. p \notin Nat
  BY FlowAssumption DEF Daemon!Pipelines
<1>k. UNCHANGED bootRec => \A j \in DOMAIN bootRec : Daemon!Pending(j)' = Daemon!Pending(j)
  BY DEF Daemon!Pending
<1>o. UNCHANGED <<bootRec, born>> => \A q \in Background : Born(q)' <=> Born(q)
  BY DEF Born
<1>1. CASE Daemon!BackToStandby(p)
  <2>1. /\ phase = "mark" /\ p \in todo /\ todo' = todo \ {p}
        /\ UNCHANGED <<phase, bootRec, live, born, boxes, stopped, bootRequest>>
        /\ \E s \in {"running", "standby"} : pstate' = [pstate EXCEPT ![p] = s]
    <3>1. pstate[p] \in {"running", "standby"}
      BY <1>i DEF BootTypes
    <3> QED
      BY <1>1, <1>i, <3>1 DEF Daemon!BackToStandby, BootTypes
  <2>2. p \in Standby
    BY <1>i, <1>p, <2>1 DEF LifeInv
  <2>3. BootTypes'
    BY <1>i, <2>1 DEF BootTypes
  <2>4. LifeInv'
    <3>1. DOMAIN bootRec \subseteq Nat
      BY <1>i DEF BootTypes
    <3> QED
      BY <1>i, <1>k, <1>p, <2>1, <3>1 DEF LifeInv
  <2>5. BackInv'
    BY <1>i, <1>b, <2>1, <2>2 DEF BackInv, BootTypes
  <2> QED
    BY <2>3, <2>4, <2>5 DEF BootInv
<1>2. CASE Daemon!Respawn(p) \/ Daemon!Trigger(p)
  <2>1. UNCHANGED <<phase, born, boxes, pstate, stopped>>
    BY <1>2 DEF Daemon!Respawn, Daemon!Trigger
  <2>2. \/ /\ phase = "respawn" /\ todo' = todo \ {p} /\ bootRequest' = bootRequest
           /\ Daemon!Spawned(p) \/ (~Daemon!Respawns(p) /\ UNCHANGED <<bootRec, live>>)
        \/ /\ phase \in {"up", "draining"} /\ todo' = todo /\ bootRequest' = bootRequest \ {p}
           /\ Daemon!Spawned(p)
    BY <1>2 DEF Daemon!Respawn, Daemon!Trigger, Daemon!Serving
  <2>3. CASE Daemon!Spawned(p)
    <3>1. /\ bootRec' \in Seq(BootRecs) /\ Len(bootRec') = Len(bootRec) + 1
          /\ DOMAIN bootRec \subseteq DOMAIN bootRec'
          /\ \A k \in DOMAIN bootRec : bootRec'[k] = bootRec[k]
          /\ \A k \in DOMAIN bootRec' \ DOMAIN bootRec : bootRec'[k].state = "none"
          /\ \E k \in DOMAIN bootRec' : k > born /\ bootRec'[k].pipe = p
          /\ live \subseteq live' /\ live' \subseteq DOMAIN bootRec'
      BY <1>i, <2>3, JobAdded
    <3>2. BootTypes'
      <4>1. bootRec \in Seq(BootRecs) /\ Len(bootRec) \in Nat
        BY <1>i DEF BootTypes
      <4> QED
        BY <1>i, <2>1, <3>1, <4>1 DEF BootTypes
    <3>3. LifeInv'
      <4>1. \A k \in DOMAIN bootRec' : Daemon!Pending(k)' => k \in DOMAIN bootRec /\ Daemon!Pending(k)
        BY <3>1 DEF Daemon!Pending
      <4>2. \A k \in boxes : k \in DOMAIN bootRec /\ k \in live' /\ bootRec'[k].state = "running"
        BY <1>i, <2>2, <3>1 DEF LifeInv, BootTypes
      <4> QED
        BY <1>i, <2>1, <2>2, <3>1, <4>1, <4>2 DEF LifeInv
    <3>4. Born(p)' /\ \A q \in Background : Born(q) => Born(q)'
      BY <2>1, <3>1 DEF Born
    <3>5. BackInv'
      BY <1>i, <2>1, <2>2, <3>4 DEF BackInv
    <3> QED
      BY <3>2, <3>3, <3>5 DEF BootInv
  <2>4. CASE ~Daemon!Respawns(p) /\ UNCHANGED <<bootRec, live>> /\ phase = "respawn"
             /\ todo' = todo \ {p} /\ bootRequest' = bootRequest
    <3>1. p \in Background => p \in stopped
      BY <1>i, <2>4 DEF Daemon!Respawns, BackInv
    <3>2. BootTypes' /\ LifeInv'
      BY <1>i, <1>k, <2>1, <2>4 DEF BootTypes, LifeInv
    <3>3. BackInv'
      BY <1>i, <1>o, <2>1, <2>4, <3>1 DEF BackInv
    <3> QED
      BY <3>2, <3>3 DEF BootInv
  <2> QED
    BY <2>2, <2>3, <2>4
<1>3. CASE Daemon!Wake(p)
  <2>1. /\ phase \in {"up", "draining"} /\ p \in Standby /\ pstate' = [pstate EXCEPT ![p] = "running"]
        /\ UNCHANGED <<phase, todo, bootRec, live, born, boxes, stopped, bootRequest>>
    BY <1>3 DEF Daemon!Wake, Daemon!Serving
  <2>2. BootTypes' /\ LifeInv'
    BY <1>i, <1>k, <2>1 DEF BootTypes, LifeInv
  <2>3. BackInv'
    BY <1>i, <1>b, <1>o, <2>1 DEF BackInv, BootTypes
  <2> QED
    BY <2>2, <2>3 DEF BootInv
<1>4. CASE Daemon!FinishInput(p) \/ Daemon!StopPipeline(p) \/ Daemon!StartPipeline(p)
  <2>1. /\ phase \in {"up", "draining"}
        /\ UNCHANGED <<phase, todo, bootRec, live, born, boxes, pstate>>
        /\ stopped \cup bootRequest \subseteq stopped' \cup bootRequest'
    BY <1>4 DEF Daemon!FinishInput, Daemon!StopPipeline, Daemon!StartPipeline, Daemon!Serving
  <2>2. BootTypes' /\ LifeInv'
    BY <1>i, <1>k, <2>1 DEF BootTypes, LifeInv
  <2>3. BackInv'
    BY <1>i, <1>o, <2>1 DEF BackInv
  <2> QED
    BY <2>2, <2>3 DEF BootInv
<1> QED
  BY <1>1, <1>2, <1>3, <1>4

LEMMA BootStep ==
  ASSUME BootInv, [Daemon!Next]_bootVars
  PROVE  BootInv'
<1>1. CASE Daemon!Next
  BY <1>1, BootPhases, BootRecords, BootPipelines DEF Daemon!Next
<1>2. CASE UNCHANGED bootVars
  <2>1. /\ \A j \in DOMAIN bootRec : Daemon!Pending(j)' = Daemon!Pending(j)
        /\ \A p \in Background : Born(p)' <=> Born(p)
    BY <1>2 DEF bootVars, Daemon!Pending, Born
  <2> QED
    BY <1>2, <2>1 DEF bootVars, BootInv, BootTypes, LifeInv, BackInv
<1> QED
  BY <1>1, <1>2

----------------------------------------------------------------------------
(* The schedules.                                                          *)

ArmedFor(p, ins) ==
  \A r \in Cron!Repos \ contested : Cron!TicksIn(p, ins, r) # {} => ticker[r].owner = p
NoneOf(p) == \A r \in Cron!Repos : ticker[r].owner # p

CronTypes ==
  /\ ticker = [r \in Cron!Repos |-> ticker[r]]
  /\ \A r \in Cron!Repos : ticker[r] = Cron!Off \/ ticker[r].owner \in CronPipelines
  /\ cronRec \subseteq CronPipelines /\ boot \subseteq cronRec
  /\ declared = [p \in CronPipelines |-> declared[p]]
  /\ admin = [x \in CronAdmins |-> admin[x]]
  /\ \A x \in CronAdmins :
       \/ admin[x] = Cron!Idle
       \/ /\ boot = {}
          /\ \/ admin[x].step \in {"save", "remove"} /\ admin[x].pipe \in CronPipelines
             \/ admin[x].step = "wipe"

(* The tickers of a pipeline are armed when a request is about to save its *)
(* record, and none is left when one is about to remove it.                *)
SavesArmed(p) == \A x \in CronAdmins :
  admin[x].step = "save" /\ admin[x].pipe = p => ArmedFor(p, admin[x].ins)
RecordArmed(p) ==
  p \in cronRec \ boot /\ ~Cron!Removing(p) /\ ~Cron!Wiping => ArmedFor(p, declared[p])
GoneUnarmed(p) ==
  Cron!Removing(p) \/ Cron!Wiping \/ (p \notin cronRec /\ ~Cron!Saving(p)) => NoneOf(p)

TickerInv == \A p \in CronPipelines \ loose : SavesArmed(p) /\ RecordArmed(p) /\ GoneUnarmed(p)

CronInv == CronTypes /\ TickerInv

LEMMA CronRest ==
  /\ Cron!Idle.step = "idle" /\ Cron!Off.owner = "nobody"
  /\ \A p \in CronPipelines : Cron!Off.owner # p
BY FlowAssumption DEF Cron!Idle, Cron!Off, Cron!Nobody

LEMMA CronInitial == ASSUME Cron!Init PROVE CronInv
<1>1. /\ cronRec = {} /\ boot = {} /\ ticker = [r \in Cron!Repos |-> Cron!Off]
      /\ declared = [p \in CronPipelines |-> {}]
      /\ admin = [x \in CronAdmins |-> Cron!Idle]
  BY DEF Cron!Init
<1>2. \A x \in CronAdmins : admin[x].step = "idle"
  BY <1>1, CronRest
<1>3. CronTypes
  BY <1>1 DEF CronTypes
<1>4. TickerInv
  BY <1>1, <1>2, CronRest DEF TickerInv, SavesArmed, RecordArmed, GoneUnarmed, NoneOf
<1> QED
  BY <1>3, <1>4 DEF CronInv

LEMMA CronLive == CronInv => Cron!SchedulesLive
<1> SUFFICES ASSUME CronInv, boot = {}, NEW p \in CronPipelines \ loose, Cron!Quiet(p)
             PROVE  /\ p \in cronRec => ArmedFor(p, declared[p])
                    /\ p \notin cronRec => NoneOf(p)
  BY DEF Cron!SchedulesLive, ArmedFor, NoneOf
<1> QED
  BY DEF CronInv, TickerInv, RecordArmed, GoneUnarmed, Cron!Quiet

(* A request moves on, the others stay where they are.                     *)
LEMMA AdminMoves ==
  ASSUME CronTypes, NEW x \in CronAdmins, NEW e, admin' = [admin EXCEPT ![x] = e]
  PROVE  /\ admin' = [y \in CronAdmins |-> admin'[y]] /\ admin'[x] = e
         /\ \A y \in CronAdmins \ {x} : admin'[y] = admin[y]
BY DEF CronTypes

(* Arming the tickers of a pipeline takes none from another.               *)
LEMMA TickersStart ==
  ASSUME CronTypes, NEW p \in CronPipelines, NEW ins, Cron!startCronTicker(p, ins)
  PROVE  /\ ticker' = [r \in Cron!Repos |-> ticker'[r]]
         /\ \A r \in Cron!Repos : ticker'[r] = Cron!Off \/ ticker'[r].owner \in CronPipelines
         /\ ArmedFor(p, ins)'
         /\ \A q \in CronPipelines : \A i : ArmedFor(q, i) => ArmedFor(q, i)'
         /\ \A q \in CronPipelines \ {p} : NoneOf(q) => NoneOf(q)'
<1>1. /\ ticker' = [r \in Cron!Repos |-> ticker'[r]]
      /\ \A r \in Cron!Repos :
           IF ticker[r] = Cron!Off /\ Cron!TicksIn(p, ins, r) # {}
           THEN ticker'[r].owner = p ELSE ticker'[r] = ticker[r]
      /\ \A r \in Cron!Repos \ contested' :
           Cron!TicksIn(p, ins, r) # {} => ticker[r].owner \in {p, "nobody"}
      /\ contested \subseteq contested'
  BY DEF Cron!startCronTicker, Cron!Nobody
<1>2. \A r \in Cron!Repos : ticker[r].owner = "nobody" => ticker[r] = Cron!Off
  BY FlowAssumption DEF CronTypes
<1>3. ArmedFor(p, ins)'
  BY <1>1, <1>2 DEF ArmedFor, Cron!TicksIn
<1>4. \A q \in CronPipelines : \A i : ArmedFor(q, i) => ArmedFor(q, i)'
  BY <1>1, CronRest DEF ArmedFor, Cron!TicksIn
<1>5. \A q \in CronPipelines \ {p} : NoneOf(q) => NoneOf(q)'
  BY <1>1 DEF NoneOf
<1>6. \A r \in Cron!Repos : ticker'[r] = Cron!Off \/ ticker'[r].owner \in CronPipelines
  BY <1>1 DEF CronTypes
<1> QED
  BY <1>1, <1>3, <1>4, <1>5, <1>6

LEMMA CronApply ==
  ASSUME CronInv, NEW x \in CronAdmins, NEW p \in CronPipelines, NEW ins, Cron!Apply(x, p, ins)
  PROVE  CronInv'
<1> DEFINE e == [step |-> "save", pipe |-> p, ins |-> ins]
<1>1. /\ admin[x] = Cron!Idle /\ boot = {} /\ Cron!startCronTicker(p, ins)
      /\ admin' = [admin EXCEPT ![x] = e]
      /\ loose \subseteq loose' /\ (p \notin loose' => ~Cron!Removing(p) /\ ~Cron!Wiping)
      /\ UNCHANGED <<cronRec, declared, boot>>
  BY DEF Cron!Apply, Cron!Ask
<1>2. /\ admin' = [y \in CronAdmins |-> admin'[y]] /\ admin'[x] = e
      /\ \A y \in CronAdmins \ {x} : admin'[y] = admin[y]
  BY <1>1, AdminMoves DEF CronInv
<1>3. /\ admin[x].step = "idle"
      /\ admin'[x].step = "save" /\ admin'[x].pipe = p /\ admin'[x].ins = ins
  BY <1>1, <1>2, CronRest
<1>4. /\ \A q \in CronPipelines : Cron!Removing(q)' <=> Cron!Removing(q)
      /\ Cron!Wiping' <=> Cron!Wiping
      /\ \A q \in CronPipelines \ {p} : Cron!Saving(q)' <=> Cron!Saving(q)
      /\ Cron!Saving(p)'
  BY <1>2, <1>3 DEF Cron!Removing, Cron!Wiping, Cron!Saving
<1>5. CronTypes'
  BY <1>1, <1>2, <1>3, TickersStart DEF CronInv, CronTypes
<1>6. ASSUME NEW q \in CronPipelines \ loose' PROVE SavesArmed(q)' /\ RecordArmed(q)' /\ GoneUnarmed(q)'
  <2>1. SavesArmed(q) /\ RecordArmed(q) /\ GoneUnarmed(q)
    BY <1>1, <1>6 DEF CronInv, TickerInv
  <2>2. \A i : ArmedFor(q, i) => ArmedFor(q, i)'
    BY <1>1, TickersStart DEF CronInv
  <2>3. SavesArmed(q)'
    BY <1>1, <1>2, <1>3, <2>1, <2>2, TickersStart DEF CronInv, SavesArmed
  <2>4. RecordArmed(q)'
    BY <1>1, <1>4, <2>1, <2>2 DEF RecordArmed
  <2>5. GoneUnarmed(q)'
    BY <1>1, <1>4, <1>6, <2>1, TickersStart DEF CronInv, GoneUnarmed
  <2> QED
    BY <2>3, <2>4, <2>5
<1> QED
  BY <1>5, <1>6 DEF CronInv, TickerInv

(* A request that stops the tickers of some pipelines: of its own, or all. *)
LEMMA CronStops ==
  ASSUME CronInv, NEW x \in CronAdmins, NEW e, NEW P \in SUBSET CronPipelines,
         admin[x] = Cron!Idle, boot = {}, admin' = [admin EXCEPT ![x] = e],
         \/ e.step = "remove" /\ e.pipe \in CronPipelines /\ P = {e.pipe}
         \/ e.step = "wipe" /\ P = CronPipelines,
         ticker' = [r \in Cron!Repos |-> IF ticker[r].owner \in P THEN Cron!Off ELSE ticker[r]],
         loose' = loose \cup {p \in P : Cron!Saving(p)},
         UNCHANGED <<cronRec, declared, boot, contested>>
  PROVE  CronInv'
<1>1. /\ admin' = [y \in CronAdmins |-> admin'[y]] /\ admin'[x] = e
      /\ \A y \in CronAdmins \ {x} : admin'[y] = admin[y]
  BY AdminMoves DEF CronInv
<1>2. admin[x].step = "idle"
  BY CronRest
<1>3. /\ \A q \in CronPipelines : Cron!Saving(q)' <=> Cron!Saving(q)
      /\ \A q \in CronPipelines : Cron!Removing(q) => Cron!Removing(q)'
      /\ \A q \in CronPipelines \ P : Cron!Removing(q)' <=> Cron!Removing(q)
      /\ Cron!Wiping => Cron!Wiping'
      /\ P # CronPipelines => (Cron!Wiping' <=> Cron!Wiping)
      /\ \A q \in P : Cron!Removing(q)' \/ Cron!Wiping'
  BY <1>1, <1>2 DEF Cron!Removing, Cron!Wiping, Cron!Saving
<1>4. \A r \in Cron!Repos :
        /\ ticker[r].owner \notin P => ticker'[r] = ticker[r]
        /\ ticker[r].owner \in P => ticker'[r] = Cron!Off
  OBVIOUS
<1>5. \A q \in P : NoneOf(q)'
  BY <1>4, CronRest DEF NoneOf
<1>6. \A q \in CronPipelines : NoneOf(q) => NoneOf(q)'
  BY <1>4, CronRest DEF NoneOf
<1>7. \A q \in CronPipelines \ P : \A i : ArmedFor(q, i) => ArmedFor(q, i)'
  BY <1>4 DEF ArmedFor, Cron!TicksIn
<1>8. CronTypes'
  BY <1>1, <1>4 DEF CronInv, CronTypes
<1>9. ASSUME NEW q \in CronPipelines \ loose' PROVE SavesArmed(q)' /\ RecordArmed(q)' /\ GoneUnarmed(q)'
  <2>1. SavesArmed(q) /\ RecordArmed(q) /\ GoneUnarmed(q) /\ (q \in P => ~Cron!Saving(q))
    BY <1>9 DEF CronInv, TickerInv
  <2>2. SavesArmed(q)'
    <3>1. CASE q \in P
      BY <1>1, <1>3, <2>1, <3>1 DEF SavesArmed, Cron!Saving
    <3>2. CASE q \notin P
      BY <1>1, <1>7, <2>1, <3>2 DEF SavesArmed
    <3> QED
      BY <3>1, <3>2
  <2>3. RecordArmed(q)'
    BY <1>3, <1>7, <2>1 DEF RecordArmed
  <2>4. GoneUnarmed(q)'
    BY <1>3, <1>5, <1>6, <2>1 DEF GoneUnarmed
  <2> QED
    BY <2>2, <2>3, <2>4
<1> QED
  BY <1>8, <1>9 DEF CronInv, TickerInv

(* A request comes to its end: the record is saved or removed, or neither  *)
(* can be done, or all records are wiped.                                  *)
LEMMA CronEnds ==
  ASSUME CronInv, NEW x \in CronAdmins,
         Cron!Save(x) \/ Cron!Remove(x) \/ Cron!RecordFails(x) \/ Cron!Wipe(x)
  PROVE  CronInv'
<1>1. /\ admin' = [admin EXCEPT ![x] = Cron!Idle] /\ loose \subseteq loose'
      /\ UNCHANGED <<ticker, boot, contested>>
      /\ admin[x].step # "idle"
  BY DEF Cron!Save, Cron!Remove, Cron!RecordFails, Cron!Wipe, Cron!Done
<1>2. /\ admin' = [y \in CronAdmins |-> admin'[y]] /\ admin'[x] = Cron!Idle
      /\ \A y \in CronAdmins \ {x} : admin'[y] = admin[y]
  BY <1>1, AdminMoves DEF CronInv
<1>3. boot = {} /\ admin'[x].step = "idle"
  BY <1>1, <1>2, CronRest DEF CronInv, CronTypes
<1>4. /\ \A q \in CronPipelines : Cron!Saving(q)' => Cron!Saving(q)
      /\ \A q \in CronPipelines : Cron!Removing(q)' => Cron!Removing(q)
      /\ Cron!Wiping' => Cron!Wiping
      /\ \A q \in CronPipelines : Cron!Saving(q) => \/ Cron!Saving(q)'
                                                    \/ admin[x].step = "save" /\ admin[x].pipe = q
      /\ \A q \in CronPipelines : Cron!Removing(q) => \/ Cron!Removing(q)'
                                                      \/ admin[x].step = "remove" /\ admin[x].pipe = q
      /\ Cron!Wiping => Cron!Wiping' \/ admin[x].step = "wipe"
  BY <1>2, <1>3 DEF Cron!Removing, Cron!Wiping, Cron!Saving
<1>5. \A q \in CronPipelines : /\ NoneOf(q)' <=> NoneOf(q)
                               /\ \A i : ArmedFor(q, i)' <=> ArmedFor(q, i)
  BY <1>1 DEF NoneOf, ArmedFor, Cron!TicksIn
<1>6. \/ /\ admin[x].step = "save" /\ admin[x].pipe \in CronPipelines
         /\ cronRec' = cronRec \cup {admin[x].pipe}
         /\ declared' = [declared EXCEPT ![admin[x].pipe] = admin[x].ins]
      \/ /\ admin[x].step = "remove" /\ admin[x].pipe \in CronPipelines
         /\ cronRec' = cronRec \ {admin[x].pipe}
         /\ declared' = [declared EXCEPT ![admin[x].pipe] = {}]
      \/ /\ admin[x].step \in {"save", "remove"} /\ admin[x].pipe \in CronPipelines
         /\ admin[x].pipe \in loose' /\ UNCHANGED <<cronRec, declared>>
      \/ /\ admin[x].step = "wipe"
         /\ cronRec' = {} /\ declared' = [p \in CronPipelines |-> {}]
  BY <1>1, CronRest DEF CronInv, CronTypes, Cron!Save, Cron!Remove, Cron!RecordFails, Cron!Wipe
<1>7. CronTypes'
  <2>1. cronRec' \subseteq CronPipelines /\ declared' = [p \in CronPipelines |-> declared'[p]]
    BY <1>6 DEF CronInv, CronTypes
  <2>2. boot' \subseteq cronRec'
    BY <1>1, <1>3
  <2> QED
    BY <1>1, <1>2, <1>3, <2>1, <2>2 DEF CronInv, CronTypes
<1>8. ASSUME NEW q \in CronPipelines \ loose' PROVE SavesArmed(q)' /\ RecordArmed(q)' /\ GoneUnarmed(q)'
  <2>1. SavesArmed(q) /\ RecordArmed(q) /\ GoneUnarmed(q)
    BY <1>1, <1>8 DEF CronInv, TickerInv
  <2>2. SavesArmed(q)'
    BY <1>2, <1>3, <1>5, <2>1 DEF SavesArmed
  <2>3. CASE admin[x].step = "save" /\ admin[x].pipe = q
    <3>1. q \in cronRec' /\ declared'[q] = admin[x].ins
      BY <1>6, <1>8, <2>3 DEF CronInv, CronTypes
    <3>2. ArmedFor(q, admin[x].ins)
      BY <2>1, <2>3 DEF SavesArmed
    <3>3. RecordArmed(q)'
      BY <1>5, <3>1, <3>2 DEF RecordArmed
    <3>4. GoneUnarmed(q)'
      BY <1>4, <1>5, <2>1, <3>1 DEF GoneUnarmed
    <3> QED
      BY <2>2, <3>3, <3>4
  <2>4. CASE \/ admin[x].step = "remove" /\ admin[x].pipe = q
             \/ admin[x].step = "wipe"
    <3>1. q \notin cronRec'
      BY <1>6, <1>8, <2>4
    <3>2. NoneOf(q)
      BY <2>1, <2>4 DEF GoneUnarmed, Cron!Removing, Cron!Wiping
    <3> QED
      BY <1>5, <2>2, <3>1, <3>2 DEF RecordArmed, GoneUnarmed
  <2>5. CASE admin[x].step \in {"save", "remove"} /\ admin[x].pipe # q
    <3>1. (q \in cronRec' <=> q \in cronRec) /\ declared'[q] = declared[q]
      BY <1>6, <2>5 DEF CronInv, CronTypes
    <3>2. /\ Cron!Saving(q)' <=> Cron!Saving(q)
          /\ Cron!Removing(q)' <=> Cron!Removing(q)
          /\ Cron!Wiping' <=> Cron!Wiping
      BY <1>4, <2>5
    <3> QED
      BY <1>1, <1>5, <2>1, <2>2, <3>1, <3>2 DEF RecordArmed, GoneUnarmed
  <2> QED
    BY <1>6, <2>3, <2>4, <2>5
<1> QED
  BY <1>7, <1>8 DEF CronInv, TickerInv

(* The daemon starts again, and goes through the records it finds.         *)
LEMMA CronBoot ==
  ASSUME CronInv, Cron!Restart \/ \E p \in CronPipelines : Cron!restartCronTickers(p)
  PROVE  CronInv'
<1>1. CASE Cron!Restart
  <2>1. /\ ticker' = [r \in Cron!Repos |-> Cron!Off] /\ boot' = cronRec'
        /\ admin' = [y \in CronAdmins |-> Cron!Idle]
        /\ UNCHANGED <<cronRec, declared>>
    BY <1>1 DEF Cron!Restart
  <2>2. \A y \in CronAdmins : admin'[y].step = "idle"
    BY <2>1, CronRest
  <2>3. CronTypes'
    BY <2>1 DEF CronInv, CronTypes
  <2>4. \A q \in CronPipelines : NoneOf(q)'
    BY <2>1, CronRest DEF NoneOf
  <2>5. TickerInv'
    BY <2>1, <2>2, <2>4 DEF TickerInv, SavesArmed, RecordArmed, GoneUnarmed
  <2> QED
    BY <2>3, <2>5 DEF CronInv
<1>2. ASSUME NEW p \in CronPipelines, Cron!restartCronTickers(p) PROVE CronInv'
  <2>1. /\ p \in boot /\ boot' = boot \ {p} /\ UNCHANGED <<cronRec, declared, admin, loose>>
        /\ Cron!startCronTicker(p, declared[p])
    BY <1>2 DEF Cron!restartCronTickers
  <2>2. \A y \in CronAdmins : admin[y].step = "idle"
    BY <2>1, CronRest DEF CronInv, CronTypes
  <2>3. p \in cronRec
    BY <2>1 DEF CronInv, CronTypes
  <2>4. CronTypes'
    BY <2>1, <2>2, TickersStart DEF CronInv, CronTypes
  <2>5. ASSUME NEW q \in CronPipelines \ loose PROVE RecordArmed(q)' /\ GoneUnarmed(q)'
    <3>1. RecordArmed(q) /\ GoneUnarmed(q)
      BY <2>5 DEF CronInv, TickerInv
    <3>2. ~Cron!Saving(q) /\ ~Cron!Removing(q) /\ ~Cron!Wiping
      BY <2>2 DEF Cron!Saving, Cron!Removing, Cron!Wiping
    <3>3. RecordArmed(q)'
      BY <2>1, <3>1, <3>2, TickersStart DEF CronInv, RecordArmed
    <3>4. GoneUnarmed(q)'
      BY <2>1, <2>3, <3>1, <3>2, TickersStart
      DEF CronInv, GoneUnarmed, Cron!Saving, Cron!Removing, Cron!Wiping
    <3> QED
      BY <3>3, <3>4
  <2>6. TickerInv'
    BY <2>1, <2>2, <2>5 DEF TickerInv, SavesArmed
  <2> QED
    BY <2>4, <2>6 DEF CronInv
<1> QED
  BY <1>1, <1>2

LEMMA CronStep == ASSUME CronInv, [Cron!Next]_cronVars PROVE CronInv'
<1>1. ASSUME NEW x \in CronAdmins, NEW p \in CronPipelines, Cron!Delete(x, p) PROVE CronInv'
  <2> DEFINE e == [step |-> "remove", pipe |-> p, ins |-> {}]
  <2>1. /\ admin[x] = Cron!Idle /\ boot = {} /\ admin' = [admin EXCEPT ![x] = e]
        /\ ticker' = [r \in Cron!Repos |-> IF ticker[r].owner = p THEN Cron!Off ELSE ticker[r]]
        /\ loose' = loose \cup {q \in {p} : Cron!Saving(q)}
        /\ UNCHANGED <<cronRec, declared, boot, contested>>
    BY <1>1 DEF Cron!Delete, Cron!Ask, Cron!Owns
  <2>2. e.step = "remove" /\ e.pipe = p /\ {p} \in SUBSET CronPipelines
    OBVIOUS
  <2>3. ticker' = [r \in Cron!Repos |-> IF ticker[r].owner \in {p} THEN Cron!Off ELSE ticker[r]]
    BY <2>1
  <2> HIDE DEF e
  <2> QED
    BY <2>1, <2>2, <2>3, CronStops
<1>2. ASSUME NEW x \in CronAdmins, Cron!stopAllCronTickers(x) PROVE CronInv'
  <2> DEFINE e == [step |-> "wipe", pipe |-> "nobody", ins |-> {}]
  <2>1. /\ admin[x] = Cron!Idle /\ boot = {} /\ admin' = [admin EXCEPT ![x] = e]
        /\ ticker' = [r \in Cron!Repos |-> Cron!Off]
        /\ loose' = loose \cup {q \in CronPipelines : Cron!Saving(q)}
        /\ UNCHANGED <<cronRec, declared, boot, contested>>
    BY <1>2 DEF Cron!stopAllCronTickers, Cron!Ask, Cron!Nobody
  <2>2. e.step = "wipe"
    OBVIOUS
  <2>3. ticker' = [r \in Cron!Repos |->
                     IF ticker[r].owner \in CronPipelines THEN Cron!Off ELSE ticker[r]]
    BY <2>1 DEF CronInv, CronTypes
  <2> HIDE DEF e
  <2> QED
    BY <2>1, <2>2, <2>3, CronStops
<1>3. CASE \/ \E r \in Cron!Repos : Cron!cronTick(r)
           \/ \E p \in CronPipelines : Cron!triggerCron(p)
           \/ UNCHANGED cronVars
  <2>1. UNCHANGED <<cronRec, declared, ticker, admin, boot, contested, loose>>
    BY <1>3 DEF Cron!cronTick, Cron!triggerCron, cronVars
  <2> QED
    BY <2>1 DEF CronInv, CronTypes, TickerInv, SavesArmed, RecordArmed, GoneUnarmed, ArmedFor,
                NoneOf, Cron!Saving, Cron!Removing, Cron!Wiping, Cron!TicksIn
<1> QED
  BY <1>1, <1>2, <1>3, CronApply, CronEnds, CronBoot DEF Cron!Next

----------------------------------------------------------------------------
(* Pairings of heads and the jobs that work on them.                       *)

Live(j) == j.state \in {"queued", "running"}

(* A job is live until it has published, and the heads it took late are of *)
(* a side that the rest of its inputs does not cover: a job that gives     *)
(* them up has an incomplete pairing.                                      *)
JobSound(j) ==
  /\ j.step \in {"spawned", "queued"} => j.state = "queued"
  /\ j.step \in {"running", "resolved", "checked"} => j.state = "running"
  /\ j.step \in {"spawned", "queued", "running", "resolved", "checked"} => j.out = 0
  /\ j.step = "published" => j.out # 0
  /\ j.step = "resolved" =>
       \E c \in j.late : /\ c.repo \in SideSet(j.pipeline)
                         /\ \A d \in j.inputs \ j.late : d.repo # c.repo

PairInv ==
  /\ TypeOK
  /\ \A i \in DOMAIN jobs : JobSound(jobs[i])
  /\ OneLivePairing

LEMMA PairInitial == ASSUME Init PROVE PairInv
<1>1. DOMAIN jobs = {} /\ jobs \in Seq(JobRecords)
  BY DEF Init
<1> QED
  BY <1>1 DEF Init, PairInv, TypeOK, OneLivePairing

LEMMA JobTyped ==
  ASSUME TypeOK, NEW i \in DOMAIN jobs
  PROVE  jobs[i] \in JobRecords /\ i \in 1 .. Len(jobs)
BY DEF TypeOK

(* Steps that make no job live, take up no input and leave the jobs that   *)
(* are to check their siblings alone keep the pairings apart.              *)
LEMMA Calm ==
  ASSUME OneLivePairing, DOMAIN jobs' = DOMAIN jobs,
         \A i \in DOMAIN jobs :
           Live(jobs'[i]) =>
             /\ Live(jobs[i])
             /\ jobs'[i].pipeline = jobs[i].pipeline /\ jobs'[i].inputs = jobs[i].inputs
             /\ jobs[i].step = "resolved" => jobs'[i].step = "resolved"
  PROVE  OneLivePairing'
<1> SUFFICES ASSUME NEW i \in DOMAIN jobs, NEW k \in DOMAIN jobs,
                    i # k, jobs'[i].pipeline = jobs'[k].pipeline,
                    Full(i)', jobs'[i].inputs = jobs'[k].inputs,
                    Live(jobs'[i]), Live(jobs'[k])
             PROVE  jobs'[i].step = "resolved" \/ jobs'[k].step = "resolved"
  BY DEF OneLivePairing, Live
<1>1. /\ jobs[i].pipeline = jobs[k].pipeline /\ jobs[i].inputs = jobs[k].inputs
      /\ Live(jobs[i]) /\ Live(jobs[k])
  OBVIOUS
<1>2. Full(i)
  BY DEF Full
<1> QED
  BY <1>1, <1>2 DEF OneLivePairing, Live

(* One record changes.                                                     *)
LEMMA JobChanges ==
  ASSUME TypeOK, NEW i \in DOMAIN jobs, NEW r \in JobRecords, jobs' = [jobs EXCEPT ![i] = r]
  PROVE  /\ jobs' \in Seq(JobRecords) /\ DOMAIN jobs' = DOMAIN jobs
         /\ jobs'[i] = r /\ \A k \in DOMAIN jobs \ {i} : jobs'[k] = jobs[k]
BY DEF TypeOK

(* One record changes, and is not more alive than it was.                  *)
LEMMA JobMoves ==
  ASSUME PairInv, NEW i \in DOMAIN jobs, NEW r \in JobRecords, jobs' = [jobs EXCEPT ![i] = r],
         JobSound(r), Live(r) => /\ Live(jobs[i]) /\ jobs[i].step # "resolved"
                                 /\ r.pipeline = jobs[i].pipeline /\ r.inputs = jobs[i].inputs
  PROVE  /\ jobs' \in Seq(JobRecords)
         /\ (\A k \in DOMAIN jobs : JobSound(jobs[k]))'
         /\ OneLivePairing'
<1>1. /\ jobs' \in Seq(JobRecords) /\ DOMAIN jobs' = DOMAIN jobs
      /\ jobs'[i] = r /\ \A k \in DOMAIN jobs \ {i} : jobs'[k] = jobs[k]
  BY JobChanges DEF PairInv
<1>2. \A k \in DOMAIN jobs' : JobSound(jobs'[k])
  BY <1>1 DEF PairInv
<1>3. (\A k \in DOMAIN jobs : JobSound(jobs[k]))'
  BY <1>2 DEF JobSound
<1>4. OneLivePairing'
  BY <1>1, Calm DEF PairInv
<1> QED
  BY <1>1, <1>3, <1>4

LEMMA TriggerAdded ==
  ASSUME NEW c \in Commits
  PROVE  NewTrigger(c) \in [commit : Commits, todo : SUBSET DOMAIN PipelineList, pair : Seq(Nat)]
BY DEF NewTrigger, Consumers

TrigRecords == [commit : Commits, todo : SUBSET DOMAIN PipelineList, pair : Seq(Nat)]

LEMMA PairTriggers ==
  ASSUME PairInv, \/ \E s \in Sources : ClientCommit(s)
                  \/ \E t \in trigs : Return(t) \/ \E k \in t.todo : ReadSide(t, k)
  PROVE  PairInv'
<1> USE DagAssumption
<1>t. /\ head \in [Repos -> Nat] /\ jobs \in Seq(JobRecords)
      /\ \A t \in trigs : t \in TrigRecords
  BY DEF PairInv, TypeOK, TrigRecords
<1>u. ASSUME UNCHANGED <<jobs, gate>>, crossed' \subseteq Sources,
             head' \in [Repos -> Nat], \A t \in trigs' : t \in TrigRecords
      PROVE  PairInv'
  <2>1. OneLivePairing'
    BY <1>u DEF PairInv, OneLivePairing, Full
  <2>2. TypeOK'
    BY <1>u, <1>t DEF PairInv, TypeOK, TrigRecords
  <2> QED
    BY <1>u, <2>1, <2>2 DEF PairInv, JobSound
<1>1. ASSUME NEW s \in Sources, ClientCommit(s) PROVE PairInv'
  <2>1. PICK n \in Nat : n = head[s] + 1
    BY <1>t DEF Repos
  <2>2. Commit(s, n) \in Commits
    BY <2>1, <1>t DEF Commit, Commits, Repos
  <2>3. NewTrigger(Commit(s, n)) \in TrigRecords
    BY <2>2, TriggerAdded DEF TrigRecords
  <2>4. /\ head' \in [Repos -> Nat] /\ UNCHANGED <<jobs, gate>>
        /\ trigs' = trigs \cup {NewTrigger(Commit(s, n))}
    BY <1>1, <1>t, <2>1 DEF ClientCommit, Repos
  <2>5. crossed' \subseteq Sources
    BY <1>1 DEF ClientCommit, PairInv, TypeOK
  <2> QED
    BY <1>t, <1>u, <2>3, <2>4, <2>5
<1>2. ASSUME NEW t \in trigs, NEW k \in t.todo, ReadSide(t, k) PROVE PairInv'
  <2> DEFINE sides == Sides[PipelineList[k]]
  <2>1. k \in DOMAIN PipelineList /\ t \in TrigRecords
    BY <1>t DEF TrigRecords
  <2>2. sides \in Seq(Repos)
    BY <2>1 DEF Pipelines, ToSet
  <2>3. Len(t.pair) < Len(sides) /\ t.pair \in Seq(Nat)
    BY <1>2, <2>1 DEF ReadSide, TrigRecords
  <2>4. head[sides[Len(t.pair) + 1]] \in Nat
    BY <2>2, <2>3, <1>t
  <2>5. Append(t.pair, head[sides[Len(t.pair) + 1]]) \in Seq(Nat)
    BY <2>3, <2>4
  <2>6. [t EXCEPT !.pair = Append(t.pair, head[sides[Len(t.pair) + 1]])] \in TrigRecords
    BY <2>1, <2>5 DEF TrigRecords
  <2>7. /\ UNCHANGED <<head, jobs, gate, crossed>>
        /\ trigs' = (trigs \ {t})
             \cup {[t EXCEPT !.pair = Append(t.pair, head[sides[Len(t.pair) + 1]])]}
    BY <1>2 DEF ReadSide
  <2> QED
    BY <1>t, <1>u, <2>6, <2>7 DEF PairInv, TypeOK
<1>3. ASSUME NEW t \in trigs, Return(t) PROVE PairInv'
  <2>1. /\ head' = head /\ trigs' = trigs \ {t} /\ UNCHANGED <<gate, crossed>>
        /\ DOMAIN jobs' = DOMAIN jobs
        /\ \A i \in DOMAIN jobs : jobs'[i] = IF i \in Producers(t.commit)
                                               THEN [jobs[i] EXCEPT !.step = "done"] ELSE jobs[i]
    BY <1>3 DEF Return
  <2>2. t.commit.n \in Nat \ {0}
    BY <1>t DEF TrigRecords, Commits
  <2>3. ASSUME NEW i \in DOMAIN jobs
        PROVE  /\ jobs'[i] \in JobRecords /\ JobSound(jobs'[i])
               /\ jobs'[i].state = jobs[i].state
               /\ jobs'[i].pipeline = jobs[i].pipeline /\ jobs'[i].inputs = jobs[i].inputs
               /\ jobs[i].step = "resolved" => jobs'[i].step = "resolved"
    <3>1. jobs[i] \in JobRecords /\ JobSound(jobs[i])
      BY <1>t DEF PairInv
    <3>2. CASE i \in Producers(t.commit)
      <4>1. jobs[i].step # "resolved"
        BY <3>1, <3>2, <2>2 DEF Producers, JobSound
      <4>2. jobs'[i] = [jobs[i] EXCEPT !.step = "done"]
        BY <3>2, <2>1
      <4>3. jobs'[i] \in JobRecords /\ jobs'[i].step = "done"
        BY <4>2, <3>1 DEF JobRecords, JobSteps
      <4>4. JobSound(jobs'[i])
        BY <4>3 DEF JobSound
      <4> QED
        BY <3>1, <4>1, <4>2, <4>3, <4>4 DEF JobRecords
    <3>3. CASE i \notin Producers(t.commit)
      BY <3>1, <3>3, <2>1
    <3> QED
      BY <3>2, <3>3
  <2>4. jobs' \in Seq(JobRecords)
    <3>1. jobs' = [i \in 1 .. Len(jobs) |-> jobs'[i]]
      BY <1>3, <1>t DEF Return
    <3>2. DOMAIN jobs = 1 .. Len(jobs) /\ Len(jobs) \in Nat
      BY <1>t
    <3>3. \A i \in 1 .. Len(jobs) : jobs'[i] \in JobRecords
      BY <2>3, <3>2
    <3>4. jobs' \in [1 .. Len(jobs) -> JobRecords]
      BY <3>1, <3>3
    <3> QED
      BY <3>2, <3>4
  <2>5. OneLivePairing'
    BY <2>1, <2>3, Calm DEF PairInv, Live
  <2>6. (\A i \in DOMAIN jobs : JobSound(jobs[i]))'
    BY <2>1, <2>3 DEF JobSound
  <2> QED
    BY <1>t, <2>1, <2>4, <2>5, <2>6 DEF PairInv, TypeOK, TrigRecords
<1> QED
  BY <1>1, <1>2, <1>3

(* A new job is for inputs that no live job of its pipeline has.           *)
LEMMA PairSpawn ==
  ASSUME PairInv, NEW t \in trigs, NEW k \in t.todo, Spawn(t, k)
  PROVE  PairInv'
<1> USE DagAssumption
<1> DEFINE p == PipelineList[k]
           inputs == Paired(p, t.pair)
<1>t. /\ head \in [Repos -> Nat] /\ jobs \in Seq(JobRecords)
      /\ \A u \in trigs : u \in TrigRecords
  BY DEF PairInv, TypeOK, TrigRecords
<1>1. p \in Pipelines /\ t.pair \in Seq(Nat) /\ Sides[p] \in Seq(Repos) /\ Len(t.pair) = Len(Sides[p])
  <2>1. k \in DOMAIN PipelineList /\ t.pair \in Seq(Nat)
    BY <1>t DEF TrigRecords
  <2>2. p \in Pipelines
    BY <2>1 DEF Pipelines, ToSet
  <2> QED
    BY <2>1, <2>2 DEF Spawn
<1>2. inputs \in SUBSET Commits
  <2>1. ASSUME NEW i \in DOMAIN t.pair, t.pair[i] > 0
        PROVE  Commit(Sides[p][i], t.pair[i]) \in Commits
    <3>1. t.pair[i] \in Nat \ {0} /\ Sides[p][i] \in Repos
      BY <1>1, <2>1
    <3> QED
      BY <3>1 DEF Commit, Commits
  <2> QED
    BY <2>1 DEF Paired
<1>3. \A u \in trigs' : u \in TrigRecords
  <2>e. <<>> \in Seq(Nat) /\ t \in TrigRecords
    BY <1>t
  <2>1. [t EXCEPT !.todo = t.todo \ {k}, !.pair = <<>>] \in TrigRecords
    BY <2>e DEF TrigRecords
  <2> QED
    BY <1>t, <2>1 DEF Spawn
<1>4. UNCHANGED <<head, gate, crossed>>
  BY DEF Spawn
<1>5. CASE jobs' = jobs
  <2>1. OneLivePairing'
    BY <1>5 DEF PairInv, OneLivePairing, Full
  <2>2. TypeOK'
    BY <1>3, <1>4, <1>5, <1>t DEF PairInv, TypeOK, TrigRecords
  <2> QED
    BY <1>5, <2>1, <2>2 DEF PairInv, JobSound
<1>6. CASE /\ ~hasRunningJobWithInputs(p, inputs)
           /\ jobs' = Append(jobs, NewJob(p, t.pair, t.commit))
  <2> DEFINE new == NewJob(p, t.pair, t.commit)
             m == Len(jobs) + 1
  <2>1. PICK q \in BOOLEAN : q = (\E i \in Producers(t.commit) : jobs[i].state = "failure")
    BY Zenon
  <2>2. new = [pipeline |-> p, inputs |-> inputs, late |-> {}, state |-> "queued",
               step |-> "spawned", propagated |-> q, turn |-> 0, out |-> 0]
    BY <2>1, Zenon DEF NewJob
  <2>3. new \in JobRecords
    BY <2>2, <1>1, <1>2 DEF JobRecords, JobSteps
  <2>4. /\ new.step = "spawned" /\ new.state = "queued" /\ new.out = 0
        /\ new.pipeline = p /\ new.inputs = inputs
    BY <2>2
  <2>5. JobSound(new)
    BY <2>4 DEF JobSound
  <2> HIDE DEF new, inputs, p
  <2>6. /\ jobs' \in Seq(JobRecords) /\ DOMAIN jobs' = DOMAIN jobs \cup {m}
        /\ jobs'[m] = new /\ \A i \in DOMAIN jobs : jobs'[i] = jobs[i] /\ i # m
    BY <1>6, <1>t, <2>3 DEF new
  <2>7. \A i \in DOMAIN jobs' : JobSound(jobs'[i])
    BY <2>5, <2>6 DEF PairInv
  <2>8. OneLivePairing'
    <3> SUFFICES ASSUME NEW i \in DOMAIN jobs', NEW l \in DOMAIN jobs',
                        i # l, jobs'[i].pipeline = jobs'[l].pipeline,
                        Full(i)', jobs'[i].inputs = jobs'[l].inputs,
                        Live(jobs'[i]), Live(jobs'[l])
                 PROVE  jobs'[i].step = "resolved" \/ jobs'[l].step = "resolved"
      BY DEF OneLivePairing, Live
    <3>1. \A j \in DOMAIN jobs : Live(jobs[j]) /\ jobs[j].pipeline = p => jobs[j].inputs # inputs
      BY <1>6 DEF hasRunningJobWithInputs, Live
    <3>2. i \in DOMAIN jobs /\ l \in DOMAIN jobs
      BY <2>4, <2>6, <3>1
    <3>3. jobs'[i] = jobs[i] /\ jobs'[l] = jobs[l]
      BY <3>2, <2>6
    <3>4. Full(i)
      BY <3>3 DEF Full
    <3> QED
      BY <3>2, <3>3, <3>4 DEF PairInv, OneLivePairing, Live
  <2>9. (\A i \in DOMAIN jobs : JobSound(jobs[i]))'
    BY <2>7 DEF JobSound
  <2> QED
    BY <1>3, <1>4, <1>t, <2>6, <2>8, <2>9 DEF PairInv, TypeOK, TrigRecords
<1> QED
  BY <1>5, <1>6 DEF Spawn

(* Late heads are of sides that the inputs do not cover.                   *)
LEMMA LateUncovered ==
  ASSUME TypeOK, NEW i \in DOMAIN jobs
  PROVE  /\ LateHeads(i) \subseteq Commits
         /\ \A c \in LateHeads(i) : /\ c.repo \in SideSet(jobs[i].pipeline)
                                    /\ \A d \in jobs[i].inputs : d.repo # c.repo
<1> USE DagAssumption
<1>1. head \in [Repos -> Nat] /\ jobs[i].pipeline \in Pipelines
  BY JobTyped DEF TypeOK, JobRecords
<1>2. SideSet(jobs[i].pipeline) \subseteq Repos
  BY <1>1 DEF SideSet, ToSet
<1>3. ASSUME NEW c \in LateHeads(i)
      PROVE  /\ c \in Commits /\ c.repo \in SideSet(jobs[i].pipeline)
             /\ \A d \in jobs[i].inputs : d.repo # c.repo
  <2>1. PICK r \in SideSet(jobs[i].pipeline) :
          r \notin {d.repo : d \in jobs[i].inputs} /\ head[r] > 0 /\ c = Commit(r, head[r])
    BY <1>3 DEF LateHeads
  <2>2. head[r] \in Nat \ {0} /\ r \in Repos
    BY <1>1, <1>2, <2>1
  <2> QED
    BY <2>1, <2>2 DEF Commit, Commits
<1> QED
  BY <1>3

LEMMA PairResolve ==
  ASSUME PairInv, NEW i \in DOMAIN jobs, Resolve(i)
  PROVE  PairInv'
<1> DEFINE late == LateHeads(i)
           step == IF late = {} THEN "checked" ELSE "resolved"
           r == [jobs[i] EXCEPT !.inputs = jobs[i].inputs \cup late, !.late = late, !.step = step]
<1>1. TypeOK /\ jobs[i] \in JobRecords /\ JobSound(jobs[i]) /\ jobs[i].step = "running"
  BY JobTyped DEF PairInv, Resolve
<1>2. jobs' = [jobs EXCEPT ![i] = r]
  BY <1>1 DEF Resolve, JobRecords, TypeOK
<1>3. late \subseteq Commits
  BY <1>1, LateUncovered
<1>4. r \in JobRecords
  <2>1. jobs[i].inputs \cup late \in SUBSET Commits /\ late \in SUBSET Commits /\ step \in JobSteps
    BY <1>1, <1>3 DEF JobRecords, JobSteps
  <2> HIDE DEF late, step
  <2> QED
    BY <1>1, <2>1 DEF JobRecords
<1>5. /\ r.pipeline = jobs[i].pipeline /\ r.inputs = jobs[i].inputs \cup late /\ r.late = late
      /\ r.step = step /\ r.state = jobs[i].state /\ r.out = jobs[i].out
  BY <1>1 DEF JobRecords
<1>6. r.state = "running" /\ r.out = 0
  BY <1>1, <1>5 DEF JobSound
<1> HIDE DEF late, step, r
<1>7. JobSound(r)
  <2>1. r.step \in {"checked", "resolved"} /\ (r.step = "resolved" => late # {})
    BY <1>5 DEF step
  <2>2. \A c \in late : c.repo \in SideSet(r.pipeline) /\ \A d \in r.inputs \ r.late : d.repo # c.repo
    BY <1>1, <1>5, LateUncovered DEF late
  <2> QED
    BY <1>5, <1>6, <2>1, <2>2 DEF JobSound
<1>8. /\ jobs' \in Seq(JobRecords) /\ DOMAIN jobs' = DOMAIN jobs
      /\ jobs'[i] = r /\ \A k \in DOMAIN jobs \ {i} : jobs'[k] = jobs[k]
  BY <1>1, <1>2, <1>4, JobChanges
<1>9. \A k \in DOMAIN jobs' : JobSound(jobs'[k])
  BY <1>7, <1>8 DEF PairInv
<1>10. OneLivePairing'
  <2>1. CASE late = {}
    <3>1. r.inputs = jobs[i].inputs /\ Live(jobs[i]) /\ jobs[i].step # "resolved"
      BY <1>1, <1>5, <2>1 DEF JobSound, Live
    <3> QED
      BY <1>5, <1>8, <3>1, Calm DEF PairInv
  <2>2. CASE late # {}
    <3>1. jobs'[i].step = "resolved"
      BY <1>5, <1>8, <2>2 DEF step
    <3> SUFFICES ASSUME NEW j \in DOMAIN jobs', NEW k \in DOMAIN jobs', j # i, k # i,
                        j # k, jobs'[j].pipeline = jobs'[k].pipeline,
                        Full(j)', jobs'[j].inputs = jobs'[k].inputs,
                        Live(jobs'[j]), Live(jobs'[k])
                 PROVE  jobs'[j].step = "resolved" \/ jobs'[k].step = "resolved"
      BY <3>1 DEF OneLivePairing, Live
    <3>2. jobs'[j] = jobs[j] /\ jobs'[k] = jobs[k]
      BY <1>8
    <3>3. Full(j)
      BY <3>2 DEF Full
    <3> QED
      BY <1>8, <3>2, <3>3 DEF PairInv, OneLivePairing, Live
  <2> QED
    BY <2>1, <2>2
<1>11. (\A k \in DOMAIN jobs : JobSound(jobs[k]))'
  BY <1>9 DEF JobSound
<1>12. UNCHANGED <<head, trigs, gate, crossed>>
  BY DEF Resolve
<1> QED
  BY <1>1, <1>8, <1>10, <1>11, <1>12 DEF PairInv, TypeOK

(* A job that gives up its late heads no longer has a full pairing, and    *)
(* one that keeps them has it alone.                                       *)
LEMMA PairCheck ==
  ASSUME PairInv, NEW i \in DOMAIN jobs, CheckSibling(i)
  PROVE  PairInv'
<1> DEFINE dup == hasJobWithExactInputs(i)
           inputs == IF dup THEN jobs[i].inputs \ jobs[i].late ELSE jobs[i].inputs
           r == [jobs[i] EXCEPT !.step = "checked", !.inputs = inputs, !.late = {}]
<1>1. TypeOK /\ jobs[i] \in JobRecords /\ JobSound(jobs[i]) /\ jobs[i].step = "resolved"
  BY JobTyped DEF PairInv, CheckSibling
<1>2. jobs' = [jobs EXCEPT ![i] = r]
  BY <1>1 DEF CheckSibling, JobRecords, TypeOK
<1>3. inputs \in SUBSET Commits
  BY <1>1 DEF JobRecords
<1> HIDE DEF inputs, dup
<1>4. r \in JobRecords
  BY <1>1, <1>3 DEF JobRecords, JobSteps
<1>5. /\ r.pipeline = jobs[i].pipeline /\ r.inputs = inputs
      /\ r.step = "checked" /\ r.state = jobs[i].state /\ r.out = jobs[i].out
  BY <1>1 DEF JobRecords
<1> HIDE DEF r
<1>6. JobSound(r)
  BY <1>1, <1>5 DEF JobSound
<1>7. /\ jobs' \in Seq(JobRecords) /\ DOMAIN jobs' = DOMAIN jobs
      /\ jobs'[i] = r /\ \A k \in DOMAIN jobs \ {i} : jobs'[k] = jobs[k]
  BY <1>1, <1>2, <1>4, JobChanges
<1>8. ASSUME Full(i)'
      PROVE  \A k \in DOMAIN jobs \ {i} :
               jobs[k].pipeline = jobs[i].pipeline => jobs[k].inputs # inputs
  <2>1. {c.repo : c \in inputs} = SideSet(jobs[i].pipeline)
    BY <1>5, <1>7, <1>8 DEF Full
  <2>2. PICK c \in jobs[i].late : /\ c.repo \in SideSet(jobs[i].pipeline)
                                  /\ \A d \in jobs[i].inputs \ jobs[i].late : d.repo # c.repo
    BY <1>1 DEF JobSound
  <2>3. ~dup
    BY <2>1, <2>2 DEF inputs
  <2> QED
    BY <2>3 DEF dup, inputs, hasJobWithExactInputs
<1>9. OneLivePairing'
  <2> SUFFICES ASSUME NEW j \in DOMAIN jobs', NEW k \in DOMAIN jobs',
                      j # k, jobs'[j].pipeline = jobs'[k].pipeline,
                      Full(j)', jobs'[j].inputs = jobs'[k].inputs,
                      Live(jobs'[j]), Live(jobs'[k])
               PROVE  jobs'[j].step = "resolved" \/ jobs'[k].step = "resolved"
    BY DEF OneLivePairing, Live
  <2>1. Full(k)'
    BY DEF Full
  <2>2. j # i /\ k # i
    BY <1>5, <1>7, <1>8, <2>1
  <2>3. jobs'[j] = jobs[j] /\ jobs'[k] = jobs[k]
    BY <1>7, <2>2
  <2>4. Full(j)
    BY <2>3 DEF Full
  <2> QED
    BY <1>7, <2>3, <2>4 DEF PairInv, OneLivePairing, Live
<1>10. (\A k \in DOMAIN jobs : JobSound(jobs[k]))'
  BY <1>6, <1>7 DEF PairInv, JobSound
<1>11. UNCHANGED <<head, trigs, gate, crossed>>
  BY DEF CheckSibling
<1> QED
  BY <1>1, <1>7, <1>9, <1>10, <1>11 DEF PairInv, TypeOK

Moved(i, st, sp, o) ==
  jobs' = [jobs EXCEPT ![i] = [jobs[i] EXCEPT !.state = st, !.step = sp, !.out = o]]

(* The ways of a job from start to end but for the late heads: it is never *)
(* live again once it is settled.                                          *)
LEMMA PairJobs ==
  ASSUME PairInv, NEW i \in DOMAIN jobs,
         \/ Enter(i) \/ Start(i) \/ FailPropagated(i) \/ NoDatums(i) \/ FinishOutput(i) \/ Succeed(i)
         \/ FailLate(i) \/ Fail(i) \/ FinishFailed(i) \/ FinishQuietly(i) \/ FailEarly(i)
  PROVE  PairInv'
<1> USE DagAssumption
<1>t. /\ head \in [Repos -> Nat] /\ jobs \in Seq(JobRecords)
      /\ \A t \in trigs : t \in TrigRecords
  BY DEF PairInv, TypeOK, TrigRecords
<1>j. TypeOK /\ jobs[i] \in JobRecords /\ JobSound(jobs[i])
  BY JobTyped DEF PairInv
<1>p. PICK p \in Pipelines : p = jobs[i].pipeline
  BY <1>j DEF JobRecords
<1>h. head[p] \in Nat /\ head[p] + 1 \in Nat \ {0} /\ [head EXCEPT ![p] = @ + 1] \in [Repos -> Nat]
  BY <1>t DEF Repos
<1>o. ASSUME NEW n \in Nat \ {0} PROVE NewTrigger(Commit(p, n)) \in TrigRecords
  BY TriggerAdded DEF Commit, Commits, Repos, TrigRecords
<1>m. ASSUME NEW st \in {"queued", "running", "success", "failure"}, NEW sp \in JobSteps, NEW o \in Nat,
             Moved(i, st, sp, o),
             \/ sp \in {"failed", "triggering", "done"} /\ st \in {"success", "failure"}
             \/ sp = "running" /\ st = "running" /\ o = 0 /\ jobs[i].step = "queued"
             \/ sp = "published" /\ st = "running" /\ o # 0 /\ jobs[i].step = "checked",
             head' \in [Repos -> Nat], \A t \in trigs' : t \in TrigRecords,
             UNCHANGED <<gate, crossed>>
      PROVE  PairInv'
  <2> DEFINE r == [jobs[i] EXCEPT !.state = st, !.step = sp, !.out = o]
  <2>1. r \in JobRecords
    BY <1>j DEF JobRecords
  <2>2. /\ r.state = st /\ r.step = sp /\ r.out = o
        /\ r.pipeline = jobs[i].pipeline /\ r.inputs = jobs[i].inputs
    BY <1>j DEF JobRecords
  <2> HIDE DEF r
  <2>3. JobSound(r)
    BY <1>m, <2>2 DEF JobSound
  <2>4. Live(r) => Live(jobs[i]) /\ jobs[i].step # "resolved"
    BY <1>j, <1>m, <2>2 DEF JobSound, Live
  <2>5. /\ jobs' \in Seq(JobRecords) /\ (\A k \in DOMAIN jobs : JobSound(jobs[k]))'
        /\ OneLivePairing'
    BY <1>m, <2>1, <2>2, <2>3, <2>4, JobMoves DEF r, Moved
  <2> QED
    BY <1>m, <2>5 DEF PairInv, TypeOK, TrigRecords
<1>k. jobs[i].out \in Nat
  BY <1>j DEF JobRecords
<1>e. ASSUME NEW st, NEW sp, jobs' = [jobs EXCEPT ![i].state = st, ![i].step = sp]
      PROVE  Moved(i, st, sp, jobs[i].out)
  <2>1. [jobs[i] EXCEPT !.state = st, !.step = sp, !.out = jobs[i].out]
          = [jobs[i] EXCEPT !.state = st, !.step = sp]
    BY <1>j DEF JobRecords
  <2>2. jobs' = [jobs EXCEPT ![i] = [jobs[i] EXCEPT !.state = st, !.step = sp]]
    BY <1>e, <1>t
  <2> QED
    BY <2>1, <2>2 DEF Moved
<1>f. ASSUME NEW st, NEW sp, Publish(i, sp, st)
      PROVE  head' \in [Repos -> Nat] /\ Moved(i, st, sp, head[p] + 1)
  <2>1. /\ head' = [head EXCEPT ![p] = @ + 1]
        /\ jobs' = [jobs EXCEPT ![i].out = head[p] + 1, ![i].step = sp, ![i].state = st]
    BY <1>f, <1>p DEF Publish
  <2>2. Moved(i, st, sp, head[p] + 1)
    BY <1>j, <1>t, <2>1 DEF JobRecords, Moved
  <2> QED
    BY <1>h, <2>1, <2>2
<1>1. CASE Start(i)
  <2>1. /\ jobs' = [jobs EXCEPT ![i].step = "running", ![i].state = "running"]
        /\ UNCHANGED <<head, trigs, gate, crossed>> /\ jobs[i].step = "queued"
    BY <1>1 DEF Start
  <2>3. Moved(i, "running", "running", jobs[i].out)
    BY <1>j, <1>t, <2>1 DEF JobRecords, Moved
  <2>2. jobs[i].out = 0
    BY <1>j, <2>1 DEF JobSound
  <2> QED
    BY <1>t, <1>m, <2>1, <2>2, <2>3 DEF JobSteps
<1>2. CASE FailPropagated(i)
  <2>1. Publish(i, "done", "failure") /\ UNCHANGED <<trigs, gate, crossed>>
    BY <1>2 DEF FailPropagated
  <2> QED
    BY <1>t, <1>f, <1>h, <1>m, <2>1 DEF JobSteps
<1>3. CASE NoDatums(i)
  <2>1. /\ jobs' = [jobs EXCEPT ![i].state = "success", ![i].step = "done"]
        /\ UNCHANGED <<head, trigs, gate, crossed>>
    BY <1>3 DEF NoDatums
  <2> QED
    BY <1>t, <1>e, <1>k, <1>m, <2>1 DEF JobSteps
<1>4. CASE FinishOutput(i)
  <2>1. Publish(i, "published", "running") /\ UNCHANGED <<trigs, gate, crossed>> /\ jobs[i].step = "checked"
    BY <1>4 DEF FinishOutput
  <2> QED
    BY <1>t, <1>f, <1>h, <1>m, <2>1 DEF JobSteps
<1>5. CASE Succeed(i)
  <2>1. /\ jobs' = [jobs EXCEPT ![i].state = "success", ![i].step = "triggering"]
        /\ head' = head /\ trigs' = trigs \cup {NewTrigger(Commit(p, jobs[i].out))}
        /\ UNCHANGED <<gate, crossed>>
    BY <1>5, <1>p DEF Succeed
  <2>2. NewTrigger(Commit(p, jobs[i].out)) \in TrigRecords
    BY <1>o, <1>k, <1>5, <1>j DEF Succeed, JobSound
  <2> QED
    BY <1>t, <1>e, <1>k, <1>m, <2>1, <2>2 DEF JobSteps
<1>6. CASE FailLate(i) \/ FailEarly(i)
  <2>1. /\ jobs' = [jobs EXCEPT ![i].state = "failure", ![i].step = "done"]
        /\ UNCHANGED <<head, trigs, gate, crossed>>
    BY <1>6 DEF FailLate, FailEarly
  <2> QED
    BY <1>t, <1>e, <1>k, <1>m, <2>1 DEF JobSteps
<1>7. CASE Fail(i)
  <2>1. /\ jobs' = [jobs EXCEPT ![i].state = "failure", ![i].step = "failed"]
        /\ UNCHANGED <<head, trigs, gate, crossed>>
    BY <1>7 DEF Fail
  <2> QED
    BY <1>t, <1>e, <1>k, <1>m, <2>1 DEF JobSteps
<1>8. CASE FinishFailed(i)
  <2>1. /\ Publish(i, "triggering", "failure")
        /\ trigs' = trigs \cup {NewTrigger(Commit(p, head[p] + 1))} /\ UNCHANGED <<gate, crossed>>
    BY <1>8, <1>p DEF FinishFailed
  <2>2. head[p] + 1 \in Nat \ {0}
    BY <1>h
  <2> QED
    BY <1>t, <1>f, <1>h, <1>m, <1>o, <2>1, <2>2 DEF JobSteps
<1>9. CASE FinishQuietly(i)
  <2>1. Publish(i, "done", "failure") /\ UNCHANGED <<trigs, gate, crossed>>
    BY <1>9 DEF FinishQuietly
  <2> QED
    BY <1>t, <1>f, <1>h, <1>m, <2>1 DEF JobSteps
<1>10. CASE Enter(i)
  <2> DEFINE r == [jobs[i] EXCEPT !.step = "queued", !.turn = gate[p] + 1]
  <2>1. /\ gate' = [gate EXCEPT ![p] = @ + 1] /\ UNCHANGED <<head, trigs, crossed>>
        /\ jobs' = [jobs EXCEPT ![i].step = "queued", ![i].turn = gate[p] + 1]
        /\ jobs[i].step = "spawned"
    BY <1>10, <1>p DEF Enter
  <2>2. gate \in [Pipelines -> Nat]
    BY <1>j DEF TypeOK
  <2>3. gate[p] + 1 \in Nat /\ gate' \in [Pipelines -> Nat]
    BY <2>1, <2>2
  <2>4. jobs' = [jobs EXCEPT ![i] = r]
    BY <1>t, <2>1
  <2>5. /\ r \in JobRecords /\ r.step = "queued" /\ r.state = jobs[i].state /\ r.out = jobs[i].out
        /\ r.pipeline = jobs[i].pipeline /\ r.inputs = jobs[i].inputs
    BY <1>j, <2>3 DEF JobRecords, JobSteps
  <2> HIDE DEF r
  <2>6. JobSound(r) /\ Live(jobs[i])
    BY <1>j, <2>1, <2>5 DEF JobSound, Live
  <2>7. /\ jobs' \in Seq(JobRecords) /\ (\A k \in DOMAIN jobs : JobSound(jobs[k]))'
        /\ OneLivePairing'
    BY <2>1, <2>4, <2>5, <2>6, JobMoves
  <2> QED
    BY <1>t, <1>j, <2>1, <2>3, <2>7 DEF PairInv, TypeOK, TrigRecords
<1> QED
  BY <1>1, <1>2, <1>3, <1>4, <1>5, <1>6, <1>7, <1>8, <1>9, <1>10

LEMMA PairStep ==
  ASSUME PairInv, [Next]_vars
  PROVE  PairInv'
<1>1. CASE UNCHANGED vars
  <2>1. UNCHANGED <<head, jobs, trigs, gate, crossed>>
    BY <1>1 DEF vars
  <2> QED
    BY <2>1 DEF PairInv, TypeOK, JobSound, OneLivePairing, Full
<1>2. CASE Next
  <2>1. CASE \E s \in Sources : ClientCommit(s)
    BY <2>1, PairTriggers
  <2>2. ASSUME NEW t \in trigs, TrigNext(t) PROVE PairInv'
    BY <2>2, PairTriggers, PairSpawn DEF TrigNext
  <2>3. ASSUME NEW i \in DOMAIN jobs, JobNext(i) PROVE PairInv'
    BY <2>3, PairJobs, PairResolve, PairCheck DEF JobNext
  <2> QED
    BY <1>2, <2>1, <2>2, <2>3 DEF Next
<1> QED
  BY <1>1, <1>2

----------------------------------------------------------------------------
(* A line of pipelines: each reads one repository.                         *)

InputOf(p) == LineSides[p][1]
OneSided == \A p \in Pipelines : Len(LineSides[p]) = 1

(* A job works on what its repository held when it was made, publishes at  *)
(* its end, and has nothing but a failure before it when it propagates.    *)
LineJob(j) ==
  /\ j.inputs # {} /\ j.late = {} /\ j.step # "resolved"
  /\ \A c \in j.inputs : c.repo = InputOf(j.pipeline) /\ c.n <= head[c.repo]
  /\ j.turn > 0 <=> j.step # "spawned"
  /\ j.turn <= gate[j.pipeline]
  /\ j.out > 0 => j.step \in {"published", "triggering", "done"}
  /\ j.out <= head[j.pipeline]
  /\ j.step = "published" => j.out > 0 /\ j.out = head[j.pipeline]
  /\ j.propagated => \/ /\ j.step \in {"spawned", "queued", "running"}
                        /\ j.state \in {"queued", "running"}
                     \/ j.step = "done" /\ j.state = "failure"

(* The jobs of a pipeline take their turns: a job leaves the queue when    *)
(* those that entered the gate before it are done, and publishes later.    *)
InTurn(i, k) ==
  0 < jobs[i].turn /\ jobs[i].turn < jobs[k].turn =>
    /\ jobs[k].step # "queued" => jobs[i].step = "done"
    /\ jobs[i].out > 0 /\ jobs[k].out > 0 => jobs[i].out < jobs[k].out

(* No two have one turn.                                                   *)
Apart(i, k) == i # k /\ jobs[i].turn > 0 => jobs[i].turn # jobs[k].turn

(* And they are made in the order of the commits of an uncrossed input.    *)
InOrderOf(i, k) ==
  i < k => \A c \in jobs[i].inputs, d \in jobs[k].inputs : c.repo \notin crossed => c.n <= d.n

(* Job i reads the output of job k only when that is settled.              *)
FollowsFailure(i, k) ==
  jobs[k].out > 0 /\ Commit(jobs[k].pipeline, jobs[k].out) \in jobs[i].inputs =>
    /\ jobs[k].step \in {"triggering", "done"}
    /\ jobs[k].state = "failure" => jobs[i].propagated

LineJobs ==
  /\ jobs \in Seq(JobRecords)
  /\ \A i \in DOMAIN jobs : LineJob(jobs[i])
  /\ \A i, k \in DOMAIN jobs : jobs[i].pipeline = jobs[k].pipeline =>
       InTurn(i, k) /\ Apart(i, k) /\ InOrderOf(i, k)
  /\ \A i, k \in DOMAIN jobs : FollowsFailure(i, k)

(* The job whose output a trigger is for holds its pipeline's slot, so the *)
(* trigger is for the head as long as it runs, and so is an uncrossed      *)
(* client's.                                                               *)
Producing(k, t) == /\ jobs[k].pipeline = t.commit.repo /\ jobs[k].out = t.commit.n
                   /\ jobs[k].step = "triggering"
Pairs(c) == {<<>>} \cup {<<n>> : n \in c.n .. head[c.repo]}
LineTrigger(t) ==
  /\ t \in TrigRecords /\ t.todo \subseteq Line!Consumers(t.commit.repo)
  /\ t.commit.n <= head[t.commit.repo] /\ t.pair \in Pairs(t.commit)
  /\ t.commit.repo \notin crossed => t.commit.n = head[t.commit.repo]
  /\ t.commit.repo \in Pipelines => \E k \in DOMAIN jobs : Producing(k, t)

LineInv ==
  /\ head \in [Repos -> Nat] /\ gate \in [Pipelines -> Nat] /\ crossed \subseteq Sources
  /\ LineJobs
  /\ \A t \in trigs : LineTrigger(t)
  /\ \A t, u \in trigs : t.commit.repo = u.commit.repo /\ t.commit.repo \notin crossed => t = u

LEMMA LineNames ==
  /\ Line!Pipelines = Pipelines /\ Line!Repos = Repos /\ Line!Commits = Commits
  /\ Line!JobSteps = JobSteps /\ Line!JobRecords = JobRecords
  /\ \A r, n : Line!Commit(r, n) = Commit(r, n)
  /\ \A c : Line!Producers(c) = Producers(c)
<1>1. Line!Pipelines = Pipelines
  BY DEF Line!Pipelines, Pipelines, Line!ToSet, ToSet
<1>2. Line!Repos = Repos /\ Line!Commits = Commits /\ Line!JobSteps = JobSteps
  BY <1>1 DEF Line!Repos, Repos, Line!Commits, Commits, Line!JobSteps, JobSteps
<1>3. Line!JobRecords = JobRecords
  BY <1>1, <1>2 DEF Line!JobRecords, JobRecords
<1> QED BY <1>1, <1>2, <1>3 DEF Line!Commit, Commit, Line!Producers, Producers

(* What a pipeline reads, and who reads a repository.                      *)
LEMMA LineSide ==
  ASSUME OneSided, NEW p \in Pipelines
  PROVE  InputOf(p) \in Repos /\ LineSides[p] = <<InputOf(p)>> /\ Line!SideSet(p) = {InputOf(p)}
<1>1. LineSides[p] \in Seq(Repos) /\ Len(LineSides[p]) = 1
  BY LineAssumption DEF OneSided
<1> QED BY <1>1 DEF InputOf, Line!SideSet, Line!ToSet

LEMMA LineConsumer ==
  ASSUME OneSided, NEW r, NEW k \in Line!Consumers(r)
  PROVE  /\ k \in DOMAIN PipelineList /\ PipelineList[k] \in Pipelines
         /\ LineSides[PipelineList[k]] = <<r>> /\ InputOf(PipelineList[k]) = r
<1>1. k \in DOMAIN PipelineList /\ r \in Line!SideSet(PipelineList[k])
  BY DEF Line!Consumers
<1>2. PipelineList[k] \in Pipelines
  BY <1>1 DEF Pipelines, ToSet
<1> QED BY <1>1, <1>2, LineSide

LEMMA LineInitial == ASSUME Init PROVE LineInv
<1>1. /\ head = [r \in Repos |-> 0] /\ jobs = <<>> /\ trigs = {}
      /\ gate = [p \in Pipelines |-> 0] /\ crossed = {}
  BY DEF Init
<1> QED BY <1>1 DEF LineInv, LineJobs

(* Outputs follow the gate, jobs follow their inputs, and a failure is not *)
(* masked.                                                                 *)
LEMMA LineSound ==
  ASSUME LineInv PROVE Line!OutputsInTurn /\ Line!SpawnedInOrder /\ Line!FailureNotMasked
<1>1. Line!OutputsInTurn
  BY DEF Line!OutputsInTurn, LineInv, LineJobs, InTurn
<1>2. Line!SpawnedInOrder
  BY DEF Line!SpawnedInOrder, LineInv, LineJobs, InOrderOf
<1>3. Line!FailureNotMasked
  BY LineNames DEF Line!FailureNotMasked, LineInv, LineJobs, FollowsFailure, LineJob
<1> QED BY <1>1, <1>2, <1>3

(* Two jobs past the gate, one before the other.                           *)
LEMMA LineTurns ==
  ASSUME LineInv, NEW i \in DOMAIN jobs, NEW k \in DOMAIN jobs, i # k,
         jobs[i].pipeline = jobs[k].pipeline
  PROVE  \/ jobs[i].step = "spawned" \/ jobs[k].step = "spawned"
         \/ 0 < jobs[i].turn /\ jobs[i].turn < jobs[k].turn
         \/ 0 < jobs[k].turn /\ jobs[k].turn < jobs[i].turn
<1>1. jobs[i] \in JobRecords /\ jobs[k] \in JobRecords
  BY DEF LineInv, LineJobs
<1>2. jobs[i].turn \in Nat /\ jobs[k].turn \in Nat
  BY <1>1 DEF JobRecords
<1> QED BY <1>2 DEF LineInv, LineJobs, LineJob, Apart

(* Where a job may move from, given who holds its pipeline's slot.         *)
MayMove(i) ==
  \/ jobs[i].step \in {"running", "checked", "published", "failed"}
  \/ /\ jobs[i].step = "queued"
     /\ \A k \in DOMAIN jobs : jobs[k].pipeline = jobs[i].pipeline =>
          ~Line!PastGate(k) /\ (jobs[k].step = "queued" => jobs[i].turn <= jobs[k].turn)

(* While a job works, no trigger is for its pipeline's output.             *)
LEMMA LineUntold ==
  ASSUME LineInv, NEW i \in DOMAIN jobs, MayMove(i), NEW t \in trigs
  PROVE  t.commit.repo # jobs[i].pipeline
<1> SUFFICES ASSUME t.commit.repo = jobs[i].pipeline PROVE FALSE
  OBVIOUS
<1>1. jobs \in Seq(JobRecords)
  BY DEF LineInv, LineJobs
<1>2. /\ DOMAIN jobs = 1 .. Len(jobs) /\ \A k \in DOMAIN jobs : jobs[k] \in JobRecords
  BY <1>1
<1>3. jobs[i].pipeline \in Pipelines
  BY <1>2 DEF JobRecords
<1>4. PICK k \in DOMAIN jobs : Producing(k, t)
  BY <1>3 DEF LineInv, LineTrigger
<1>5. jobs[k].pipeline = jobs[i].pipeline /\ jobs[k].step = "triggering"
  BY <1>4 DEF Producing
<1>6. jobs[i].step # "queued"
  BY <1>5 DEF MayMove, Line!PastGate
<1>7. i # k /\ jobs[i].step # "spawned" /\ jobs[k].step # "spawned"
  BY <1>5, <1>6 DEF MayMove
<1>8. CASE 0 < jobs[i].turn /\ jobs[i].turn < jobs[k].turn
  BY <1>5, <1>6, <1>8 DEF LineInv, LineJobs, InTurn, MayMove
<1>9. CASE 0 < jobs[k].turn /\ jobs[k].turn < jobs[i].turn
  BY <1>5, <1>6, <1>9 DEF LineInv, LineJobs, InTurn, MayMove
<1> QED BY <1>5, <1>7, <1>8, <1>9, LineTurns

(* A job moves on, with or without an output commit.                       *)
Published(i, o) ==
  \/ o = jobs[i].out /\ head' = head
  \/ /\ o = head[jobs[i].pipeline] + 1
     /\ head' = [head EXCEPT ![jobs[i].pipeline] = @ + 1]

LEMMA LineMoves ==
  ASSUME LineInv, NEW i \in DOMAIN jobs, MayMove(i),
         NEW st \in {"queued", "running", "success", "failure"}, NEW sp \in JobSteps, NEW o \in Nat,
         Moved(i, st, sp, o), Published(i, o), sp \notin {"spawned", "queued", "resolved"},
         UNCHANGED <<gate, crossed>>,
         o > 0 => sp \in {"published", "triggering", "done"},
         sp = "published" => o = head'[jobs[i].pipeline] /\ o > 0,
         jobs[i].propagated => \/ sp = "running" /\ st = "running"
                               \/ sp = "done" /\ st = "failure"
  PROVE  /\ head' \in [Repos -> Nat] /\ LineJobs' /\ DOMAIN jobs' = DOMAIN jobs
         /\ \A t \in trigs : LineTrigger(t)'
<1> DEFINE p == jobs[i].pipeline
           r == [jobs[i] EXCEPT !.state = st, !.step = sp, !.out = o]
<1>1. head \in [Repos -> Nat] /\ jobs \in Seq(JobRecords)
  BY DEF LineInv, LineJobs
<1>2. /\ DOMAIN jobs = 1 .. Len(jobs) /\ jobs[i] \in JobRecords
      /\ \A k \in DOMAIN jobs : jobs[k] \in JobRecords
  BY <1>1
<1>3. /\ r \in JobRecords /\ r.state = st /\ r.step = sp /\ r.out = o
      /\ r.pipeline = p /\ r.inputs = jobs[i].inputs /\ r.late = jobs[i].late
      /\ r.propagated = jobs[i].propagated /\ r.turn = jobs[i].turn
      /\ p \in Pipelines /\ jobs[i].out \in Nat
  BY <1>2 DEF JobRecords
<1>4. jobs' = [jobs EXCEPT ![i] = r]
  BY DEF Moved
<1> HIDE DEF r
<1>5. /\ jobs' \in Seq(JobRecords) /\ DOMAIN jobs' = DOMAIN jobs
      /\ jobs'[i] = r /\ \A k \in DOMAIN jobs \ {i} : jobs'[k] = jobs[k]
  BY <1>1, <1>3, <1>4
<1>6. /\ head' \in [Repos -> Nat] /\ \A q \in Repos : head[q] <= head'[q]
      /\ \A q \in Repos \ {p} : head'[q] = head[q]
      /\ \/ o = jobs[i].out
         \/ o = head[p] + 1 /\ head'[p] = o /\ p \in Repos
  <2>1. p \in Repos
    BY <1>3 DEF Repos
  <2>2. \A q \in Repos : head[q] \in Nat
    BY <1>1
  <2>3. CASE o = jobs[i].out /\ head' = head
    BY <1>1, <2>1, <2>2, <2>3
  <2>4. CASE o = head[p] + 1 /\ head' = [head EXCEPT ![p] = @ + 1]
    BY <1>1, <2>1, <2>2, <2>4
  <2> QED BY <2>3, <2>4 DEF Published
<1>7. ASSUME NEW k \in DOMAIN jobs PROVE LineJob(jobs[k])
  BY DEF LineInv, LineJobs
<1>8. ASSUME NEW k \in DOMAIN jobs, NEW c \in jobs[k].inputs
      PROVE  c \in Commits /\ c.repo \in Repos /\ c.n \in Nat /\ c.n <= head[c.repo]
  <2>1. c \in Commits
    BY <1>2 DEF JobRecords
  <2> QED BY <1>7, <2>1 DEF LineJob, Commits
<1>9. ASSUME NEW k \in DOMAIN jobs, k # i, jobs[k].pipeline = p
      PROVE  /\ 0 < jobs[k].turn /\ jobs[k].turn < jobs[i].turn => jobs[k].step = "done"
             /\ ~(0 < jobs[k].turn /\ jobs[k].turn < jobs[i].turn) =>
                  jobs[k].step \in {"spawned", "queued"} /\ jobs[k].out = 0
  <2>1. /\ jobs[k].turn \in Nat /\ jobs[i].turn \in Nat /\ jobs[k].out \in Nat
        /\ jobs[k].turn > 0 <=> jobs[k].step # "spawned"
    BY <1>2, <1>7 DEF LineJob, JobRecords
  <2>2. 0 < jobs[k].turn /\ jobs[k].turn < jobs[i].turn => jobs[k].step = "done"
    <3>1. InTurn(k, i)
      BY <1>9 DEF LineInv, LineJobs
    <3> QED BY <1>9, <2>1, <3>1 DEF MayMove, InTurn, Line!PastGate
  <2>3. 0 < jobs[i].turn /\ jobs[i].turn < jobs[k].turn => jobs[k].step = "queued"
    <3>1. InTurn(i, k)
      BY <1>9 DEF LineInv, LineJobs
    <3> QED BY <3>1 DEF MayMove, InTurn
  <2>4. jobs[i].step # "spawned"
    BY DEF MayMove
  <2>5. jobs[k].step \in {"spawned", "queued"} => jobs[k].out = 0
    BY <1>7, <2>1 DEF LineJob
  <2>6. \/ jobs[k].step = "spawned"
        \/ 0 < jobs[i].turn /\ jobs[i].turn < jobs[k].turn
        \/ 0 < jobs[k].turn /\ jobs[k].turn < jobs[i].turn
    BY <1>9, <2>4, LineTurns
  <2> QED BY <2>1, <2>2, <2>3, <2>5, <2>6
<1>10. ASSUME NEW k \in DOMAIN jobs' PROVE LineJob(jobs[k])'
  <2>1. CASE k # i
    <3>1. jobs'[k] = jobs[k] /\ k \in DOMAIN jobs
      BY <1>5, <2>1
    <3>2. /\ jobs[k].pipeline \in Repos /\ jobs[k].out \in Nat
          /\ head[jobs[k].pipeline] \in Nat /\ head'[jobs[k].pipeline] \in Nat
      BY <1>1, <1>2, <1>6, <3>1 DEF JobRecords, Repos
    <3>3. \A c \in jobs[k].inputs : c.n <= head'[c.repo]
      BY <1>1, <1>6, <1>8, <3>1
    <3>4. jobs[k].out <= head'[jobs[k].pipeline]
      BY <1>6, <1>7, <3>1, <3>2 DEF LineJob
    <3>5. jobs[k].step = "published" => head'[jobs[k].pipeline] = head[jobs[k].pipeline]
      <4>1. jobs[k].step = "published" => jobs[k].pipeline # p
        BY <1>2, <1>9, <2>1, <3>1
      <4> QED BY <1>6, <3>2, <4>1
    <3>6. jobs[k].turn <= gate'[jobs[k].pipeline]
      BY <1>7, <3>1 DEF LineJob
    <3> QED BY <1>7, <3>1, <3>3, <3>4, <3>5, <3>6 DEF LineJob, InputOf
  <2>2. CASE k = i
    <3>1. \A c \in jobs[i].inputs : c.n <= head'[c.repo]
      BY <1>1, <1>6, <1>8
    <3>2. o <= head'[p]
      <4>1. p \in Repos /\ head[p] \in Nat /\ head'[p] \in Nat /\ jobs[i].out <= head[p]
        BY <1>1, <1>3, <1>6, <1>7 DEF Repos, LineJob
      <4> QED BY <1>3, <1>6, <4>1
    <3>3. /\ jobs'[i].inputs = jobs[i].inputs /\ jobs'[i].late = jobs[i].late
          /\ jobs'[i].pipeline = p /\ jobs'[i].propagated = jobs[i].propagated
          /\ jobs'[i].step = sp /\ jobs'[i].state = st /\ jobs'[i].out = o
          /\ jobs'[i].turn = jobs[i].turn
      BY <1>3, <1>5
    <3>4. sp = "published" => o > 0 /\ o = head'[p]
      OBVIOUS
    <3>5. jobs[i].turn > 0 /\ sp # "spawned"
      BY <1>7 DEF LineJob, MayMove
    <3> QED BY <1>7, <2>2, <3>1, <3>2, <3>3, <3>4, <3>5 DEF LineJob, InputOf
  <2> QED BY <2>1, <2>2
<1>11. ASSUME NEW k \in DOMAIN jobs, NEW l \in DOMAIN jobs,
              jobs'[k].pipeline = jobs'[l].pipeline
       PROVE  InTurn(k, l)' /\ Apart(k, l)' /\ InOrderOf(k, l)'
  <2>1. jobs[k].pipeline = jobs[l].pipeline /\ InTurn(k, l) /\ Apart(k, l) /\ InOrderOf(k, l)
    BY <1>3, <1>5, <1>11 DEF LineInv, LineJobs
  <2>2. /\ jobs'[k].turn = jobs[k].turn /\ jobs'[l].turn = jobs[l].turn
        /\ jobs'[k].inputs = jobs[k].inputs /\ jobs'[l].inputs = jobs[l].inputs
    BY <1>3, <1>5
  <2>3. Apart(k, l)' /\ InOrderOf(k, l)'
    BY <2>1, <2>2 DEF Apart, InOrderOf
  <2> SUFFICES ASSUME 0 < jobs[k].turn, jobs[k].turn < jobs[l].turn PROVE InTurn(k, l)'
    BY <2>2, <2>3 DEF InTurn
  <2>4. jobs[k].turn \in Nat /\ jobs[l].turn \in Nat /\ k # l
    BY <1>2 DEF JobRecords
  <2>5. jobs'[l].step # "queued" => jobs'[k].step = "done"
    <3>1. CASE k = i
      BY <1>5, <1>9, <2>1, <2>4, <3>1 DEF LineInv, LineJobs, LineJob
    <3>2. CASE l = i
      BY <1>5, <1>9, <2>1, <2>4, <3>2
    <3>3. CASE k # i /\ l # i
      BY <1>5, <2>1, <3>3 DEF InTurn
    <3> QED BY <3>1, <3>2, <3>3
  <2>6. jobs'[k].out > 0 /\ jobs'[l].out > 0 => jobs'[k].out < jobs'[l].out
    <3>1. CASE k = i
      BY <1>5, <1>9, <2>1, <2>4, <3>1
    <3>2. CASE l = i
      <4>1. jobs'[k] = jobs[k] /\ jobs'[l].out = o /\ jobs[k].out \in Nat /\ jobs[k].out <= head[p]
        BY <1>2, <1>3, <1>5, <1>7, <2>1, <2>4, <3>2 DEF LineJob, JobRecords
      <4>2. p \in Repos /\ head[p] \in Nat
        BY <1>1, <1>3 DEF Repos
      <4> QED BY <1>6, <2>1, <3>2, <4>1, <4>2 DEF InTurn
    <3>3. CASE k # i /\ l # i
      BY <1>5, <2>1, <3>3 DEF InTurn
    <3> QED BY <3>1, <3>2, <3>3
  <2> QED BY <2>5, <2>6 DEF InTurn
<1>12. ASSUME NEW k \in DOMAIN jobs, NEW l \in DOMAIN jobs PROVE FollowsFailure(k, l)'
  <2>1. /\ FollowsFailure(k, l) /\ jobs'[k].inputs = jobs[k].inputs
        /\ jobs'[k].propagated = jobs[k].propagated /\ jobs'[l].pipeline = jobs[l].pipeline
    BY <1>3, <1>5 DEF LineInv, LineJobs
  <2>2. CASE l # i
    BY <1>5, <2>1, <2>2 DEF FollowsFailure, Commit
  <2>3. CASE l = i
    <3>1. ASSUME Commit(p, o) \in jobs[k].inputs, o > 0 PROVE FALSE
      <4>1. Commit(p, o).repo = p /\ Commit(p, o).n = o
        BY DEF Commit
      <4>2. o <= head[p] /\ head[p] \in Nat
        BY <1>1, <1>8, <3>1, <4>1
      <4>3. o = jobs[i].out
        BY <1>6, <4>2
      <4>4. jobs[i].step \in {"triggering", "done"}
        BY <2>1, <2>3, <3>1, <4>3 DEF FollowsFailure
      <4> QED BY <4>4 DEF MayMove
    <3> QED BY <1>3, <1>5, <2>1, <2>3, <3>1 DEF FollowsFailure, Commit
  <2> QED BY <2>2, <2>3
<1>13. ASSUME NEW t \in trigs PROVE LineTrigger(t)'
  <2>1. LineTrigger(t) /\ t.commit.repo # p
    BY LineUntold DEF LineInv
  <2>2. t.commit.repo \in Repos
    BY <2>1 DEF LineTrigger, TrigRecords, Commits
  <2>3. head'[t.commit.repo] = head[t.commit.repo]
    BY <1>6, <2>1, <2>2
  <2>4. ASSUME NEW k \in DOMAIN jobs, Producing(k, t) PROVE Producing(k, t)'
    BY <1>5, <2>1, <2>4 DEF Producing
  <2> QED BY <1>5, <2>1, <2>3, <2>4 DEF LineTrigger, Line!Consumers, Pairs
<1>14. LineJobs'
  BY <1>5, <1>10, <1>11, <1>12 DEF LineJobs
<1> QED BY <1>5, <1>6, <1>13, <1>14

(* The new trigger of a pipeline's output is the only one, and its job is  *)
(* the one that made it.                                                   *)
LEMMA LineAnnounces ==
  ASSUME LineInv, NEW i \in DOMAIN jobs, MayMove(i),
         head' \in [Repos -> Nat], LineJobs', DOMAIN jobs' = DOMAIN jobs,
         \A t \in trigs : LineTrigger(t)', UNCHANGED <<gate, crossed>>,
         NEW n, n = head'[jobs[i].pipeline], n > 0,
         jobs'[i].pipeline = jobs[i].pipeline, jobs'[i].out = n, jobs'[i].step = "triggering",
         trigs' = trigs \cup {Line!NewTrigger(Line!Commit(jobs[i].pipeline, n))}
  PROVE  LineInv'
<1>1. jobs[i] \in JobRecords
  BY DEF LineInv, LineJobs
<1>2. PICK p \in Repos : p = jobs[i].pipeline
  BY <1>1 DEF JobRecords, Repos
<1> DEFINE new == Line!NewTrigger(Line!Commit(p, n))
<1>3. n \in Nat \ {0} /\ Commit(p, n) \in Commits
  BY <1>2 DEF Commit, Commits
<1>4. /\ new.commit = Commit(p, n) /\ new.todo = Line!Consumers(p) /\ new.pair = <<>>
      /\ new \in TrigRecords
  BY <1>3, LineNames DEF Line!NewTrigger, Line!Commit, Commit, TrigRecords, Line!Consumers
<1>5. new.commit.repo = p /\ new.commit.n = n
  BY <1>4 DEF Commit
<1> HIDE DEF new
<1>6. LineTrigger(new)'
  <2>1. head'[p] = n /\ n <= n
    BY <1>2, <1>3
  <2> QED BY <1>2, <1>4, <1>5, <2>1 DEF LineTrigger, Producing, Line!Consumers, Pairs
<1>7. \A t \in trigs : t.commit.repo # new.commit.repo
  BY <1>2, <1>5, LineUntold
<1>8. \A t, u \in trigs' : t.commit.repo = u.commit.repo /\ t.commit.repo \notin crossed' => t = u
  BY <1>2, <1>7 DEF LineInv, new
<1>9. \A t \in trigs' : LineTrigger(t)'
  BY <1>2, <1>6 DEF new
<1> QED BY <1>8, <1>9 DEF LineInv

(* A job enters the gate, behind all that did.                             *)
LEMMA LineEnters ==
  ASSUME LineInv, NEW i \in DOMAIN jobs, Line!Enter(i)
  PROVE  LineInv'
<1> DEFINE p == jobs[i].pipeline
           n == gate[p] + 1
           r == [jobs[i] EXCEPT !.step = "queued", !.turn = n]
<1>1. /\ jobs \in Seq(JobRecords) /\ gate \in [Pipelines -> Nat]
      /\ \A k \in DOMAIN jobs : jobs[k] \in JobRecords /\ LineJob(jobs[k])
  BY DEF LineInv, LineJobs
<1>2. /\ gate' = [gate EXCEPT ![p] = n] /\ UNCHANGED <<head, trigs, crossed>>
      /\ jobs' = [jobs EXCEPT ![i].step = "queued", ![i].turn = n] /\ jobs[i].step = "spawned"
  BY DEF Line!Enter
<1>3. p \in Pipelines /\ n \in Nat /\ n > 0 /\ gate' \in [Pipelines -> Nat] /\ gate'[p] = n
  BY <1>1, <1>2 DEF JobRecords
<1>4. jobs' = [jobs EXCEPT ![i] = r]
  BY <1>1, <1>2
<1>5. /\ r \in JobRecords /\ r.step = "queued" /\ r.turn = n /\ r.state = jobs[i].state
      /\ r.out = jobs[i].out /\ r.pipeline = p /\ r.inputs = jobs[i].inputs
      /\ r.late = jobs[i].late /\ r.propagated = jobs[i].propagated
  BY <1>1, <1>3 DEF JobRecords, JobSteps
<1> HIDE DEF r
<1>6. /\ jobs' \in Seq(JobRecords) /\ DOMAIN jobs' = DOMAIN jobs /\ jobs'[i] = r
      /\ \A k \in DOMAIN jobs \ {i} : jobs'[k] = jobs[k]
  BY <1>1, <1>4, <1>5
<1>7. ASSUME NEW k \in DOMAIN jobs
      PROVE  /\ jobs[k].turn \in Nat /\ jobs[k].pipeline \in Pipelines /\ jobs[k].out \in Nat
             /\ jobs[k].turn <= gate[jobs[k].pipeline] /\ gate[jobs[k].pipeline] \in Nat
             /\ gate[jobs[k].pipeline] <= gate'[jobs[k].pipeline]
             /\ jobs[k].pipeline = p => jobs[k].turn < n
  <2>1. jobs[k].turn \in Nat /\ jobs[k].pipeline \in Pipelines /\ jobs[k].out \in Nat
    BY <1>1 DEF JobRecords
  <2>2. jobs[k].turn <= gate[jobs[k].pipeline] /\ gate[jobs[k].pipeline] \in Nat
    BY <1>1, <2>1 DEF LineJob
  <2> QED BY <1>1, <1>2, <1>3, <2>1, <2>2
<1>8. jobs[i].out = 0 /\ jobs[i].turn = 0
  <2>1. ~(jobs[i].out > 0) /\ ~(jobs[i].turn > 0)
    BY <1>1, <1>2 DEF LineJob
  <2>2. jobs[i].out \in Nat /\ jobs[i].turn \in Nat
    BY <1>7
  <2> QED BY <2>1, <2>2
<1>9. ASSUME NEW k \in DOMAIN jobs PROVE LineJob(jobs[k])'
  <2>1. CASE k # i
    <3>1. jobs'[k] = jobs[k]
      BY <1>6, <2>1
    <3>2. jobs[k].turn <= gate'[jobs[k].pipeline]
      <4>1. PICK q \in Pipelines : q = jobs[k].pipeline
        BY <1>7
      <4>2. jobs[k].turn \in Nat /\ gate[q] \in Nat /\ gate'[q] \in Nat
        BY <1>3, <1>7, <4>1
      <4>3. jobs[k].turn <= gate[q] /\ gate[q] <= gate'[q]
        BY <1>7, <4>1
      <4>4. jobs[k].turn <= gate'[q]
        BY <4>2, <4>3
      <4> QED BY <4>1, <4>4
    <3>3. LineJob(jobs[k]) /\ head' = head
      BY <1>1, <1>2
    <3> QED BY <3>1, <3>2, <3>3 DEF LineJob, InputOf
  <2>2. CASE k = i
    BY <1>1, <1>2, <1>3, <1>5, <1>6, <1>8, <2>2 DEF LineJob, InputOf
  <2> QED BY <2>1, <2>2
<1>10. ASSUME NEW k \in DOMAIN jobs, NEW l \in DOMAIN jobs, jobs'[k].pipeline = jobs'[l].pipeline
       PROVE  InTurn(k, l)' /\ Apart(k, l)' /\ InOrderOf(k, l)'
  <2>1. /\ jobs[k].pipeline = jobs[l].pipeline /\ InTurn(k, l) /\ Apart(k, l) /\ InOrderOf(k, l)
    BY <1>5, <1>6, <1>10 DEF LineInv, LineJobs
  <2>2. InOrderOf(k, l)'
    BY <1>2, <1>5, <1>6, <2>1 DEF InOrderOf
  <2>3. CASE k # i /\ l # i
    BY <1>6, <2>1, <2>2, <2>3 DEF InTurn, Apart
  <2>4. CASE l = i /\ k # i
    <3>1. jobs'[k] = jobs[k] /\ jobs'[l].step = "queued" /\ jobs'[l].turn = n /\ jobs'[l].out = 0
      BY <1>5, <1>6, <1>8, <2>4
    <3>2. jobs[k].turn < n /\ jobs[k].turn \in Nat
      BY <1>7, <2>1, <2>4
    <3> QED BY <1>3, <2>2, <3>1, <3>2 DEF InTurn, Apart
  <2>5. CASE k = i /\ l # i
    <3>1. jobs'[l] = jobs[l] /\ jobs'[k].turn = n
      BY <1>5, <1>6, <2>5
    <3>2. jobs[l].turn < n /\ jobs[l].turn \in Nat
      BY <1>7, <2>1, <2>5
    <3> QED BY <1>3, <2>2, <3>1, <3>2 DEF InTurn, Apart
  <2>6. CASE k = i /\ l = i
    BY <1>3, <1>5, <1>6, <2>2, <2>6 DEF InTurn, Apart
  <2> QED BY <2>3, <2>4, <2>5, <2>6
<1>11. ASSUME NEW k \in DOMAIN jobs, NEW l \in DOMAIN jobs PROVE FollowsFailure(k, l)'
  <2>1. FollowsFailure(k, l)
    BY DEF LineInv, LineJobs
  <2>2. /\ jobs'[k].inputs = jobs[k].inputs /\ jobs'[k].propagated = jobs[k].propagated
        /\ jobs'[l].pipeline = jobs[l].pipeline /\ jobs'[l].out = jobs[l].out
        /\ jobs'[l].state = jobs[l].state /\ (l # i => jobs'[l].step = jobs[l].step)
    BY <1>5, <1>6
  <2>3. l = i => ~(jobs[l].out > 0)
    BY <1>8
  <2> QED BY <2>1, <2>2, <2>3 DEF FollowsFailure
<1>12. LineJobs'
  BY <1>6, <1>9, <1>10, <1>11 DEF LineJobs
<1>13. ASSUME NEW t \in trigs PROVE LineTrigger(t)'
  <2>1. LineTrigger(t)
    BY DEF LineInv
  <2>2. ASSUME NEW k \in DOMAIN jobs, Producing(k, t) PROVE Producing(k, t)'
    BY <1>2, <1>6, <2>2 DEF Producing
  <2> QED BY <1>2, <1>6, <2>1, <2>2 DEF LineTrigger, Line!Consumers, Pairs
<1> QED BY <1>2, <1>3, <1>12, <1>13 DEF LineInv

(* A job's own steps.                                                      *)
LEMMA LineWorks ==
  ASSUME OneSided, LineInv, NEW i \in DOMAIN jobs, Line!JobNext(i)
  PROVE  LineInv'
<1> DEFINE p == jobs[i].pipeline
<1>1. head \in [Repos -> Nat] /\ jobs \in Seq(JobRecords)
  BY DEF LineInv, LineJobs
<1>2. jobs[i] \in JobRecords /\ LineJob(jobs[i])
  BY <1>1 DEF LineInv, LineJobs
<1>3. /\ p \in Pipelines /\ p \in Repos /\ jobs[i].out \in Nat /\ head[p] \in Nat
      /\ jobs[i].state \in {"queued", "running", "success", "failure"}
  BY <1>1, <1>2 DEF JobRecords, Repos
<1>4. jobs[i].out > 0 \/ jobs[i].out = 0
  BY <1>3
<1>5. ASSUME NEW st \in {"queued", "running", "success", "failure"}, NEW sp \in JobSteps,
             NEW o \in Nat, MayMove(i), Moved(i, st, sp, o), Published(i, o),
             sp \notin {"spawned", "queued", "resolved"}, UNCHANGED <<trigs, gate, crossed>>,
             o > 0 => sp \in {"published", "triggering", "done"},
             sp = "published" => o = head'[p] /\ o > 0,
             jobs[i].propagated => \/ sp = "running" /\ st = "running"
                                   \/ sp = "done" /\ st = "failure"
      PROVE  LineInv'
  BY <1>5, LineMoves DEF LineInv
<1>6. ASSUME NEW st, NEW sp, jobs' = [jobs EXCEPT ![i].state = st, ![i].step = sp], head' = head
      PROVE  Moved(i, st, sp, jobs[i].out) /\ Published(i, jobs[i].out)
  <2>1. [jobs[i] EXCEPT !.state = st, !.step = sp, !.out = jobs[i].out]
          = [jobs[i] EXCEPT !.state = st, !.step = sp]
    BY <1>2 DEF JobRecords
  <2>2. jobs' = [jobs EXCEPT ![i] = [jobs[i] EXCEPT !.state = st, !.step = sp]]
    BY <1>6, <1>1
  <2> QED BY <1>6, <2>1, <2>2 DEF Moved, Published
<1>7. ASSUME NEW st, NEW sp, Line!Publish(i, sp, st)
      PROVE  Moved(i, st, sp, head[p] + 1) /\ Published(i, head[p] + 1)
  <2>1. /\ head' = [head EXCEPT ![p] = @ + 1]
        /\ jobs' = [jobs EXCEPT ![i].out = head[p] + 1, ![i].step = sp, ![i].state = st]
    BY <1>7 DEF Line!Publish
  <2> QED BY <1>1, <1>2, <2>1 DEF JobRecords, Moved, Published
<1>8. /\ jobs[i].step \in {"checked", "published", "failed", "triggering"} => ~jobs[i].propagated
      /\ jobs[i].step \in {"queued", "running", "checked", "failed"} => jobs[i].out = 0
      /\ jobs[i].step = "published" => jobs[i].out > 0 /\ jobs[i].out = head[p]
  BY <1>2, <1>4 DEF LineJob
<1>9. CASE Line!Start(i)
  <2>1. /\ jobs' = [jobs EXCEPT ![i].step = "running", ![i].state = "running"]
        /\ UNCHANGED <<head, trigs, gate, crossed>> /\ jobs[i].step = "queued"
    BY <1>9 DEF Line!Start
  <2>2. MayMove(i)
    BY <1>9 DEF Line!Start, MayMove
  <2>3. Moved(i, "running", "running", jobs[i].out) /\ Published(i, jobs[i].out)
    BY <1>1, <1>2, <2>1 DEF JobRecords, Moved, Published
  <2> QED BY <1>3, <1>5, <1>8, <2>1, <2>2, <2>3 DEF JobSteps
<1>10. CASE Line!FailPropagated(i)
  <2>1. Line!Publish(i, "done", "failure") /\ UNCHANGED <<trigs, gate, crossed>> /\ MayMove(i)
    BY <1>10 DEF Line!FailPropagated, MayMove
  <2> QED BY <1>3, <1>5, <1>7, <2>1 DEF JobSteps
<1>11. CASE Line!Resolve(i)
  <2>1. Line!LateHeads(i) = {}
    <3>1. Line!SideSet(p) = {InputOf(p)}
      BY <1>3, LineSide
    <3>2. InputOf(p) \in {c.repo : c \in jobs[i].inputs}
      BY <1>2 DEF LineJob
    <3> QED BY <3>1, <3>2 DEF Line!LateHeads
  <2>2. /\ jobs' = [jobs EXCEPT ![i].inputs = @ \cup {}, ![i].late = {}, ![i].step = "checked"]
        /\ UNCHANGED <<head, trigs, gate, crossed>> /\ MayMove(i) /\ ~jobs[i].propagated /\ jobs[i].step = "running"
    BY <1>11, <2>1 DEF Line!Resolve, MayMove
  <2>3. Moved(i, jobs[i].state, "checked", jobs[i].out) /\ Published(i, jobs[i].out)
    <3>1. jobs[i].late = {}
      BY <1>2 DEF LineJob
    <3>2. [jobs[i] EXCEPT !.inputs = @ \cup {}, !.late = {}, !.step = "checked"]
            = [jobs[i] EXCEPT !.state = jobs[i].state, !.step = "checked", !.out = jobs[i].out]
      BY <1>2, <3>1 DEF JobRecords
    <3>3. jobs' = [jobs EXCEPT ![i] =
                     [jobs[i] EXCEPT !.inputs = @ \cup {}, !.late = {}, !.step = "checked"]]
      BY <1>1, <2>2
    <3> QED BY <2>2, <3>2, <3>3 DEF Moved, Published
  <2> QED BY <1>3, <1>5, <1>8, <2>2, <2>3 DEF JobSteps
<1>12. CASE Line!CheckSibling(i)
  BY <1>2, <1>12 DEF Line!CheckSibling, LineJob
<1>13. CASE Line!NoDatums(i)
  <2>1. /\ jobs' = [jobs EXCEPT ![i].state = "success", ![i].step = "done"]
        /\ UNCHANGED <<head, trigs, gate, crossed>> /\ jobs[i].step = "checked" /\ MayMove(i)
    BY <1>13 DEF Line!NoDatums, MayMove
  <2> QED BY <1>3, <1>5, <1>6, <1>8, <2>1 DEF JobSteps
<1>14. CASE Line!FinishOutput(i)
  <2>1. /\ Line!Publish(i, "published", "running") /\ UNCHANGED <<trigs, gate, crossed>> /\ MayMove(i)
        /\ jobs[i].step = "checked"
    BY <1>14 DEF Line!FinishOutput, MayMove
  <2>2. head'[p] = head[p] + 1 /\ head[p] + 1 \in Nat \ {0}
    BY <1>1, <1>3, <2>1 DEF Line!Publish
  <2> QED BY <1>3, <1>5, <1>7, <1>8, <2>1, <2>2 DEF JobSteps
<1>15. CASE Line!FailLate(i) \/ Line!FailEarly(i)
  <2>1. /\ jobs' = [jobs EXCEPT ![i].state = "failure", ![i].step = "done"]
        /\ UNCHANGED <<head, trigs, gate, crossed>> /\ MayMove(i)
    BY <1>15 DEF Line!FailLate, Line!FailEarly, MayMove
  <2> QED BY <1>3, <1>5, <1>6, <2>1 DEF JobSteps
<1>16. CASE Line!Fail(i)
  <2>1. /\ jobs' = [jobs EXCEPT ![i].state = "failure", ![i].step = "failed"]
        /\ UNCHANGED <<head, trigs, gate, crossed>> /\ MayMove(i) /\ jobs[i].step = "checked"
    BY <1>16 DEF Line!Fail, MayMove
  <2>2. Moved(i, "failure", "failed", jobs[i].out) /\ Published(i, jobs[i].out)
    BY <1>6, <2>1
  <2>3. jobs[i].out = 0 /\ ~jobs[i].propagated
    BY <1>8, <2>1
  <2> QED BY <1>3, <1>5, <2>1, <2>2, <2>3 DEF JobSteps
<1>17. CASE Line!FinishQuietly(i)
  <2>1. Line!Publish(i, "done", "failure") /\ UNCHANGED <<trigs, gate, crossed>> /\ MayMove(i)
    BY <1>17 DEF Line!FinishQuietly, MayMove
  <2> QED BY <1>3, <1>5, <1>7, <2>1 DEF JobSteps
<1>18. ASSUME NEW st \in {"success", "failure"}, NEW o \in Nat \ {0}, MayMove(i),
              Moved(i, st, "triggering", o), Published(i, o), ~jobs[i].propagated,
              UNCHANGED <<gate, crossed>>, o = head'[p], trigs' = trigs \cup {Line!NewTrigger(Line!Commit(p, o))}
       PROVE  LineInv'
  <2>1. /\ head' \in [Repos -> Nat] /\ LineJobs' /\ DOMAIN jobs' = DOMAIN jobs
        /\ \A t \in trigs : LineTrigger(t)'
    BY <1>18, LineMoves DEF JobSteps
  <2>2. jobs'[i].pipeline = p /\ jobs'[i].out = o /\ jobs'[i].step = "triggering"
    BY <1>1, <1>2, <1>18 DEF Moved, JobRecords
  <2> QED BY <1>18, <2>1, <2>2, LineAnnounces
<1>19. CASE Line!Succeed(i)
  <2>1. /\ jobs' = [jobs EXCEPT ![i].state = "success", ![i].step = "triggering"]
        /\ head' = head /\ trigs' = trigs \cup {Line!NewTrigger(Line!Commit(p, jobs[i].out))}
        /\ MayMove(i) /\ jobs[i].step = "published" /\ UNCHANGED <<gate, crossed>>
    BY <1>19 DEF Line!Succeed, MayMove
  <2>2. Moved(i, "success", "triggering", jobs[i].out) /\ Published(i, jobs[i].out)
    BY <1>6, <2>1
  <2> QED BY <1>3, <1>8, <1>18, <2>1, <2>2
<1>20. CASE Line!FinishFailed(i)
  <2>1. /\ Line!Publish(i, "triggering", "failure") /\ MayMove(i) /\ jobs[i].step = "failed"
        /\ trigs' = trigs \cup {Line!NewTrigger(Line!Commit(p, head[p] + 1))} /\ UNCHANGED <<gate, crossed>>
    BY <1>20 DEF Line!FinishFailed, MayMove
  <2>2. head'[p] = head[p] + 1 /\ head[p] + 1 \in Nat \ {0}
    BY <1>1, <1>3, <2>1 DEF Line!Publish
  <2> QED BY <1>7, <1>8, <1>18, <2>1, <2>2
<1> QED BY <1>9, <1>10, <1>11, <1>12, <1>13, <1>14, <1>15, <1>16, <1>17, <1>19, <1>20, LineEnters DEF Line!JobNext

(* A trigger goes on: it looks at its consumers, or has read a head.       *)
LEMMA LineTriggerMoves ==
  ASSUME OneSided, LineInv, NEW t \in trigs, NEW left \in SUBSET t.todo,
         NEW pair \in Pairs(t.commit), NEW u, u = [t EXCEPT !.todo = left, !.pair = pair],
         trigs' = (trigs \ {t}) \cup {u}, UNCHANGED <<head, gate, crossed>>, LineJobs',
         \A k \in DOMAIN jobs : k \in DOMAIN jobs' /\ jobs'[k] = jobs[k]
  PROVE  LineInv'
<1>1. LineTrigger(t) /\ t \in TrigRecords /\ pair \in Seq(Nat)
  <2>1. LineTrigger(t) /\ t \in TrigRecords /\ t.commit.n \in Nat /\ t.commit.repo \in Repos
    BY DEF LineInv, LineTrigger, TrigRecords, Commits
  <2>2. head[t.commit.repo] \in Nat
    BY <2>1 DEF LineInv
  <2>3. <<>> \in Seq(Nat) /\ \A n \in Nat : <<n>> \in Seq(Nat)
    OBVIOUS
  <2>4. \A n \in t.commit.n .. head[t.commit.repo] : n \in Nat
    BY <2>1, <2>2
  <2> QED BY <2>1, <2>3, <2>4, Zenon DEF Pairs
<1>2. /\ u \in TrigRecords /\ u.commit = t.commit /\ u.pair = pair
      /\ u.todo \subseteq Line!Consumers(u.commit.repo)
  BY <1>1 DEF TrigRecords, LineTrigger
<1>3. ASSUME NEW v, v \in trigs \/ v = u PROVE LineTrigger(v)'
  <2>1. /\ v \in TrigRecords /\ v.todo \subseteq Line!Consumers(v.commit.repo)
        /\ v.commit.n <= head[v.commit.repo] /\ v.pair \in Pairs(v.commit)
        /\ v.commit.repo \notin crossed => v.commit.n = head[v.commit.repo]
        /\ v.commit.repo \in Pipelines => \E k \in DOMAIN jobs : Producing(k, v)
    <3>1. CASE v \in trigs
      BY <3>1 DEF LineInv, LineTrigger
    <3>2. CASE v = u
      BY <1>1, <1>2, <3>2 DEF LineTrigger, Producing
    <3> QED BY <1>3, <3>1, <3>2
  <2> QED BY <2>1 DEF LineTrigger, Producing, Line!Consumers, Pairs
<1>4. ASSUME NEW v \in trigs', NEW w \in trigs', v.commit.repo = w.commit.repo,
             v.commit.repo \notin crossed
      PROVE  v = w
  <2>1. \A x \in trigs : x # t /\ x.commit.repo \notin crossed => x.commit.repo # u.commit.repo
    BY <1>2 DEF LineInv
  <2> QED BY <1>4, <2>1 DEF LineInv
<1> QED BY <1>3, <1>4 DEF LineInv

(* A client's commit, which crosses a trigger of the same repository.      *)
LEMMA LineCommits ==
  ASSUME OneSided, LineInv, NEW s \in Sources, Line!ClientCommit(s)
  PROVE  LineInv'
<1> DEFINE n == head[s] + 1
<1>1. /\ head \in [Repos -> Nat] /\ jobs \in Seq(JobRecords) /\ s \in Repos /\ s \notin Pipelines
      /\ \A k \in DOMAIN jobs : jobs[k] \in JobRecords /\ LineJob(jobs[k])
  BY DagAssumption DEF LineInv, LineJobs, Repos
<1>2. /\ head' = [head EXCEPT ![s] = n] /\ jobs' = jobs /\ gate' = gate
      /\ trigs' = trigs \cup {Line!NewTrigger(Line!Commit(s, n))}
      /\ crossed \subseteq crossed' /\ crossed' \subseteq Sources
      /\ \A t \in trigs : t.commit.repo = s => s \in crossed'
  BY DEF Line!ClientCommit, LineInv
<1>3. PICK u : u = Line!NewTrigger(Line!Commit(s, n))
  OBVIOUS
<1>4. /\ head' \in [Repos -> Nat] /\ head'[s] = n /\ n \in Nat \ {0}
      /\ \A r \in Repos : head[r] <= head'[r] /\ (r # s => head'[r] = head[r])
  <2>1. \A r \in Repos : head[r] \in Nat
    BY <1>1
  <2> QED BY <1>1, <1>2, <2>1
<1>5. /\ u \in TrigRecords /\ u.commit.repo = s /\ u.commit.n = n /\ u.pair = <<>>
      /\ u.todo = Line!Consumers(s)
  <2>1. Line!Commit(s, n) \in Commits /\ Line!Commit(s, n).repo = s /\ Line!Commit(s, n).n = n
    BY <1>1, <1>4 DEF Line!Commit, Commits
  <2> QED BY <1>3, <2>1 DEF Line!NewTrigger, TrigRecords, Line!Consumers
<1>6. ASSUME NEW k \in DOMAIN jobs PROVE LineJob(jobs[k])'
  <2>1. jobs[k].pipeline \in Repos /\ jobs[k].pipeline # s /\ jobs[k].out \in Nat
    BY <1>1 DEF JobRecords, Repos
  <2>2. \A c \in jobs[k].inputs : c.repo \in Repos /\ c.n \in Nat /\ c.n <= head[c.repo]
    BY <1>1 DEF JobRecords, Commits, LineJob
  <2>3. \A c \in jobs[k].inputs : c.n <= head'[c.repo]
    BY <1>1, <1>4, <2>2
  <2> QED BY <1>1, <1>2, <1>4, <2>1, <2>3 DEF LineJob, InputOf
<1>7. LineJobs'
  BY <1>2, <1>6 DEF LineInv, LineJobs, InTurn, Apart, InOrderOf, FollowsFailure
<1>8. ASSUME NEW t \in trigs PROVE LineTrigger(t)'
  <2>1. LineTrigger(t) /\ t.commit.repo \in Repos /\ t.commit.n \in Nat
    BY DEF LineInv, LineTrigger, TrigRecords, Commits
  <2>2. CASE t.commit.repo # s
    BY <1>2, <1>4, <2>1, <2>2 DEF LineTrigger, Producing, Line!Consumers, Pairs
  <2>3. CASE t.commit.repo = s
    <3>1. head[s] \in Nat /\ head'[s] \in Nat /\ head[s] <= head'[s]
      BY <1>1, <1>4
    <3>2. t.commit.n <= head'[s] /\ t.pair \in Pairs(t.commit)'
      <4>1. t.commit.n .. head[s] \subseteq t.commit.n .. head'[s] /\ t.commit.n <= head'[s]
        BY <2>1, <2>3, <3>1 DEF LineTrigger
      <4> QED BY <2>1, <2>3, <4>1 DEF LineTrigger, Pairs
    <3> QED BY <1>1, <1>2, <2>1, <2>3, <3>2 DEF LineTrigger, Line!Consumers
  <2> QED BY <2>2, <2>3
<1>9. LineTrigger(u)'
  <2>1. n <= n
    BY <1>4
  <2> QED BY <1>1, <1>4, <1>5, <2>1 DEF LineTrigger, Line!Consumers, Pairs
<1>10. \A t, v \in trigs' : t.commit.repo = v.commit.repo /\ t.commit.repo \notin crossed' => t = v
  BY <1>2, <1>3, <1>5 DEF LineInv
<1> QED BY <1>2, <1>3, <1>4, <1>7, <1>8, <1>9, <1>10 DEF LineInv

(* A trigger reads the head of its only side.                              *)
LEMMA LineReads ==
  ASSUME OneSided, LineInv, NEW t \in trigs, NEW k \in t.todo, Line!ReadSide(t, k)
  PROVE  LineInv'
<1>1. LineTrigger(t) /\ t \in TrigRecords
  BY DEF LineInv, LineTrigger
<1>2. LineSides[PipelineList[k]] = <<t.commit.repo>>
  BY <1>1, LineConsumer DEF LineTrigger
<1>3. t.pair = <<>>
  <2>1. Len(t.pair) < 1
    BY <1>2 DEF Line!ReadSide
  <2>2. \A n : Len(<<n>>) = 1
    OBVIOUS
  <2> QED BY <1>1, <2>1, <2>2 DEF LineTrigger, Pairs
<1> DEFINE m == head[t.commit.repo]
<1>4. /\ UNCHANGED <<head, jobs, gate, crossed>>
      /\ trigs' = (trigs \ {t}) \cup {[t EXCEPT !.pair = <<m>>]}
  BY <1>1, <1>2, <1>3 DEF Line!ReadSide
<1>5. [t EXCEPT !.pair = <<m>>] = [t EXCEPT !.todo = t.todo, !.pair = <<m>>]
  BY <1>1 DEF TrigRecords
<1>6. LineJobs'
  BY <1>4 DEF LineInv, LineJobs, LineJob, InTurn, Apart, InOrderOf, FollowsFailure, InputOf
<1>7. <<m>> \in Pairs(t.commit)
  <2>1. t.commit.n \in Nat /\ t.commit.repo \in Repos /\ t.commit.n <= m
    BY <1>1 DEF LineTrigger, TrigRecords, Commits
  <2>2. m \in Nat
    BY <2>1 DEF LineInv
  <2>3. m \in t.commit.n .. m
    BY <2>1, <2>2
  <2> QED BY <2>3 DEF Pairs
<1> QED BY <1>4, <1>5, <1>6, <1>7, LineTriggerMoves

(* No two jobs of a pipeline published one commit.                         *)
LEMMA LineOneOutput ==
  ASSUME LineInv, NEW i \in DOMAIN jobs, NEW k \in DOMAIN jobs,
         jobs[i].pipeline = jobs[k].pipeline, jobs[i].out = jobs[k].out, jobs[i].out > 0
  PROVE  i = k
<1>1. jobs[i].step # "spawned" /\ jobs[k].step # "spawned"
  BY DEF LineInv, LineJobs, LineJob
<1>2. jobs[i] \in JobRecords /\ jobs[k] \in JobRecords
  BY DEF LineInv, LineJobs
<1>3. jobs[i].out \in Nat /\ jobs[k].out \in Nat
  BY <1>2 DEF JobRecords
<1>4. /\ 0 < jobs[i].turn /\ jobs[i].turn < jobs[k].turn => jobs[i].out < jobs[k].out
      /\ 0 < jobs[k].turn /\ jobs[k].turn < jobs[i].turn => jobs[k].out < jobs[i].out
  BY DEF LineInv, LineJobs, InTurn
<1> QED BY <1>1, <1>3, <1>4, LineTurns

(* The trigger returns, and its job passes the slot on.                    *)
LEMMA LineReturns ==
  ASSUME LineInv, NEW t \in trigs, Line!Return(t)
  PROVE  LineInv'
<1>1. /\ jobs \in Seq(JobRecords) /\ DOMAIN jobs = 1 .. Len(jobs)
      /\ \A k \in DOMAIN jobs : jobs[k] \in JobRecords /\ LineJob(jobs[k])
  BY DEF LineInv, LineJobs
<1> DEFINE done(k) == [jobs[k] EXCEPT !.step = "done"]
           ended == Producers(t.commit)
<1>2. /\ UNCHANGED <<head, gate, crossed>> /\ trigs' = trigs \ {t}
      /\ jobs' = [k \in DOMAIN jobs |-> IF k \in ended THEN done(k) ELSE jobs[k]]
  BY LineNames DEF Line!Return
<1>3. LineTrigger(t) /\ t.commit.n \in Nat \ {0}
  BY DEF LineInv, LineTrigger, TrigRecords, Commits
<1>4. ASSUME NEW k \in ended
      PROVE  k \in DOMAIN jobs /\ jobs[k].step = "triggering" /\ jobs[k].pipeline = t.commit.repo
  <2>1. k \in DOMAIN jobs /\ jobs[k].pipeline = t.commit.repo /\ jobs[k].out = t.commit.n
    BY DEF Producers
  <2>2. PICK l \in DOMAIN jobs : Producing(l, t)
    BY <1>1, <1>3, <2>1 DEF JobRecords, LineTrigger
  <2>3. jobs[l].pipeline = jobs[k].pipeline /\ jobs[l].out = jobs[k].out /\ jobs[l].step = "triggering"
    BY <2>1, <2>2 DEF Producing
  <2>4. jobs[k].out > 0 /\ jobs[k].out \in Nat
    BY <1>1, <1>3, <2>1
  <2>6. k = l
    BY <2>1, <2>3, <2>4, LineOneOutput
  <2> QED BY <2>1, <2>3, <2>6
<1>5. ASSUME NEW k \in DOMAIN jobs
      PROVE  /\ done(k) \in JobRecords /\ done(k).step = "done" /\ done(k).inputs = jobs[k].inputs
             /\ done(k).late = jobs[k].late /\ done(k).pipeline = jobs[k].pipeline
             /\ done(k).out = jobs[k].out /\ done(k).state = jobs[k].state
             /\ done(k).propagated = jobs[k].propagated /\ done(k).turn = jobs[k].turn
  BY <1>1 DEF JobRecords, JobSteps
<1> HIDE DEF done, ended
<1>6. /\ DOMAIN jobs' = DOMAIN jobs /\ jobs' \in Seq(JobRecords)
      /\ \A k \in DOMAIN jobs :
           /\ jobs'[k].inputs = jobs[k].inputs /\ jobs'[k].late = jobs[k].late
           /\ jobs'[k].pipeline = jobs[k].pipeline /\ jobs'[k].out = jobs[k].out
           /\ jobs'[k].state = jobs[k].state /\ jobs'[k].propagated = jobs[k].propagated
           /\ jobs'[k].turn = jobs[k].turn
           /\ \/ jobs'[k].step = jobs[k].step /\ k \notin ended
              \/ jobs[k].step = "triggering" /\ jobs'[k].step = "done" /\ k \in ended
  BY <1>1, <1>2, <1>4, <1>5
<1>7. ASSUME NEW k \in DOMAIN jobs PROVE LineJob(jobs[k])'
  BY <1>1, <1>2, <1>6 DEF LineJob, InputOf
<1>8. ASSUME NEW k \in DOMAIN jobs, NEW l \in DOMAIN jobs, jobs[k].pipeline = jobs[l].pipeline
      PROVE  InTurn(k, l)' /\ Apart(k, l)' /\ InOrderOf(k, l)'
  <2>1. InTurn(k, l) /\ Apart(k, l) /\ InOrderOf(k, l)
    BY <1>8 DEF LineInv, LineJobs
  <2>2. InTurn(k, l)'
    BY <1>6, <2>1 DEF InTurn
  <2> QED BY <1>2, <1>6, <2>1, <2>2 DEF Apart, InOrderOf
<1>9. ASSUME NEW k \in DOMAIN jobs, NEW l \in DOMAIN jobs PROVE FollowsFailure(k, l)'
  BY <1>6 DEF LineInv, LineJobs, FollowsFailure
<1>10. LineJobs'
  BY <1>6, <1>7, <1>8, <1>9 DEF LineJobs
<1>11. ASSUME NEW u \in trigs \ {t} PROVE LineTrigger(u)'
  <2>1. LineTrigger(u) /\ (u.commit.repo \in Pipelines => u.commit.repo # t.commit.repo)
    BY DagAssumption DEF LineInv
  <2>2. ASSUME NEW k \in DOMAIN jobs, Producing(k, u), u.commit.repo \in Pipelines
        PROVE  Producing(k, u)'
    BY <1>4, <1>6, <2>1, <2>2 DEF Producing
  <2> QED BY <1>2, <1>6, <2>1, <2>2 DEF LineTrigger, Line!Consumers, Pairs
<1> QED BY <1>2, <1>10, <1>11 DEF LineInv

(* A trigger spawns its consumer's job on the head it is for, with the     *)
(* failure of the job that made it, if any.                                *)
LEMMA LineSpawns ==
  ASSUME OneSided, LineInv, NEW t \in trigs, NEW k \in t.todo, Line!Spawn(t, k)
  PROVE  LineInv'
<1>1. /\ jobs \in Seq(JobRecords) /\ DOMAIN jobs = 1 .. Len(jobs) /\ Len(jobs) \in Nat
      /\ \A i \in DOMAIN jobs : jobs[i] \in JobRecords /\ LineJob(jobs[i])
      /\ head \in [Repos -> Nat]
  BY DEF LineInv, LineJobs
<1>2. /\ LineTrigger(t) /\ t \in TrigRecords /\ t.commit.n \in Nat \ {0} /\ t.commit.repo \in Repos
      /\ t.commit \in Commits
  BY DEF LineInv, LineTrigger, TrigRecords, Commits
<1> DEFINE r == t.commit.repo
           p == PipelineList[k]
<1>3. /\ p \in Pipelines /\ p \in Repos /\ LineSides[p] = <<r>> /\ InputOf(p) = r /\ k \in t.todo
  BY <1>2, LineConsumer DEF LineTrigger, Repos
<1>4. /\ UNCHANGED <<head, gate, crossed>>
      /\ \E m \in t.commit.n .. head[r] : t.pair = <<m>>
  <2>1. Len(t.pair) = Len(LineSides[p]) /\ UNCHANGED <<head, gate, crossed>>
    BY DEF Line!Spawn
  <2>2. t.pair # <<>>
    <3>1. Len(LineSides[p]) = 1 /\ Len(<<>>) = 0
      BY <1>3 DEF OneSided
    <3>2. Len(t.pair) # Len(<<>>)
      BY <2>1, <3>1
    <3> QED BY <3>2, Zenon
  <2> QED BY <1>2, <2>1, <2>2 DEF LineTrigger, Pairs
<1>m. PICK m \in t.commit.n .. head[r] : t.pair = <<m>>
  BY <1>4
<1>5. /\ head[r] \in Nat /\ m \in Nat \ {0} /\ m <= head[r] /\ Commit(r, m) \in Commits
      /\ r \notin crossed => m = head[r] /\ m = t.commit.n /\ t.commit = Commit(r, m)
  <2>1. head[r] \in Nat
    BY <1>1, <1>2
  <2>2. m \in Nat \ {0} /\ m <= head[r]
    BY <1>2, <1>m, <2>1
  <2>3. r \notin crossed => m = head[r] /\ m = t.commit.n
    BY <1>2, <1>m, <2>1 DEF LineTrigger
  <2> QED BY <1>2, <2>1, <2>2, <2>3 DEF Commit, Commits
<1>6. Line!Paired(p, t.pair) = {Commit(r, m)}
  <2>1. DOMAIN t.pair = {1} /\ t.pair[1] = m /\ m > 0 /\ LineSides[p][1] = r
    BY <1>3, <1>m, <1>5
  <2>2. Line!Paired(p, t.pair) = {Line!Commit(LineSides[p][1], t.pair[1])}
    BY <2>1 DEF Line!Paired
  <2> QED BY <2>1, <2>2, LineNames
<1>7. trigs' = (trigs \ {t}) \cup {[t EXCEPT !.todo = t.todo \ {k}, !.pair = <<>>]}
  BY DEF Line!Spawn
<1>8. PICK new : new = Line!NewJob(p, t.pair, t.commit)
  OBVIOUS
<1>9. /\ new \in JobRecords /\ new.pipeline = p /\ new.inputs = {Commit(r, m)} /\ new.late = {}
      /\ new.state = "queued" /\ new.step = "spawned" /\ new.turn = 0 /\ new.out = 0
      /\ new.propagated <=> \E i \in Producers(t.commit) : jobs[i].state = "failure"
  BY <1>2, <1>3, <1>5, <1>6, <1>8, LineNames DEF Line!NewJob, JobRecords, JobSteps
<1>10. jobs' = jobs \/ jobs' = Append(jobs, new)
  BY <1>8 DEF Line!Spawn
<1>11. CASE jobs' = jobs
  <2>1. LineJobs'
    BY <1>4, <1>11 DEF LineInv, LineJobs, LineJob, InTurn, Apart, InOrderOf, FollowsFailure, InputOf
  <2> QED BY <1>4, <1>7, <1>11, <2>1, LineTriggerMoves DEF Pairs
<1>12. CASE jobs' = Append(jobs, new)
  <2> DEFINE z == Len(jobs) + 1
  <2>1. /\ jobs' \in Seq(JobRecords) /\ DOMAIN jobs' = DOMAIN jobs \cup {z} /\ jobs'[z] = new
        /\ \A i \in DOMAIN jobs : jobs'[i] = jobs[i] /\ i < z /\ i \in Nat
        /\ \A i \in DOMAIN jobs' : i \in DOMAIN jobs \/ i = z
    BY <1>1, <1>9, <1>12
  <2> HIDE DEF z
  <2>2. ASSUME NEW i \in DOMAIN jobs' PROVE LineJob(jobs[i])'
    <3>1. CASE i \in DOMAIN jobs
      BY <1>1, <1>4, <2>1, <3>1 DEF LineJob, InputOf
    <3>2. CASE i = z
      <4>1. /\ head[p] \in Nat /\ 0 <= head[p] /\ m <= head[r] /\ ~(0 > 0)
            /\ gate[p] \in Nat /\ 0 <= gate[p]
        BY <1>1, <1>3, <1>5 DEF LineInv
      <4>2. \A c \in new.inputs : c.repo = r /\ c.n = m
        BY <1>9 DEF Commit
      <4> QED BY <1>3, <1>4, <1>9, <2>1, <3>2, <4>1, <4>2 DEF LineJob, InputOf
    <3> QED BY <2>1, <3>1, <3>2
  <2>3. ASSUME NEW i \in DOMAIN jobs', NEW l \in DOMAIN jobs', jobs'[i].pipeline = jobs'[l].pipeline
        PROVE  InTurn(i, l)' /\ Apart(i, l)' /\ InOrderOf(i, l)'
    <3>1. CASE i \in DOMAIN jobs /\ l \in DOMAIN jobs
      BY <1>4, <2>1, <2>3, <3>1 DEF LineInv, LineJobs, InTurn, Apart, InOrderOf
    <3>2. CASE i \in DOMAIN jobs /\ l = z
      <4>1. /\ jobs[i].pipeline = p /\ jobs'[i] = jobs[i] /\ jobs'[l] = new
            /\ jobs[i].turn \in Nat
        BY <1>1, <1>9, <2>1, <2>3, <3>2 DEF JobRecords
      <4>2. \A c \in jobs[i].inputs, d \in new.inputs : c.repo \notin crossed' => c.n <= d.n
        <5>1. ASSUME NEW c \in jobs[i].inputs, c.repo \notin crossed PROVE c.n <= m
          BY <1>1, <1>3, <1>5, <3>2, <4>1, <5>1 DEF LineJob
        <5> QED BY <1>4, <1>9, <5>1 DEF Commit
      <4> QED BY <1>9, <4>1, <4>2 DEF InTurn, Apart, InOrderOf
    <3>3. CASE i = z
      <4>1. ~(i < l) /\ jobs'[i].turn = 0
        BY <1>1, <1>9, <2>1, <3>3 DEF z
      <4> QED BY <4>1 DEF InTurn, Apart, InOrderOf
    <3> QED BY <2>1, <3>1, <3>2, <3>3
  <2>4. ASSUME NEW i \in DOMAIN jobs', NEW l \in DOMAIN jobs' PROVE FollowsFailure(i, l)'
    <3>1. CASE l = z
      BY <1>9, <2>1, <3>1 DEF FollowsFailure
    <3>2. CASE l \in DOMAIN jobs /\ i \in DOMAIN jobs
      BY <2>1, <3>2 DEF LineInv, LineJobs, FollowsFailure
    <3>3. CASE l \in DOMAIN jobs /\ i = z
      <4>1. SUFFICES ASSUME jobs[l].out > 0, Commit(jobs[l].pipeline, jobs[l].out) = Commit(r, m)
            PROVE  /\ jobs[l].step \in {"triggering", "done"}
                   /\ jobs[l].state = "failure" => new.propagated
        BY <1>9, <2>1, <3>3 DEF FollowsFailure
      <4>2. jobs[l].pipeline = r /\ jobs[l].out = m
        BY <4>1 DEF Commit
      <4>4. jobs[l].pipeline \in Pipelines
        BY <1>1, <3>3 DEF JobRecords
      <4>5. m = t.commit.n
        BY <1>5, <4>2, <4>4, DagAssumption DEF LineInv
      <4>3. l \in Producers(t.commit)
        BY <3>3, <4>2, <4>5 DEF Producers
      <4>7. PICK j \in DOMAIN jobs : Producing(j, t)
        BY <1>2, <4>2, <4>4 DEF LineTrigger
      <4>6. /\ jobs[j].pipeline = jobs[l].pipeline /\ jobs[j].out = jobs[l].out
            /\ jobs[j].step = "triggering"
        BY <4>2, <4>5, <4>7 DEF Producing
      <4>8. j = l
        BY <3>3, <4>1, <4>6, LineOneOutput
      <4> QED BY <1>9, <4>3, <4>6, <4>8
    <3> QED BY <2>1, <3>1, <3>2, <3>3
  <2>5. LineJobs'
    BY <2>1, <2>2, <2>3, <2>4 DEF LineJobs
  <2> QED BY <1>4, <1>7, <2>1, <2>5, LineTriggerMoves DEF Pairs
<1> QED BY <1>10, <1>11, <1>12

LEMMA LineStep ==
  ASSUME OneSided, LineInv, [Line!Next]_vars
  PROVE  LineInv'
<1>1. CASE UNCHANGED vars
  BY <1>1 DEF vars, LineInv, LineJobs, LineJob, InTurn, Apart, InOrderOf, FollowsFailure, InputOf,
              LineTrigger, Pairs,
              Producing, Line!Consumers
<1>2. ASSUME NEW s \in Sources, Line!ClientCommit(s) PROVE LineInv'
  BY <1>2, LineCommits
<1>3. ASSUME NEW t \in trigs, Line!TrigNext(t) PROVE LineInv'
  BY <1>3, LineReturns, LineReads, LineSpawns DEF Line!TrigNext
<1>4. ASSUME NEW i \in DOMAIN jobs, Line!JobNext(i) PROVE LineInv'
  BY <1>4, LineWorks
<1> QED BY <1>1, <1>2, <1>3, <1>4 DEF Line!Next

----------------------------------------------------------------------------
(* Together: a step of one model leaves the others as they are.            *)

LEMMA FlowParts ==
  ASSUME [FlowNext]_flowVars
  PROVE  [Blob!Next]_blobVars /\ [Daemon!Next]_bootVars /\ [Cron!Next]_cronVars /\ part' = part
BY DEF FlowNext, flowVars, blobVars, bootVars, cronVars

(* Garbage collection and backup (api.go, collectGarbage; backup.go), with *)
(* any writes, failures and crashes in between: every object a commit or a *)
(* tag refers to is whole, unless its content was cut short, is being      *)
(* written, or was written while a collection ran, and a finished archive  *)
(* has every object it refers to that was not such a one.                  *)
THEOREM BlobsAreKept == FlowSpec => []BlobsKept
<1>1. FlowInit => BlobInv
  BY BlobInitial DEF FlowInit
<1>2. BlobInv /\ [FlowNext]_flowVars => BlobInv'
  BY FlowParts, BlobStep
<1>3. BlobInv => BlobsKept
  BY BlobWhole DEF BlobsKept
<1> QED
  BY <1>1, <1>2, <1>3, PTL DEF FlowSpec

(* The start of the daemon (daemon.go, pruneOrphans; jobs.go,              *)
(* respawnBackgroundJobs; cron.go, restartCronTickers): whenever it        *)
(* crashed, no record of a job dangles once it listens and background      *)
(* pipelines have their jobs back.  Whatever is created, updated, deleted  *)
(* and reset, by requests that overlap and fail too, every schedule of a   *)
(* pipeline's record has a ticker and none outlives its pipeline, but for  *)
(* the pipelines whose own requests overlapped or failed and repositories  *)
(* two pipelines share: those are recorded, nothing is assumed of them.    *)
THEOREM RestartIsSound == FlowSpec => []RestartSound
<1> DEFINE Inv == BootInv /\ CronInv
<1>1. FlowInit => Inv
  BY BootInitial, CronInitial DEF FlowInit
<1>2. Inv /\ [FlowNext]_flowVars => Inv'
  BY FlowParts, BootStep, CronStep
<1>3. Inv => RestartSound
  BY BootSound, CronLive DEF RestartSound
<1> QED
  BY <1>1, <1>2, <1>3, PTL DEF FlowSpec

(* One live job per pairing (jobs.go, triggerForCommit and                 *)
(* hasRunningJobWithInputs; execute.go, the late heads of runJob): in any  *)
(* graph of pipelines, however triggers, failures and late heads fall      *)
(* together, two live jobs of a pipeline work on the same full pairing of  *)
(* heads only until the one that took a late head has checked its          *)
(* siblings.                                                               *)
THEOREM PairingsAreApart == FlowSpec => []DiamondPaired
<1> DEFINE Inv == part = "diamond" => PairInv
<1>1. FlowInit => Inv
  BY PairInitial DEF FlowInit
<1>2. Inv /\ [FlowNext]_flowVars => Inv'
  <2> SUFFICES ASSUME Inv, [FlowNext]_flowVars, part' = "diamond" PROVE PairInv'
    OBVIOUS
  <2>1. part = "diamond"
    BY FlowParts
  <2>2. [Next]_vars
    BY <2>1 DEF FlowNext, flowVars
  <2> QED
    BY <2>1, <2>2, PairStep
<1>3. Inv => DiamondPaired
  BY DEF PairInv, DiamondPaired
<1> QED
  BY <1>1, <1>2, <1>3, PTL DEF FlowSpec

(* Along a line of pipelines (jobs.go, triggerForCommit and jobGate;       *)
(* execute.go, runJob): when each reads one repository, then whatever      *)
(* fails or finds no datums in between, however requests overlap and       *)
(* whenever goroutines run, jobs are spawned in the order of the commits   *)
(* they read, but for those of a client's repository whose triggers        *)
(* overlapped, the outputs of a pipeline are in the order in which its     *)
(* jobs entered the gate, and no job succeeds on the output of a failed    *)
(* one.                                                                    *)
THEOREM LinesAreOrdered ==
  ASSUME OneSided
  PROVE  FlowSpec => []ChainOrdered
<1> DEFINE Inv == part = "chain" => LineInv
<1>1. FlowInit => Inv
  BY LineInitial DEF FlowInit
<1>2. Inv /\ [FlowNext]_flowVars => Inv'
  <2> SUFFICES ASSUME Inv, [FlowNext]_flowVars, part' = "chain" PROVE LineInv'
    OBVIOUS
  <2>1. part = "chain"
    BY FlowParts
  <2>2. [Line!Next]_vars
    BY <2>1 DEF FlowNext, flowVars
  <2> QED
    BY <2>1, <2>2, LineStep
<1>3. Inv => ChainOrdered
  BY LineSound DEF ChainOrdered
<1> QED
  BY <1>1, <1>2, <1>3, PTL DEF FlowSpec
=============================================================================
