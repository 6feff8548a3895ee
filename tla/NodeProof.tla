----------------------------- MODULE NodeProof -----------------------------
(***************************************************************************)
(* What runs on a node, for every set of files, every number of commits    *)
(* and failures and every number of concurrent updates: a spout's loop, a  *)
(* service that sleeps, and the update of the binary.  Each part has an    *)
(* inductive invariant of its own; a step of MCNode is a step of one part  *)
(* and leaves the variables of the others alone.                           *)
(***************************************************************************)
EXTENDS MCNode, TLAPS

----------------------------------------------------------------------------
(* The spout.                                                              *)

(* What a cycle is about to commit is in the directory and was read there, *)
(* and once it is committed, and the job is not being replaced, it is on   *)
(* the branch.                                                             *)
SpoutInv ==
  /\ Spouts!TypeOK
  /\ ~spoutCancelled => \A f \in Files : committed[f] # 0 => branch[f] # 0
  /\ poll.step \in {"verify", "commit", "write"} =>
       \A f \in poll.changed : dir[f] # 0 /\ poll.seen[f] # 0
  /\ poll.step = "refresh" /\ ~spoutCancelled => \A f \in poll.changed : branch[f] # 0

(* Every step of the container, of a request and of the loop keeps the     *)
(* types.                                                                  *)
LEMMA SpoutTypeStep == Spouts!TypeOK /\ [Spouts!Next]_spoutVars => Spouts!TypeOK'
<1> SUFFICES ASSUME Spouts!TypeOK, [Spouts!Next]_spoutVars PROVE Spouts!TypeOK'
  OBVIOUS
<1> USE NodeAssumption DEF Spouts!TypeOK, Spouts!Contents, Spouts!At, Spouts!Goto, Spouts!Settle, Spouts!Polls
<1>i. Spouts!Idle \in Spouts!Polls
  BY DEF Spouts!Idle, Spouts!Nothing
<1>1. ASSUME NEW f \in Files, Spouts!Write(f) PROVE Spouts!TypeOK'
  BY <1>1 DEF Spouts!Write
<1>2. ASSUME NEW f \in Files, Spouts!OverwriteFile(f) PROVE Spouts!TypeOK'
  BY <1>2 DEF Spouts!OverwriteFile
<1>3. CASE Spouts!Exit
  BY <1>3 DEF Spouts!Exit
<1>4. CASE Spouts!Cancel
  BY <1>4 DEF Spouts!Cancel
<1>12. CASE Spouts!Start
  BY <1>i, <1>12 DEF Spouts!Start
<1>13. CASE Spouts!StartFails
  BY <1>i, <1>13 DEF Spouts!StartFails
<1>14. CASE Spouts!Killed
  BY <1>i, <1>14 DEF Spouts!Killed
<1>15. CASE Spouts!Inspect
  BY <1>i, <1>15 DEF Spouts!Inspect
<1>16. CASE Spouts!InspectFails
  <2>1. poll' \in Spouts!Polls
    BY <1>i, <1>16 DEF Spouts!InspectFails
  <2>2. spoutFailures' \in 0 .. MaxFailures
    BY <1>16 DEF Spouts!InspectFails
  <2> QED
    BY <1>16, <2>1, <2>2 DEF Spouts!InspectFails
<1>5. CASE Spouts!Snapshot
  BY <1>5 DEF Spouts!Snapshot
<1>6. CASE Spouts!Verify
  BY <1>6 DEF Spouts!Verify
<1>7. CASE Spouts!StartCycle
  BY <1>7 DEF Spouts!StartCycle
<1>8. CASE Spouts!FinishCommit
  BY <1>8 DEF Spouts!FinishCommit
<1>9. CASE Spouts!CycleFails
  BY <1>i, <1>9 DEF Spouts!CycleFails, Spouts!EndCycle
<1>10. CASE Spouts!Refresh
  BY <1>i, <1>10 DEF Spouts!Refresh, Spouts!EndCycle, Spouts!Committed
<1>11. CASE UNCHANGED spoutVars
  BY <1>11 DEF spoutVars
<1> QED
  BY <1>1, <1>2, <1>3, <1>4, <1>5, <1>6, <1>7, <1>8, <1>9, <1>10, <1>11, <1>12, <1>13, <1>14, <1>15, <1>16 DEF Spouts!Next

(* The spout's invariant is inductive.                                     *)
LEMMA SpoutStep == SpoutInv /\ [Spouts!Next]_spoutVars => SpoutInv'
<1> SUFFICES ASSUME SpoutInv, [Spouts!Next]_spoutVars PROVE SpoutInv'
  OBVIOUS
<1>t. Spouts!TypeOK /\ Spouts!TypeOK'
  BY SpoutTypeStep DEF SpoutInv
<1> DEFINE Rest == /\ ~spoutCancelled => \A f \in Files : committed[f] # 0 => branch[f] # 0
                   /\ poll.step \in {"verify", "commit", "write"} =>
                        \A f \in poll.changed : dir[f] # 0 /\ poll.seen[f] # 0
                   /\ poll.step = "refresh" /\ ~spoutCancelled =>
                        \A f \in poll.changed : branch[f] # 0
<1>s. SUFFICES Rest'
  BY <1>t DEF SpoutInv
<1>r. Rest
  BY DEF SpoutInv
<1>i. /\ Spouts!Idle.step = "inspect"
      /\ \A s : [Spouts!Idle EXCEPT !.step = s].step = s
  BY DEF Spouts!Idle
<1> USE <1>t, <1>r DEF Spouts!TypeOK, Spouts!Contents, Spouts!At, Spouts!Goto, Spouts!Settle, Spouts!Polls
<1>1. ASSUME NEW f \in Files, Spouts!Write(f) PROVE Rest'
  BY <1>1, NodeAssumption DEF Spouts!Write
<1>2. ASSUME NEW f \in Files, Spouts!OverwriteFile(f) PROVE Rest'
  BY <1>2 DEF Spouts!OverwriteFile
<1>3. CASE Spouts!Exit \/ Spouts!Cancel
  BY <1>3 DEF Spouts!Exit, Spouts!Cancel
<1>4. CASE Spouts!Start \/ Spouts!StartFails \/ Spouts!Killed
  BY <1>4, <1>i DEF Spouts!Start, Spouts!StartFails, Spouts!Killed
<1>5. CASE Spouts!Inspect \/ Spouts!InspectFails
  <2>1. poll'.step = "snapshot"
    BY <1>5 DEF Spouts!Inspect, Spouts!InspectFails, Spouts!Idle
  <2> QED
    BY <1>5, <2>1 DEF Spouts!Inspect, Spouts!InspectFails
<1>6. CASE Spouts!Snapshot
  BY <1>6 DEF Spouts!Snapshot
<1>7. CASE Spouts!Verify
  BY <1>7 DEF Spouts!Verify
<1>8. CASE Spouts!StartCycle
  BY <1>8 DEF Spouts!StartCycle
<1>9. CASE Spouts!FinishCommit
  BY <1>9 DEF Spouts!FinishCommit
<1>10. CASE Spouts!CycleFails
  BY <1>10, <1>i DEF Spouts!CycleFails, Spouts!EndCycle
<1>11. CASE Spouts!Refresh
  <2>1. poll'.step \in {"inspect", "end"}
    BY <1>11, <1>i DEF Spouts!Refresh, Spouts!EndCycle
  <2>2. ASSUME ~spoutCancelled, NEW f \in Files, committed'[f] # 0 PROVE branch[f] # 0
    BY <1>11, <2>2 DEF Spouts!Refresh, Spouts!Committed
  <2> QED
    BY <1>11, <2>1, <2>2 DEF Spouts!Refresh
<1>12. CASE UNCHANGED spoutVars
  BY <1>12 DEF spoutVars
<1> QED
  BY <1>1, <1>2, <1>3, <1>4, <1>5, <1>6, <1>7, <1>8, <1>9, <1>10, <1>11, <1>12 DEF Spouts!Next

----------------------------------------------------------------------------
(* The service.                                                            *)

(* A head that moved is unsaid or has woken the loop, and the revision     *)
(* that is served, as long as nothing failed, lies between the one the     *)
(* loop takes as served and the head; so does the one a refresh ships.     *)
ServiceInv ==
  /\ head \in Nat /\ last \in Nat /\ served \in Nat /\ call \in Nat /\ failures \in Nat
  /\ last <= head
  /\ step = "select" => woken \/ unsaid \/ last = head
  /\ step = "fill" /\ remote => last <= call /\ call <= head
  /\ failures = 0 /\ step \in {"start", "bind", "grab", "check", "select"} =>
       last <= served /\ served <= head

(* The service's invariant is inductive.                                   *)
LEMMA ServiceStep == ServiceInv /\ [Services!Next]_serviceVars => ServiceInv'
<1> SUFFICES ASSUME ServiceInv, [Services!Next]_serviceVars PROVE ServiceInv'
  OBVIOUS
<1> USE DEF ServiceInv, Services!Settle
<1>1. CASE Services!Environment
  BY <1>1 DEF Services!Environment, Services!FinishCommit, Services!Cancel, Services!ProcessExits
<1>2. CASE Services!Signal \/ Services!ProcessStarts
  BY <1>2 DEF Services!Signal, Services!ProcessStarts
<1>3. CASE Services!Placed \/ Services!CancelledUnplaced \/ Services!Materialize
  BY <1>3 DEF Services!Placed, Services!CancelledUnplaced, Services!Materialize
<1>4. CASE Services!StartProcess \/ Services!StartRemote
  BY <1>4 DEF Services!StartProcess, Services!StartRemote
<1>5. CASE Services!SecretMissing \/ Services!HostRefuses \/ Services!BindFails
  BY <1>5 DEF Services!SecretMissing, Services!HostRefuses, Services!BindFails
<1>6. CASE Services!Bind \/ Services!Grab \/ Services!Check
  BY <1>6 DEF Services!Bind, Services!Grab, Services!Check
<1>7. CASE Services!Clear \/ Services!Fill
  BY <1>7 DEF Services!Clear, Services!Fill
<1>8. CASE Services!FillFails
  BY <1>8 DEF Services!FillFails
<1>9. CASE Services!Woken \/ Services!SeesCancel \/ Services!SeesExit
  BY <1>9 DEF Services!Woken, Services!SeesCancel, Services!SeesExit
<1>10. CASE UNCHANGED serviceVars
  BY <1>10 DEF serviceVars
<1> QED
  BY <1>1, <1>2, <1>3, <1>4, <1>5, <1>6, <1>7, <1>8, <1>9, <1>10
     DEF Services!Next, Services!Loop

----------------------------------------------------------------------------
(* The update.                                                             *)

Stages == {"check", "download", "verify", "stage", "fill", "rename", "remove", "sudo", "over"}

(* What an update stages is the verified download, and the installed file  *)
(* stays as it was, out of the way once an update was renamed over it.     *)
StagesVerified ==
  /\ \A u \in Updaters : update[u] \in {"stage", "fill", "rename"} => tmp[u] = "release"
  /\ \A u \in Updaters : update[u] = "fill" => fd[u] \in Install!Staging
  /\ \A u \in Updaters : result[u] = "updated" => dst # Installed
  /\ \A i \in Install!Inodes : content[i] # "corrupt" /\ (content[i] = "old" <=> i = Installed)
  /\ staged # Installed

(* An inode that has been staged holds the release, or whoever truncated   *)
(* it last is going to fill it, or was cut off at it.                      *)
Owed(i) ==
  LET w == opener[i] IN
  /\ w \in Updaters
  /\ (Install!Fills(w, i) /\ w \notin truncated) \/ <<w, i>> \in cut
StagedIsOwed ==
  /\ \A i \in Install!Staging : i = dst \/ i = staged => content[i] \in {"partial", "release"}
  /\ \A i \in Install!Staging : content[i] = "partial" => Owed(i)
  /\ \A u \in truncated : update[u] = "fill" => opener[fd[u]] # u

(* An update does not install what it has itself left unfinished: when it  *)
(* is about to rename, the file it opened last is the one that was staged. *)
InstallsWhole ==
  /\ \A u \in Updaters : \A i \in Install!Staging :
       update[u] \in {"fill", "rename"} /\ opener[i] = u /\ i = staged =>
         i = fd[u] /\ (update[u] = "rename" => content[i] # "partial")
  /\ dst # Installed => /\ installer \in Updaters /\ update[installer] = "over"
                        /\ content[dst] = "partial" => opener[dst] # installer

UpdateInv == Install!TypeOK /\ StagesVerified /\ StagedIsOwed /\ InstallsWhole

(* A step of an update that touches no file but for the staged name, which *)
(* it may remove: a write that it gives up is cut off.                     *)
LEMMA UpdateQuiet ==
  ASSUME UpdateInv, NEW u \in Updaters, NEW s \in Stages \ {"fill", "rename"},
         update[u] # "over", update' = [update EXCEPT ![u] = s],
         run' \in [Updaters -> 1 .. MaxRuns],
         tmp' \in [Updaters -> {"none", "release", "corrupt"}],
         \A v \in Updaters \ {u} : tmp'[v] = tmp[v],
         s = "stage" => tmp'[u] = "release",
         result' \in [Updaters -> {"none", "current", "updated", "failed", "crashed"}],
         \A v \in Updaters : result'[v] = "updated" => result[v] = "updated",
         staged' \in {staged, NoFile}, Install!Cut(u),
         UNCHANGED <<fd, content, dst, truncated, opener, installer>>
  PROVE  UpdateInv'
<1>1. /\ \A v \in Updaters \ {u} : update'[v] = update[v]
      /\ update'[u] = s
      /\ update' \in [Updaters -> Stages]
  BY DEF UpdateInv, Install!TypeOK, Stages
<1>2. /\ cut \subseteq cut'
      /\ update[u] = "fill" => <<u, fd[u]>> \in cut'
      /\ cut' \subseteq Updaters \X Install!Inodes
  <2>1. update[u] = "fill" => fd[u] \in Install!Inodes
    BY DEF UpdateInv, StagesVerified, Install!Inodes
  <2> QED
    BY <2>1 DEF Install!Cut, UpdateInv, Install!TypeOK
<1>3. Install!TypeOK'
  BY <1>1, <1>2 DEF UpdateInv, Install!TypeOK, Stages
<1>4. StagesVerified'
  BY <1>1, NodeAssumption DEF UpdateInv, StagesVerified, Install!TypeOK
<1>5. StagedIsOwed'
  <2>1. ASSUME NEW i \in Install!Staging, Owed(i) PROVE Owed(i)'
    <3>1. CASE opener[i] = u /\ Install!Fills(u, i)
      BY <1>2, <2>1, <3>1 DEF Owed, Install!Fills
    <3>2. CASE opener[i] # u \/ ~Install!Fills(u, i)
      BY <1>1, <1>2, <2>1, <3>2 DEF Owed, Install!Fills
    <3> QED
      BY <3>1, <3>2
  <2>2. \A v \in truncated' : update'[v] = "fill" => update[v] = "fill"
    BY <1>1 DEF UpdateInv, Install!TypeOK
  <2>3. NoFile \notin Install!Staging
    BY NodeAssumption DEF Install!Staging
  <2> QED
    BY <2>1, <2>2, <2>3 DEF UpdateInv, StagedIsOwed
<1>6. InstallsWhole'
  <2>1. \A v \in Updaters : update'[v] \in {"fill", "rename"} => update'[v] = update[v]
    BY <1>1
  <2>2. NoFile \notin Install!Staging
    BY NodeAssumption DEF Install!Staging
  <2>3. \A v \in Updaters : update[v] = "over" => update'[v] = "over"
    BY <1>1
  <2> QED
    BY <2>1, <2>2, <2>3 DEF UpdateInv, InstallsWhole
<1> QED
  BY <1>3, <1>4, <1>5, <1>6 DEF UpdateInv

(* An update opens the staged file: it answers for it now.                 *)
LEMMA StageStep ==
  ASSUME UpdateInv, NEW u \in Updaters, Install!Stage(u)
  PROVE  UpdateInv'
<1> USE DEF Install!Goto
<1>1. PICK i \in Install!Staging : i = IF staged = NoFile THEN <<u, run[u]>> ELSE staged
  BY DEF UpdateInv, Install!TypeOK, StagesVerified, Install!Staging, Install!Inodes
<1>2. /\ update' = [update EXCEPT ![u] = "fill"] /\ update[u] = "stage"
      /\ fd' = [fd EXCEPT ![u] = i] /\ staged' = i
      /\ content' = [content EXCEPT ![i] = "partial"]
      /\ truncated' = (truncated \ {u}) \cup {v \in Updaters \ {u} : Install!Fills(v, i)}
      /\ opener' = [opener EXCEPT ![i] = u]
      /\ UNCHANGED <<run, tmp, result, dst, cut, installer>>
  BY <1>1 DEF Install!Stage
<1>3. i # Installed /\ i \in Install!Inodes /\ i # NoFile
  BY <1>1, NodeAssumption DEF Install!Inodes, Install!Staging
<1>4. /\ \A v \in Updaters \ {u} : update'[v] = update[v] /\ fd'[v] = fd[v]
      /\ update'[u] = "fill" /\ fd'[u] = i
      /\ content'[i] = "partial" /\ opener'[i] = u
      /\ \A j \in Install!Inodes \ {i} : content'[j] = content[j] /\ opener'[j] = opener[j]
  BY <1>2, <1>3 DEF UpdateInv, Install!TypeOK
<1>5. Install!TypeOK'
  BY <1>2, <1>3 DEF UpdateInv, Install!TypeOK
<1>6. StagesVerified'
  BY <1>1, <1>2, <1>3, <1>4 DEF UpdateInv, StagesVerified
<1>7. StagedIsOwed'
  <2>1. Owed(i)'
    BY <1>2, <1>4 DEF Owed, Install!Fills
  <2>2. ASSUME NEW j \in Install!Staging, j # i, Owed(j) PROVE Owed(j)'
    <3>1. j \in Install!Inodes
      BY DEF Install!Inodes
    <3>2. opener'[j] = opener[j] /\ opener[j] \in Updaters
      BY <1>4, <2>2, <3>1 DEF Owed
    <3>3. CASE <<opener[j], j>> \in cut
      BY <1>2, <3>2, <3>3 DEF Owed
    <3>4. CASE Install!Fills(opener[j], j) /\ opener[j] \notin truncated
      <4>1. opener[j] # u
        BY <1>2, <3>4 DEF Install!Fills
      <4>2. ~Install!Fills(opener[j], i)
        BY <2>2, <3>4 DEF Install!Fills
      <4> QED
        BY <1>2, <1>4, <3>2, <3>4, <4>1, <4>2 DEF Owed, Install!Fills
    <3> QED
      BY <2>2, <3>3, <3>4 DEF Owed
  <2>3. ASSUME NEW v \in truncated', update'[v] = "fill" PROVE opener'[fd'[v]] # v
    <3>1. v \in Updaters \ {u}
      BY <1>2, <2>3 DEF UpdateInv, Install!TypeOK
    <3>2. CASE fd[v] = i
      BY <1>4, <3>1, <3>2
    <3>3. CASE fd[v] # i
      <4>1. v \in truncated /\ update[v] = "fill"
        BY <1>2, <1>4, <2>3, <3>1, <3>3 DEF Install!Fills
      <4>2. fd[v] \in Install!Inodes
        BY <3>1, <4>1 DEF UpdateInv, StagesVerified, Install!Inodes
      <4> QED
        BY <1>4, <3>1, <3>3, <4>1, <4>2 DEF UpdateInv, StagedIsOwed
    <3> QED
      BY <3>2, <3>3
  <2>4. \A j \in Install!Staging : j = dst' \/ j = staged' => content'[j] \in {"partial", "release"}
    BY <1>2, <1>4 DEF UpdateInv, StagedIsOwed, Install!Inodes
  <2>5. \A j \in Install!Staging \ {i} : content'[j] = "partial" => Owed(j)'
    BY <1>4, <2>2 DEF UpdateInv, StagedIsOwed, Install!Inodes
  <2> QED
    BY <2>1, <2>3, <2>4, <2>5 DEF StagedIsOwed
<1>8. InstallsWhole'
  <2>1. ASSUME NEW v \in Updaters, NEW j \in Install!Staging,
               update'[v] \in {"fill", "rename"}, opener'[j] = v, j = staged'
        PROVE  j = fd'[v] /\ (update'[v] = "rename" => content'[j] # "partial")
    BY <1>2, <1>4, <2>1
  <2>2. dst # Installed => installer \in Updaters /\ update[installer] = "over"
                           /\ (content[dst] = "partial" => opener[dst] # installer)
    BY DEF UpdateInv, InstallsWhole
  <2>3. dst # Installed => update'[installer] = "over" /\ installer # u
    BY <1>2, <1>4, <2>2
  <2>4. dst # Installed /\ content'[dst] = "partial" => opener'[dst] # installer
    BY <1>4, <2>2, <2>3 DEF UpdateInv, Install!TypeOK
  <2> QED
    BY <1>2, <2>1, <2>2, <2>3, <2>4 DEF InstallsWhole
<1> QED
  BY <1>5, <1>6, <1>7, <1>8 DEF UpdateInv

(* An update has written the binary: the file is whole, unless another one *)
(* truncated it meanwhile, which answers for it now.                       *)
LEMMA FillStep ==
  ASSUME UpdateInv, NEW u \in Updaters, Install!Fill(u)
  PROVE  UpdateInv'
<1> USE DEF Install!Goto
<1>1. PICK i \in Install!Staging : i = fd[u]
  BY DEF Install!Fill, UpdateInv, StagesVerified
<1>2. PICK whole \in {"release"} \cup (IF u \in truncated THEN {content[i]} ELSE {}) :
        content' = [content EXCEPT ![i] = whole]
  BY <1>1 DEF Install!Fill, UpdateInv, StagesVerified
<1>3. /\ update' = [update EXCEPT ![u] = "rename"] /\ update[u] = "fill"
      /\ UNCHANGED <<run, tmp, fd, result, dst, staged, truncated, opener, cut, installer>>
  BY DEF Install!Fill
<1>4. i # Installed /\ i \in Install!Inodes
  BY <1>1, NodeAssumption DEF Install!Inodes, Install!Staging
<1>5. /\ \A v \in Updaters \ {u} : update'[v] = update[v]
      /\ update'[u] = "rename"
      /\ content'[i] = whole
      /\ \A j \in Install!Inodes \ {i} : content'[j] = content[j]
  BY <1>2, <1>3, <1>4 DEF UpdateInv, Install!TypeOK
<1>6. whole = "release" \/ (u \in truncated /\ whole = content[i])
  BY <1>2
<1>7. Install!TypeOK'
  <2>1. whole \in {"none", "old", "partial", "release", "corrupt"}
    BY <1>4, <1>6 DEF UpdateInv, Install!TypeOK
  <2> QED
    BY <1>2, <1>3, <2>1 DEF UpdateInv, Install!TypeOK
<1>8. StagesVerified'
  <2>1. content'[i] \notin {"corrupt", "old"}
    BY <1>4, <1>5, <1>6 DEF UpdateInv, StagesVerified
  <2>2. \A j \in Install!Inodes : content'[j] # "corrupt" /\ (content'[j] = "old" <=> j = Installed)
    BY <1>4, <1>5, <2>1 DEF UpdateInv, StagesVerified
  <2> QED
    BY <1>3, <1>5, <2>2 DEF UpdateInv, StagesVerified
<1>9. StagedIsOwed'
  <2>1. ASSUME NEW j \in Install!Staging, content'[j] = "partial" PROVE content[j] = "partial" /\ Owed(j)'
    <3>1. content[j] = "partial" /\ (j = i => u \in truncated)
      BY <1>5, <1>6, <2>1 DEF Install!Inodes
    <3>2. Owed(j)
      BY <3>1 DEF UpdateInv, StagedIsOwed
    <3>3. ~(opener[j] = u /\ Install!Fills(u, j) /\ u \notin truncated)
      BY <1>1, <3>1 DEF Install!Fills
    <3> QED
      BY <1>3, <1>5, <3>1, <3>2, <3>3 DEF Owed, Install!Fills
  <2>2. \A j \in Install!Staging : j = dst \/ j = staged => content'[j] \in {"partial", "release"}
    BY <1>5, <1>6 DEF UpdateInv, StagedIsOwed, Install!Inodes
  <2>3. \A v \in truncated' : update'[v] = "fill" => update[v] = "fill"
    BY <1>3, <1>5 DEF UpdateInv, Install!TypeOK
  <2> QED
    BY <1>3, <2>1, <2>2, <2>3 DEF UpdateInv, StagedIsOwed
<1>10. InstallsWhole'
  <2>1. ASSUME NEW v \in Updaters, NEW j \in Install!Staging,
               update'[v] \in {"fill", "rename"}, opener[j] = v, j = staged
        PROVE  j = fd[v] /\ (update'[v] = "rename" => content'[j] # "partial")
    <3>1. update[v] \in {"fill", "rename"} /\ (v # u => update[v] = update'[v])
      BY <1>3, <1>5, <2>1
    <3>2. j = fd[v] /\ (update[v] = "rename" => content[j] # "partial")
      BY <2>1, <3>1 DEF UpdateInv, InstallsWhole
    <3>3. CASE v = u
      <4>1. u \notin truncated
        BY <1>3, <2>1, <3>2, <3>3 DEF UpdateInv, StagedIsOwed
      <4> QED
        BY <1>1, <1>5, <1>6, <3>2, <3>3, <4>1
    <3>4. CASE v # u
      <4>1. content'[j] = content[j] \/ content'[j] = "release"
        BY <1>5, <1>6 DEF Install!Inodes
      <4> QED
        BY <3>1, <3>2, <3>4, <4>1
    <3> QED
      BY <3>3, <3>4
  <2>2. dst # Installed => installer \in Updaters /\ update[installer] = "over"
                           /\ (content[dst] = "partial" => opener[dst] # installer)
    BY DEF UpdateInv, InstallsWhole
  <2>3. dst # Installed => update'[installer] = "over"
    BY <1>3, <1>5, <2>2
  <2>4. content'[dst] = "partial" => content[dst] = "partial"
    BY <1>5, <1>6 DEF UpdateInv, Install!TypeOK
  <2> QED
    BY <1>3, <2>1, <2>2, <2>3, <2>4 DEF InstallsWhole
<1> QED
  BY <1>7, <1>8, <1>9, <1>10 DEF UpdateInv

(* The staged file becomes the binary.                                     *)
LEMMA RenameStep ==
  ASSUME UpdateInv, NEW u \in Updaters, Install!Rename(u)
  PROVE  UpdateInv'
<1> USE DEF Install!Goto, Install!End
<1>1. /\ update' = [update EXCEPT ![u] = "over"] /\ update[u] = "rename"
      /\ staged # NoFile /\ dst' = staged /\ staged' = NoFile
      /\ result' = [result EXCEPT ![u] = "updated"] /\ installer' = u
      /\ UNCHANGED <<run, tmp, fd, content, truncated, opener, cut>>
  BY DEF Install!Rename
<1>2. /\ \A v \in Updaters \ {u} : update'[v] = update[v]
      /\ update'[u] = "over"
  BY <1>1 DEF UpdateInv, Install!TypeOK
<1>3. staged \in Install!Staging /\ NoFile \notin Install!Staging
  BY <1>1, NodeAssumption DEF UpdateInv, Install!TypeOK, StagesVerified, Install!Inodes, Install!Staging
<1>4. Install!TypeOK'
  BY <1>1, <1>3 DEF UpdateInv, Install!TypeOK, Install!Inodes
<1>5. StagesVerified'
  BY <1>1, <1>2, <1>3, NodeAssumption DEF UpdateInv, StagesVerified
<1>6. StagedIsOwed'
  <2>1. ASSUME NEW i \in Install!Staging, Owed(i) PROVE Owed(i)'
    BY <1>1, <1>2, <2>1 DEF Owed, Install!Fills
  <2>2. \A v \in truncated' : update'[v] = "fill" => update[v] = "fill"
    BY <1>1, <1>2 DEF UpdateInv, Install!TypeOK
  <2> QED
    BY <1>1, <1>3, <2>1, <2>2 DEF UpdateInv, StagedIsOwed
<1>7. InstallsWhole'
  <2>1. content[staged] = "partial" => opener[staged] # u
    BY <1>1, <1>3 DEF UpdateInv, InstallsWhole
  <2> QED
    BY <1>1, <1>2, <1>3, <2>1 DEF InstallsWhole
<1> QED
  BY <1>4, <1>5, <1>6, <1>7 DEF UpdateInv

(* Every step of an update keeps the invariant.                            *)
LEMMA UpdateStep == UpdateInv /\ [Install!Next]_updateVars => UpdateInv'
<1> SUFFICES ASSUME UpdateInv, [Install!Next]_updateVars PROVE UpdateInv'
  OBVIOUS
<1> USE DEF Install!Goto, Install!End, Install!files
<1>t. /\ update \in [Updaters -> Stages]
      /\ run \in [Updaters -> 1 .. MaxRuns] /\ MaxRuns \in Nat
      /\ tmp \in [Updaters -> {"none", "release", "corrupt"}]
      /\ result \in [Updaters -> {"none", "current", "updated", "failed", "crashed"}]
  BY NodeAssumption DEF UpdateInv, Install!TypeOK, Stages
<1>v. \A v \in Updaters : update[v] \in {"stage", "fill", "rename"} => tmp[v] = "release"
  BY DEF UpdateInv, StagesVerified
<1>c. ASSUME NEW u \in Updaters, update[u] # "fill", cut' = cut PROVE Install!Cut(u)
  BY <1>c DEF Install!Cut
<1>e. ASSUME NEW u \in Updaters, NEW r \in {"current", "failed", "crashed"},
             result' = [result EXCEPT ![u] = r]
      PROVE  /\ result' \in [Updaters -> {"none", "current", "updated", "failed", "crashed"}]
             /\ \A v \in Updaters : result'[v] = "updated" => result[v] = "updated"
  BY <1>t, <1>e
<1>1. ASSUME NEW u \in Updaters, Install!Check(u) PROVE UpdateInv'
  <2>1. /\ update[u] = "check"
        /\ UNCHANGED <<run, tmp, fd, content, dst, staged, truncated, opener, cut, installer>>
    BY <1>1 DEF Install!Check
  <2>2. \/ update' = [update EXCEPT ![u] = "download"] /\ result' = result
        \/ /\ update' = [update EXCEPT ![u] = "over"]
           /\ \E r \in {"current", "failed"} : result' = [result EXCEPT ![u] = r]
    BY <1>1 DEF Install!Check
  <2>3. PICK s \in {"download", "over"} : update' = [update EXCEPT ![u] = s]
    BY <2>2
  <2> QED
    BY <1>t, <1>c, <1>e, <2>1, <2>2, <2>3, UpdateQuiet DEF Stages
<1>2. ASSUME NEW u \in Updaters, Install!Refuse(u) PROVE UpdateInv'
  BY <1>2, <1>t, <1>c, <1>e, UpdateQuiet DEF Install!Refuse, Stages
<1>3. ASSUME NEW u \in Updaters, Install!Download(u) PROVE UpdateInv'
  <2>1. PICK new \in {"release", "corrupt"} : tmp' = [tmp EXCEPT ![u] = new]
    BY <1>3 DEF Install!Download
  <2> QED
    BY <1>3, <1>t, <1>c, <2>1, UpdateQuiet DEF Install!Download, Stages
<1>4. ASSUME NEW u \in Updaters, Install!Verify(u) PROVE UpdateInv'
  <2>1. /\ update[u] = "verify"
        /\ UNCHANGED <<run, tmp, fd, content, dst, staged, truncated, opener, cut, installer>>
    BY <1>4 DEF Install!Verify
  <2>2. \/ update' = [update EXCEPT ![u] = "stage"] /\ result' = result /\ tmp[u] = "release"
        \/ update' = [update EXCEPT ![u] = "over"] /\ result' = [result EXCEPT ![u] = "failed"]
    BY <1>4 DEF Install!Verify
  <2>3. CASE update' = [update EXCEPT ![u] = "stage"] /\ result' = result /\ tmp[u] = "release"
    BY <1>t, <1>c, <2>1, <2>3, UpdateQuiet DEF Stages
  <2>4. CASE update' = [update EXCEPT ![u] = "over"] /\ result' = [result EXCEPT ![u] = "failed"]
    BY <1>t, <1>c, <1>e, <2>1, <2>4, UpdateQuiet DEF Stages
  <2> QED
    BY <2>2, <2>3, <2>4
<1>5. ASSUME NEW u \in Updaters, Install!Stage(u) PROVE UpdateInv'
  BY <1>5, StageStep
<1>6. ASSUME NEW u \in Updaters, Install!Fill(u) PROVE UpdateInv'
  BY <1>6, FillStep
<1>7. ASSUME NEW u \in Updaters, Install!Rename(u) PROVE UpdateInv'
  BY <1>7, RenameStep
<1>8. ASSUME NEW u \in Updaters, Install!ReplaceFails(u) PROVE UpdateInv'
  <2>1. PICK s \in {"sudo", "remove"} : update' = [update EXCEPT ![u] = s]
    BY <1>8 DEF Install!ReplaceFails
  <2> QED
    BY <1>8, <1>t, <2>1, UpdateQuiet DEF Install!ReplaceFails, Stages
<1>9. ASSUME NEW u \in Updaters, Install!RemoveStaged(u) PROVE UpdateInv'
  BY <1>9, <1>t, <1>c, UpdateQuiet DEF Install!RemoveStaged, Stages
<1>10. ASSUME NEW u \in Updaters, Install!installAsRoot(u) PROVE UpdateInv'
  <2>1. /\ update[u] = "sudo"
        /\ UNCHANGED <<tmp, fd, content, dst, staged, truncated, opener, cut, installer>>
    BY <1>10 DEF Install!installAsRoot
  <2>2. \/ /\ update' = [update EXCEPT ![u] = "check"] /\ result' = result
           /\ run[u] < MaxRuns /\ run' = [run EXCEPT ![u] = run[u] + 1]
        \/ /\ update' = [update EXCEPT ![u] = "over"] /\ result' = [result EXCEPT ![u] = "failed"]
           /\ run' = run
    BY <1>10 DEF Install!installAsRoot
  <2>3. run' \in [Updaters -> 1 .. MaxRuns]
    <3>1. run[u] \in 1 .. MaxRuns
      BY <1>t
    <3>2. run[u] < MaxRuns => run[u] + 1 \in 1 .. MaxRuns
      BY <1>t, <3>1
    <3> QED
      BY <1>t, <2>2, <3>2
  <2>4. PICK s \in {"check", "over"} : update' = [update EXCEPT ![u] = s]
    BY <2>2
  <2> QED
    BY <1>t, <1>c, <1>e, <2>1, <2>2, <2>3, <2>4, UpdateQuiet DEF Stages
<1>11. ASSUME NEW u \in Updaters, Install!Crash(u) PROVE UpdateInv'
  BY <1>11, <1>t, <1>e, UpdateQuiet DEF Install!Crash, Stages
<1>12. CASE UNCHANGED updateVars
  BY <1>12 DEF updateVars, UpdateInv, Install!TypeOK, StagesVerified, StagedIsOwed, Owed,
               Install!Fills, InstallsWhole
<1> QED
  BY <1>1, <1>2, <1>3, <1>4, <1>5, <1>6, <1>7, <1>8, <1>9, <1>10, <1>11, <1>12 DEF Install!Next

----------------------------------------------------------------------------
(* The node.                                                               *)

NodeInv == SpoutInv /\ ServiceInv /\ UpdateInv

LEMMA NodeInitial == NodeInit => NodeInv
<1> SUFFICES ASSUME NodeInit PROVE NodeInv
  OBVIOUS
<1>1. SpoutInv
  <2>1. Spouts!Nothing \in [Files -> Spouts!Contents]
    BY NodeAssumption DEF Spouts!Nothing, Spouts!Contents
  <2>2. poll \in Spouts!Polls /\ poll.step = "start"
    BY <2>1 DEF NodeInit, Spouts!Init, Spouts!Idle, Spouts!Polls
  <2> QED
    <3>1. Spouts!TypeOK
      <4>1. /\ {dir, committed, branch} \subseteq [Files -> Spouts!Contents]
            /\ container = "none" /\ spoutJob = "running" /\ spoutCancelled = FALSE
        BY <2>1 DEF NodeInit, Spouts!Init
      <4>2. spoutFailures \in 0 .. MaxFailures
        BY NodeAssumption DEF NodeInit, Spouts!Init
      <4> QED
        BY <2>2, <4>1, <4>2 DEF Spouts!TypeOK
    <3> QED
      BY <2>2, <3>1 DEF NodeInit, Spouts!Init, SpoutInv, Spouts!Nothing
<1>2. ServiceInv
  BY DEF NodeInit, Services!Init, ServiceInv
<1>3. UpdateInv
  <2>1. Install!TypeOK
    BY NodeAssumption DEF NodeInit, Install!Init, Install!TypeOK, Install!Inodes
  <2>2. StagesVerified /\ StagedIsOwed /\ InstallsWhole
    BY NodeAssumption DEF NodeInit, Install!Init, StagesVerified, StagedIsOwed, InstallsWhole,
                          Install!Inodes, Install!Staging
  <2> QED
    BY <2>1, <2>2 DEF UpdateInv
<1> QED
  BY <1>1, <1>2, <1>3 DEF NodeInv

(* A step of a node is a step of one part or leaves the part alone.        *)
LEMMA NodeParts ==
  [NodeNext]_nodeVars =>
    [Spouts!Next]_spoutVars /\ [Services!Next]_serviceVars /\ [Install!Next]_updateVars
  BY DEF NodeNext, nodeVars

(* The invariants of the parts hold in every state of a node.              *)
THEOREM NodeInductive == NodeSpec => []NodeInv
<1>1. NodeInv /\ [NodeNext]_nodeVars => NodeInv'
  BY NodeParts, SpoutStep, ServiceStep, UpdateStep DEF NodeInv
<1> QED
  BY NodeInitial, <1>1, PTL DEF NodeSpec

(* For every set of files, however often each is written and however often *)
(* the store refuses, a file that a spout's loop holds to be committed is  *)
(* on the branch (spout.go, spoutDiffVerify and spoutCommit); and for      *)
(* every number of commits a service that sleeps with no signal on its way *)
(* has seen the head and serves it unless a refresh failed (service.go).   *)
THEOREM BackgroundIsCurrent == NodeSpec => []BackgroundCurrent
<1>1. SpoutInv => Spouts!HeldIsOnBranch
  BY DEF SpoutInv, Spouts!HeldIsOnBranch
<1>2. ServiceInv => Services!SleepsCurrent
  BY DEF ServiceInv, Services!SleepsCurrent
<1>3. NodeInv => BackgroundCurrent
  BY <1>1, <1>2 DEF NodeInv, BackgroundCurrent
<1> QED
  BY <1>3, NodeInductive, PTL

(* For every number of concurrent updates, however often each is run again *)
(* as root, whoever may write the directory, and whatever fails or is      *)
(* interrupted: at every instant the binary is the old one or the verified *)
(* release, whole, unless another update than the one that installed it    *)
(* opened the staged file later and is writing it or was cut off (update.go, *)
(* replaceBinary).                                                         *)
THEOREM UpdatesLeaveWhole == NodeSpec => []UpdatedIsWhole
<1>1. UpdateInv => Install!UpdatedIsWhole
  <2> SUFFICES ASSUME UpdateInv PROVE Install!UpdatedIsWhole
    OBVIOUS
  <2>1. dst \in Install!Inodes
    BY DEF UpdateInv, Install!TypeOK
  <2>2. CASE dst = Installed
    BY <2>1, <2>2 DEF UpdateInv, StagesVerified, Install!UpdatedIsWhole
  <2>3. CASE dst \in Install!Staging
    <3>1. dst # Installed
      BY <2>3, NodeAssumption DEF Install!Staging
    <3>2. content[dst] # "old" /\ content[dst] \in {"partial", "release"}
      BY <2>1, <2>3, <3>1 DEF UpdateInv, StagesVerified, StagedIsOwed
    <3>3. content[dst] = "partial" => Owed(dst) /\ opener[dst] # installer
      BY <2>3, <3>1 DEF UpdateInv, StagedIsOwed, InstallsWhole
    <3> QED
      BY <3>2, <3>3 DEF Install!UpdatedIsWhole, Owed
  <2> QED
    BY <2>1, <2>2, <2>3 DEF Install!Inodes
<1>2. NodeInv => UpdatedIsWhole
  BY <1>1 DEF NodeInv, UpdatedIsWhole
<1> QED
  BY <1>2, NodeInductive, PTL
=============================================================================
