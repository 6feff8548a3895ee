----------------------------- MODULE SelfUpdate -----------------------------
(***************************************************************************)
(* `sandman update` (update.go): the latest release is downloaded to a     *)
(* temporary file, its checksum verified, and the running binary replaced: *)
(* a copy is staged beside it under one fixed name and renamed over it.  A *)
(* replacement that fails, in whatever call, runs the update again through *)
(* sudo.                                                                   *)
(*                                                                         *)
(* Several updates may run at once.  A file is an inode: opening the       *)
(* staged name truncates the file that has it, a rename moves the name,    *)
(* and a writer keeps the inode it opened, and its place in it.            *)
(***************************************************************************)
EXTENDS Integers, FiniteSets

CONSTANTS
  Updaters,
  MaxRuns,    \* bound: how often an update is run again through sudo, plus one
  Writable,   \* of {"user", "root"}, who may write the target directory
  Installed,  \* the inode of the binary that is there at first
  NoFile

(* The inode that an update's run creates when no file is staged.          *)
Staging == Updaters \X (1 .. MaxRuns)
Inodes == Staging \cup {Installed}

VARIABLES
  step,      \* each update's next step
  run,       \* which of its runs an update is in: the first is the user's, the others root's
  tmp,       \* what it downloaded
  fd,        \* the inode it stages into
  result,    \* how it ended
  content,   \* of each inode
  dst,       \* the inode under the target's name
  staged,    \* the inode under the staged name, if any
  truncated, \* the updates whose file another one truncated while they filled it
  opener,    \* history: the update that opened, and truncated, an inode last
  cut,       \* history: the updates, and the inodes, whose write was not finished
  installer  \* history: the update that put the binary in place

vars == <<step, run, tmp, fd, result, content, dst, staged, truncated, opener, cut, installer>>
files == <<fd, content, dst, staged, truncated, opener, cut, installer>>

TypeOK ==
  /\ step \in [Updaters -> {"check", "download", "verify", "stage", "fill", "rename",
                            "remove", "sudo", "over"}]
  /\ run \in [Updaters -> 1 .. MaxRuns]
  /\ tmp \in [Updaters -> {"none", "release", "corrupt"}]
  /\ fd \in [Updaters -> Inodes \cup {NoFile}]
  /\ result \in [Updaters -> {"none", "current", "updated", "failed", "crashed"}]
  /\ content \in [Inodes -> {"none", "old", "partial", "release", "corrupt"}]
  /\ dst \in Inodes /\ staged \in Inodes \cup {NoFile}
  /\ truncated \subseteq Updaters
  /\ opener \in [Inodes -> Updaters \cup {NoFile}]
  /\ cut \subseteq Updaters \X Inodes
  /\ installer \in Updaters \cup {NoFile}

Init ==
  /\ step = [u \in Updaters |-> "check"] /\ run = [u \in Updaters |-> 1]
  /\ tmp = [u \in Updaters |-> "none"] /\ fd = [u \in Updaters |-> NoFile]
  /\ result = [u \in Updaters |-> "none"]
  /\ content = [i \in Inodes |-> IF i = Installed THEN "old" ELSE "none"]
  /\ dst = Installed /\ staged = NoFile
  /\ truncated = {} /\ opener = [i \in Inodes |-> NoFile] /\ cut = {} /\ installer = NoFile

Goto(u, from, to) == step[u] = from /\ step' = [step EXCEPT ![u] = to]
End(u, r) == result' = [result EXCEPT ![u] = r]
as(u) == IF run[u] = 1 THEN "user" ELSE "root"
Fills(u, i) == step[u] = "fill" /\ fd[u] = i

(* cmdUpdate: the program that runs is the old one, or what is installed   *)
(* when sudo starts it.                                                    *)
Check(u) ==
  /\ \/ /\ Goto(u, "check", "download")
        /\ as(u) = "root" => content[dst] = "old"
        /\ UNCHANGED result
     \/ /\ Goto(u, "check", "over")
        /\ as(u) = "root" /\ content[dst] # "old"
        /\ End(u, IF content[dst] = "release" THEN "current" ELSE "failed")
  /\ UNCHANGED <<run, tmp, files>>

(* No release, no asset, or the network fails.                             *)
Refuse(u) ==
  /\ \E from \in {"check", "download"} : Goto(u, from, "over")
  /\ End(u, "failed")
  /\ UNCHANGED <<run, tmp, files>>

(* installRelease: the download may be damaged.                            *)
Download(u) ==
  /\ Goto(u, "download", "verify")
  /\ \E file \in {"release", "corrupt"} : tmp' = [tmp EXCEPT ![u] = file]
  /\ UNCHANGED <<run, result, files>>

(* Mutant of Verify: the download is installed as it is.                   *)
VerifyNothing(u) ==
  /\ Goto(u, "verify", "stage")
  /\ UNCHANGED <<run, tmp, result, files>>

Verify(u) ==
  /\ \/ Goto(u, "verify", "stage") /\ tmp[u] = "release" /\ UNCHANGED result
     \/ Goto(u, "verify", "over") /\ tmp[u] # "release" /\ End(u, "failed")
  /\ UNCHANGED <<run, tmp, files>>

(* replaceBinary: WriteFile opens the staged name, truncating what another *)
(* update may be filling, ...                                              *)
Stage(u) ==
  LET file == IF staged = NoFile THEN <<u, run[u]>> ELSE staged IN
  /\ Goto(u, "stage", "fill") /\ as(u) \in Writable
  /\ fd' = [fd EXCEPT ![u] = file] /\ staged' = file
  /\ content' = [content EXCEPT ![file] = "partial"]
  /\ truncated' = (truncated \ {u}) \cup {v \in Updaters \ {u} : Fills(v, file)}
  /\ opener' = [opener EXCEPT ![file] = u]
  /\ UNCHANGED <<run, tmp, result, dst, cut, installer>>

(* ... writes the binary: all of it, but what it wrote before the file was *)
(* truncated may be missing ...                                            *)
Fill(u) ==
  /\ Goto(u, "fill", "rename")
  /\ \E whole \in {tmp[u]} \cup (IF u \in truncated THEN {content[fd[u]]} ELSE {}) :
       content' = [content EXCEPT ![fd[u]] = whole]
  /\ UNCHANGED <<run, tmp, fd, result, dst, staged, truncated, opener, cut, installer>>

(* ... and is renamed over the target.                                     *)
Rename(u) ==
  /\ Goto(u, "rename", "over") /\ staged # NoFile
  /\ dst' = staged /\ staged' = NoFile /\ End(u, "updated") /\ installer' = u
  /\ UNCHANGED <<run, tmp, fd, content, truncated, opener, cut>>

Cut(u) == cut' = IF step[u] = "fill" THEN cut \cup {<<u, fd[u]>>} ELSE cut

(* The directory cannot be made or written, or the download not be read;   *)
(* the write fails part way and leaves the staged file; the rename fails,  *)
(* for one reason because the staged file is gone, ...                     *)
ReplaceFails(u) ==
  /\ Goto(u, "stage", "sudo") \/ Goto(u, "fill", "sudo") \/ Goto(u, "rename", "remove")
  /\ Cut(u)
  /\ UNCHANGED <<run, tmp, fd, result, content, dst, staged, truncated, opener, installer>>

(* ... whereupon the staged file is removed, if it can be, whoever it is   *)
(* that staged it.                                                         *)
RemoveStaged(u) ==
  /\ Goto(u, "remove", "sudo")
  /\ staged' \in {staged, NoFile}
  /\ UNCHANGED <<run, tmp, fd, result, content, dst, truncated, opener, cut, installer>>

(* installAsRoot: the update starts over, as root, also when it was root's *)
(* that failed; sudo may refuse.                                           *)
installAsRoot(u) ==
  /\ \/ /\ Goto(u, "sudo", "check") /\ run[u] < MaxRuns
        /\ run' = [run EXCEPT ![u] = @ + 1]
        /\ UNCHANGED result
     \/ Goto(u, "sudo", "over") /\ End(u, "failed") /\ UNCHANGED run
  /\ UNCHANGED <<tmp, files>>

(* An update is interrupted.                                               *)
Crash(u) ==
  /\ step[u] # "over"
  /\ step' = [step EXCEPT ![u] = "over"] /\ End(u, "crashed") /\ Cut(u)
  /\ UNCHANGED <<run, tmp, fd, content, dst, staged, truncated, opener, installer>>

Next == \E u \in Updaters :
  \/ Check(u) \/ Refuse(u) \/ Download(u) \/ Verify(u) \/ Stage(u) \/ Fill(u) \/ Rename(u)
  \/ ReplaceFails(u) \/ RemoveStaged(u) \/ installAsRoot(u) \/ Crash(u)

Spec == Init /\ [][Next]_vars

----------------------------------------------------------------------------
(* The binary is whole at every instant, whatever fails or is interrupted  *)
(* (update.go: "the update verifies the checksum before replacing the file *)
(* (atomic: temp file + rename)").  It fails: updates share the staged     *)
(* file, and one renames what another has truncated and is still filling,  *)
(* or will never fill since its write failed.                              *)
AlwaysWhole == content[dst] \in {"old", "release"}

(* What is installed was verified, at every instant, and what an update    *)
(* puts in place is whole, although any call of any update may fail or be  *)
(* interrupted, but in that one case: another update opened the file after *)
(* the one that installed it, and is writing it or was cut off.  An update *)
(* that says it updated has replaced the old binary.                       *)
UpdatedIsWhole ==
  /\ \/ content[dst] \in {"old", "release"}
     \/ LET w == opener[dst] IN
        /\ content[dst] = "partial" /\ w \in Updaters \ {installer}
        /\ Fills(w, dst) \/ <<w, dst>> \in cut
  /\ (\E u \in Updaters : result[u] = "updated") => content[dst] # "old"
=============================================================================
