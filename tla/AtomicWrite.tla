---------------------------- MODULE AtomicWrite ----------------------------
(***************************************************************************)
(* dispatch_fs.atomic_write on one path: write a .tmp file next to it,     *)
(* fsync it, rename it over the path, fsync the directory.  Every message, *)
(* task, registry and tombstone of the relay is written this way.  A       *)
(* process can die and the machine lose power between any two system       *)
(* calls.  server._sweep_stale_tmp removes .tmp files it finds stale.      *)
(* Failing disks are not modelled.                                         *)
(***************************************************************************)
EXTENDS Naturals, FiniteSets

CONSTANTS
    Writers,     \* callers; what a caller writes is named after it
    OneAtATime,  \* TRUE: calls on this path do not overlap
    MaxInodes    \* bound on files created

Damaged == {"empty", "torn"}

ASSUME WritersOK ==
    /\ Writers \cap (Damaged \cup {"none"}) = {}
    /\ OneAtATime \in BOOLEAN
    /\ MaxInodes \in Nat

Inodes == 1 .. MaxInodes

VARIABLES
    names,    \* the directory: the inodes of the .tmp name and of the path, 0 if absent
    durable,  \* the directories a power loss may bring back
    used,     \* inodes created: 1..used
    data,     \* contents as processes see them
    disk,     \* contents known to be on disk
    fd,       \* the inode each call writes to
    pc,       \* where each call is
    last,     \* history: what the last call that returned had written
    newer     \* history: what calls that have not returned renamed over it

vars == <<names, durable, used, data, disk, fd, pc, last, newer>>

Directories == [tmp : 0 .. MaxInodes, path : 0 .. MaxInodes]
Contents == Writers \cup Damaged
Writing == {"opened", "written", "synced"}

TypeOK ==
    /\ names \in Directories
    /\ durable \subseteq Directories
    /\ used \in 0 .. MaxInodes
    /\ data \in [Inodes -> Contents]
    /\ disk \in [Inodes -> Contents]
    /\ fd \in [Writers -> 0 .. MaxInodes]
    /\ pc \in [Writers -> {"idle", "replaced"} \cup Writing]
    /\ last \in Writers \cup {"none"}
    /\ newer \subseteq Writers

Init ==
    /\ names = [tmp |-> 0, path |-> 0]
    /\ durable = {names}
    /\ used = 0
    /\ data = [i \in Inodes |-> "empty"]
    /\ disk = data
    /\ fd = [w \in Writers |-> 0]
    /\ pc = [w \in Writers |-> "idle"]
    /\ last = "none"
    /\ newer = {}

Goto(w, s) == pc' = [pc EXCEPT ![w] = s]

\* The call is over and its file closed.
End(w) ==
    /\ Goto(w, "idle")
    /\ fd' = [fd EXCEPT ![w] = 0]

\* The directory changes; until it is synced a power loss may undo that.
Relink(dir) ==
    /\ names' = dir
    /\ durable' = durable \cup {dir}

-----------------------------------------------------------------------------
(* atomic_write, one system call at a time.                                *)

\* open(tmp, "w") creates the file or truncates the one that is there.
Open(w) ==
    /\ pc[w] = "idle"
    /\ OneAtATime => \A v \in Writers : pc[v] = "idle"
    /\ IF names.tmp = 0
       THEN /\ used < MaxInodes
            /\ used' = used + 1
            /\ fd' = [fd EXCEPT ![w] = used + 1]
            /\ Relink([tmp |-> used + 1, path |-> names.path])
            /\ UNCHANGED data
       ELSE /\ fd' = [fd EXCEPT ![w] = names.tmp]
            /\ data' = [data EXCEPT ![names.tmp] = "empty"]
            /\ UNCHANGED <<names, durable, used>>
    /\ Goto(w, "opened")
    /\ UNCHANGED <<disk, last, newer>>

\* json.dump and flush, from offset 0.  Over another call's longer text the
\* tail of that text stays.
Write(w) ==
    /\ pc[w] = "opened"
    /\ \E text \in {w, "torn"} :
         /\ text = "torn" => data[fd[w]] # "empty"
         /\ data' = [data EXCEPT ![fd[w]] = text]
    /\ Goto(w, "written")
    /\ UNCHANGED <<names, durable, used, disk, fd, last, newer>>

\* Mutant: no fsync before the rename.
FsyncSkipped(w) ==
    /\ pc[w] = "written"
    /\ Goto(w, "synced")
    /\ UNCHANGED <<names, durable, used, data, disk, fd, last, newer>>

Fsync(w) ==
    /\ pc[w] = "written"
    /\ disk' = [disk EXCEPT ![fd[w]] = data[fd[w]]]
    /\ Goto(w, "synced")
    /\ UNCHANGED <<names, durable, used, data, fd, last, newer>>

\* os.replace(tmp, path)
Replace(w) ==
    /\ pc[w] = "synced" /\ names.tmp # 0
    /\ Relink([tmp |-> 0, path |-> names.tmp])
    /\ newer' = newer \cup {w}
    /\ Goto(w, "replaced")
    /\ UNCHANGED <<used, data, disk, fd, last>>

\* There is no .tmp file any more: the call raises.
ReplaceFails(w) ==
    /\ pc[w] = "synced" /\ names.tmp = 0
    /\ End(w)
    /\ UNCHANGED <<names, durable, used, data, disk, last, newer>>

\* Mutant: the directory is not synced.
SyncDirSkipped(w) ==
    /\ pc[w] = "replaced"
    /\ last' = w
    /\ newer' = {}
    /\ End(w)
    /\ UNCHANGED <<names, durable, used, data, disk>>

\* fsync on the parent directory, and return.
SyncDir(w) ==
    /\ pc[w] = "replaced"
    /\ durable' = {names}
    /\ last' = w
    /\ newer' = {}
    /\ End(w)
    /\ UNCHANGED <<names, used, data, disk>>

-----------------------------------------------------------------------------
(* What else happens to the files.                                         *)

\* _sweep_stale_tmp.  A .tmp file is stale a minute after its last write: its
\* writer has died, or has been suspended for that long.
SweepTmp ==
    /\ names.tmp # 0
    /\ Relink([tmp |-> 0, path |-> names.path])
    /\ UNCHANGED <<used, data, disk, fd, pc, last, newer>>

\* The calling process is killed.
Die(w) ==
    /\ pc[w] # "idle"
    /\ End(w)
    /\ UNCHANGED <<names, durable, used, data, disk, last, newer>>

\* The machine stops: a directory change may be lost, and what was not synced of
\* a file may be there in full, in part or not at all.
PowerLoss(dir, lost, cut) ==
    /\ dir \in durable
    /\ names' = dir /\ durable' = {dir}
    /\ data' = [i \in Inodes |-> IF i \in cut THEN "torn"
                                 ELSE IF i \in lost THEN disk[i] ELSE data[i]]
    /\ disk' = data'
    /\ pc' = [w \in Writers |-> "idle"]
    /\ fd' = [w \in Writers |-> 0]
    /\ UNCHANGED <<used, last, newer>>

-----------------------------------------------------------------------------
Call(w) ==
    Open(w) \/ Write(w) \/ Fsync(w) \/ Replace(w) \/ ReplaceFails(w) \/ SyncDir(w)

Unsynced == {i \in Inodes : data[i] # disk[i]}

Next ==
    \/ \E w \in Writers : Call(w) \/ Die(w)
    \/ SweepTmp
    \/ \E dir \in durable :
         \E lost \in SUBSET Unsynced : \E cut \in SUBSET lost : PowerLoss(dir, lost, cut)

Spec == Init /\ [][Next]_vars

-----------------------------------------------------------------------------
(* Properties.                                                             *)

\* What a reader of the path gets.
Content == IF names.path = 0 THEN "none" ELSE data[names.path]

\* "no renamed-but-empty file on crash": a reader never finds half a message,
\* nor does one come back after a power loss.
PathComplete == Content \notin Damaged

\* "otherwise a crash can lose the new directory entry, dropping the message
\* entirely": once a call has returned, no power loss brings back anything
\* older than what it wrote.
ReturnedIsDurable == Content \in newer \cup {last}

\* The text that directory dir has at the path, if the power goes now.
TextOf(dir) == IF dir.path = 0 THEN "none" ELSE disk[dir.path]

File == INSTANCE DurableFile WITH
    Texts <- Writers,
    Nothing <- "none",
    text <- Content,
    kept <- {TextOf(dir) : dir \in durable},
    done <- last

\* What the rest of the relay takes a write for: one step, that a power loss
\* undoes in full or not at all, and not once the call has returned.
ImplementsFile == File!Spec

-----------------------------------------------------------------------------
(* Why they hold when calls do not overlap.                                *)

\* The file dir puts at the path, if any, holds on disk what one call wrote, and
\* is not the one its .tmp name leads to.
Sound(dir) ==
    dir.path # 0 =>
        /\ dir.path # dir.tmp
        /\ dir.path <= used
        /\ disk[dir.path] \in Writers
        /\ data[dir.path] = disk[dir.path]

\* Files not yet created hold nothing.
Unborn == \A i \in Inodes : i > used => data[i] = "empty" /\ disk[i] = "empty"

\* A power loss that brings dir back loses nothing that was promised.
Recoverable(dir) ==
    /\ Sound(dir)
    /\ dir.path # 0 => dir.path # names.tmp
    /\ dir.tmp <= used
    /\ IF dir.path = 0 THEN last = "none" ELSE disk[dir.path] \in newer \cup {last}

\* The file a call writes to is its own until it is renamed, and holds what the
\* call has got to.
CallOwns(w) ==
    /\ pc[w] \in Writing =>
         /\ fd[w] # 0 /\ fd[w] <= used
         /\ names.tmp \in {0, fd[w]}
         /\ \A dir \in durable : dir.path # fd[w]
    /\ pc[w] = "opened" => data[fd[w]] = "empty"
    /\ pc[w] \in {"written", "synced"} => data[fd[w]] = w
    /\ pc[w] = "synced" => disk[fd[w]] = w
    /\ pc[w] = "replaced" => names.path # 0 /\ disk[names.path] = w

AtomicInv ==
    /\ TypeOK
    /\ names \in durable
    /\ Unborn
    /\ \A dir \in durable : Recoverable(dir)
    /\ \A v, w \in Writers : pc[v] # "idle" /\ pc[w] # "idle" => v = w
    /\ \A w \in Writers : CallOwns(w)

=============================================================================
