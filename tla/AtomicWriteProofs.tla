-------------------------- MODULE AtomicWriteProofs --------------------------
(***************************************************************************)
(* A write is atomic and durable when calls on its path do not overlap, for *)
(* any number of callers, deaths and power losses.                         *)
(***************************************************************************)
EXTENDS AtomicWrite, TLAPS

\* Every step keeps the variables in their types.
LEMMA AtomicTypes == TypeOK /\ [Next]_vars => TypeOK'
<1> SUFFICES ASSUME TypeOK, [Next]_vars PROVE TypeOK'
  OBVIOUS
<1> USE WritersOK DEF TypeOK, Directories, Contents, Damaged, Writing, Inodes, Goto, End, Relink
<1>1. ASSUME NEW w \in Writers, Open(w) PROVE TypeOK'
  <2>1. CASE names.tmp = 0
    <3>1. used + 1 \in Inodes /\ used' = used + 1
      BY <1>1, <2>1 DEF Open
    <3>2. [tmp |-> used + 1, path |-> names.path] \in Directories
      BY <3>1
    <3> HIDE DEF Directories
    <3> QED
      BY <1>1, <2>1, <3>1, <3>2 DEF Open
  <2>2. CASE names.tmp # 0
    BY <1>1, <2>2 DEF Open
  <2> QED
    BY <2>1, <2>2
<1>2. ASSUME NEW w \in Writers, Write(w) PROVE TypeOK'
  <2>1. PICK text \in {w, "torn"} :
          /\ text = "torn" => data[fd[w]] # "empty"
          /\ data' = [data EXCEPT ![fd[w]] = text]
    BY <1>2 DEF Write
  <2>2. data' \in [Inodes -> Contents]
    BY <2>1
  <2> QED
    BY <1>2, <2>1, <2>2 DEF Write
<1>3. ASSUME NEW w \in Writers, Fsync(w) PROVE TypeOK'
  BY <1>3 DEF Fsync
<1>4. ASSUME NEW w \in Writers, Replace(w) PROVE TypeOK'
  BY <1>4 DEF Replace
<1>5. ASSUME NEW w \in Writers, ReplaceFails(w) PROVE TypeOK'
  BY <1>5 DEF ReplaceFails
<1>6. ASSUME NEW w \in Writers, SyncDir(w) PROVE TypeOK'
  BY <1>6 DEF SyncDir
<1>7. ASSUME NEW w \in Writers, Die(w) PROVE TypeOK'
  BY <1>7 DEF Die
<1>8. CASE SweepTmp
  BY <1>8 DEF SweepTmp
<1>9. ASSUME NEW dir \in durable, NEW lost, NEW cut, PowerLoss(dir, lost, cut) PROVE TypeOK'
  BY <1>9 DEF PowerLoss
<1>10. CASE UNCHANGED vars
  BY <1>10 DEF vars
<1> QED
  BY <1>1, <1>2, <1>3, <1>4, <1>5, <1>6, <1>7, <1>8, <1>9, <1>10 DEF Next, Call

\* Every step keeps the invariant if calls do not overlap.
LEMMA AtomicStep == OneAtATime /\ AtomicInv /\ [Next]_vars => AtomicInv'
<1> SUFFICES ASSUME OneAtATime, AtomicInv, [Next]_vars PROVE AtomicInv'
  OBVIOUS
<1>0. TypeOK'
  BY AtomicTypes DEF AtomicInv
<1> USE <1>0, WritersOK DEF AtomicInv, TypeOK, Directories, Contents, Damaged, Writing,
      Inodes, Goto, End, Relink, Sound, Unborn, Recoverable, CallOwns
<1>1. ASSUME NEW w \in Writers, Open(w) PROVE AtomicInv'
  BY <1>1 DEF Open
<1>2. ASSUME NEW w \in Writers, Write(w) PROVE AtomicInv'
  <2>1. PICK text \in {w, "torn"} :
          /\ text = "torn" => data[fd[w]] # "empty"
          /\ data' = [data EXCEPT ![fd[w]] = text]
    BY <1>2 DEF Write
  <2>2. data' \in [Inodes -> Contents]
    BY <2>1
  <2> QED
    BY <1>2, <2>1, <2>2 DEF Write
<1>3. ASSUME NEW w \in Writers, Fsync(w) PROVE AtomicInv'
  BY <1>3 DEF Fsync
<1>4. ASSUME NEW w \in Writers, Replace(w) PROVE AtomicInv'
  <2>1. /\ names' = [tmp |-> 0, path |-> names.tmp]
        /\ durable' = durable \cup {names'}
        /\ newer' = newer \cup {w}
        /\ pc' = [pc EXCEPT ![w] = "replaced"]
        /\ UNCHANGED <<used, data, disk, fd, last>>
    BY <1>4 DEF Replace
  <2>2. names.tmp = fd[w] /\ names.tmp \in Inodes /\ names.tmp <= used
        /\ data[names.tmp] = w /\ disk[names.tmp] = w
    BY <1>4 DEF Replace
  <2>3. \A v \in Writers : v # w => pc[v] = "idle"
    BY <1>4 DEF Replace
  <2>4. names' \in durable' /\ Unborn'
    BY <2>1
  <2>5. ASSUME NEW dir \in durable' PROVE Recoverable(dir)'
    <3>1. CASE dir \in durable
      BY <2>1, <3>1
    <3>2. CASE dir = names'
      BY <2>1, <2>2, <3>2
    <3> QED
      BY <2>1, <3>1, <3>2
  <2>6. ASSUME NEW v \in Writers PROVE CallOwns(v)'
    <3>1. CASE v = w
      BY <2>1, <2>2, <3>1
    <3>2. CASE v # w
      BY <2>1, <2>3, <3>2
    <3> QED
      BY <3>1, <3>2
  <2>7. \A v, u \in Writers : pc'[v] # "idle" /\ pc'[u] # "idle" => v = u
    BY <2>1, <2>3
  <2> HIDE DEF Recoverable, CallOwns, Unborn
  <2> QED
    BY <2>4, <2>5, <2>6, <2>7
<1>5. ASSUME NEW w \in Writers, ReplaceFails(w) PROVE AtomicInv'
  BY <1>5 DEF ReplaceFails
<1>6. ASSUME NEW w \in Writers, SyncDir(w) PROVE AtomicInv'
  BY <1>6 DEF SyncDir
<1>7. ASSUME NEW w \in Writers, Die(w) PROVE AtomicInv'
  BY <1>7 DEF Die
<1>8. CASE SweepTmp
  BY <1>8 DEF SweepTmp
<1>9. ASSUME NEW dir \in durable, NEW lost \in SUBSET Unsynced, NEW cut \in SUBSET lost,
             PowerLoss(dir, lost, cut)
      PROVE  AtomicInv'
  BY <1>9 DEF PowerLoss, Unsynced
<1>10. CASE UNCHANGED vars
  BY <1>10 DEF vars
<1> QED
  BY <1>1, <1>2, <1>3, <1>4, <1>5, <1>6, <1>7, <1>8, <1>9, <1>10 DEF Next, Call

\* The invariant holds throughout if calls do not overlap.
LEMMA AtomicInvariance == ASSUME OneAtATime PROVE Spec => []AtomicInv
<1>1. Init => AtomicInv
  BY WritersOK DEF Init, AtomicInv, TypeOK, Directories, Contents, Damaged, Writing, Inodes,
    Sound, Unborn, Recoverable, CallOwns
<1>2. AtomicInv /\ [Next]_vars => AtomicInv'
  BY AtomicStep
<1> QED
  BY <1>1, <1>2, PTL DEF Spec

\* The file system's variables keep their types, also when calls overlap.
THEOREM WriteTypes == Spec => []TypeOK
<1>1. Init => TypeOK
  BY WritersOK DEF Init, TypeOK, Directories, Contents, Damaged, Writing, Inodes
<1> QED
  BY <1>1, AtomicTypes, PTL DEF Spec

\* No reader of the path ever finds an empty or torn file, whoever dies and
\* whenever the power goes.
THEOREM WriteIsAtomic == ASSUME OneAtATime PROVE Spec => []PathComplete
<1>1. AtomicInv => PathComplete
  BY WritersOK DEF AtomicInv, Sound, Recoverable, PathComplete, Content, Damaged
<1> QED
  BY <1>1, AtomicInvariance, PTL

\* What a call has written when it returns is never undone by a power loss.
THEOREM WriteIsDurable == ASSUME OneAtATime PROVE Spec => []ReturnedIsDurable
<1>1. AtomicInv => ReturnedIsDurable
  BY DEF AtomicInv, Sound, Recoverable, ReturnedIsDurable, Content
<1> QED
  BY <1>1, AtomicInvariance, PTL

\* A reader finds what a power loss that keeps the directory would bring back.
LEMMA ContentIsText == AtomicInv => Content = TextOf(names)
  BY DEF AtomicInv, Recoverable, Sound, Content, TextOf

\* A write that does not overlap another is a write of DurableFile: one step that
\* a power loss undoes in full or not at all, and never after its return.
THEOREM WriteImplementsFile == ASSUME OneAtATime PROVE Spec => ImplementsFile
<1> DEFINE Kept == {TextOf(dir) : dir \in durable}
<1> DEFINE fileVars == <<Content, Kept, last>>
<1>1. Init => File!Init
  BY DEF Init, File!Init, Content, TextOf
<1>2. AtomicInv /\ AtomicInv' /\ [Next]_vars => [File!Next]_fileVars
  <2> SUFFICES ASSUME AtomicInv, AtomicInv', [Next]_vars PROVE [File!Next]_fileVars
    OBVIOUS
  <2>0. /\ TypeOK /\ names \in durable
        /\ \A dir \in durable : dir.path # 0 =>
             /\ dir.path \in Inodes /\ dir.path # names.tmp
             /\ data[dir.path] = disk[dir.path]
             /\ \A w \in Writers : pc[w] \in Writing => dir.path # fd[w]
    BY DEF AtomicInv, TypeOK, Directories, Inodes, Recoverable, Sound, CallOwns
  <2>00. Content = TextOf(names) /\ Content' = TextOf(names)'
    <3>1. Content = TextOf(names)
      BY ContentIsText
    <3>2. Content' = TextOf(names)'
      BY DEF AtomicInv, Recoverable, Sound, Content, TextOf
    <3> QED
      BY <3>1, <3>2
  <2> HIDE DEF Kept
  <2>1. ASSUME last' = last, names'.path = names.path,
               \A dir \in durable' : \E old \in durable : dir.path = old.path,
               \A old \in durable : \E dir \in durable' : dir.path = old.path,
               \A dir \in durable : dir.path # 0 => disk'[dir.path] = disk[dir.path]
        PROVE  UNCHANGED fileVars
    <3>1. \A dir \in durable, new \in durable' :
            dir.path = new.path => TextOf(new)' = TextOf(dir)
      BY <2>1 DEF TextOf
    <3>2. Kept' = Kept
      BY <2>1, <3>1 DEF Kept
    <3>3. Content' = Content
      BY <2>0, <2>00, <2>1 DEF TextOf
    <3> QED
      BY <2>1, <3>2, <3>3
  <2>2. ASSUME NEW w \in Writers, Open(w) PROVE UNCHANGED fileVars
    <3>1. CASE names.tmp = 0
      BY <2>0, <2>1, <2>2, <3>1 DEF Open, Relink
    <3>2. CASE names.tmp # 0
      BY <2>0, <2>1, <2>2, <3>2 DEF Open
    <3> QED
      BY <3>1, <3>2
  <2>3. ASSUME NEW w \in Writers, Write(w) \/ ReplaceFails(w) \/ Die(w) PROVE UNCHANGED fileVars
    BY <2>0, <2>1, <2>3 DEF Write, ReplaceFails, Die
  <2>4. ASSUME NEW w \in Writers, Fsync(w) PROVE UNCHANGED fileVars
    BY <2>0, <2>1, <2>4 DEF Fsync, TypeOK, Writing
  <2>5. CASE SweepTmp
    BY <2>0, <2>1, <2>5 DEF SweepTmp, Relink
  <2>6. ASSUME NEW w \in Writers, Replace(w) PROVE File!Write(w)
    <3>1. /\ names.tmp # 0 /\ disk[names.tmp] = w
          /\ names' = [tmp |-> 0, path |-> names.tmp]
          /\ durable' = durable \cup {names'}
          /\ disk' = disk /\ last' = last
      BY <2>6 DEF Replace, Relink, AtomicInv, CallOwns, Writing
    <3>2. TextOf(names)' = w
      BY <3>1 DEF TextOf
    <3>3. \A dir \in durable : TextOf(dir)' = TextOf(dir)
      BY <3>1 DEF TextOf
    <3>4. Kept' = Kept \cup {w}
      BY <3>1, <3>2, <3>3 DEF Kept
    <3> QED
      BY <2>00, <3>1, <3>2, <3>4 DEF File!Write, Kept
  <2>7. ASSUME NEW w \in Writers, SyncDir(w) PROVE File!Return
    <3>1. /\ names' = names /\ disk' = disk /\ durable' = {names} /\ last' = w
          /\ names.path # 0 /\ disk[names.path] = w
      BY <2>7 DEF SyncDir, AtomicInv, CallOwns
    <3>2. TextOf(names) = w /\ TextOf(names)' = w
      BY <3>1 DEF TextOf
    <3>3. Kept' = {w}
      BY <3>1, <3>2 DEF Kept
    <3> QED
      BY <2>00, <3>1, <3>2, <3>3 DEF File!Return, Kept
  <2>8. ASSUME NEW dir \in durable, NEW lost \in SUBSET Unsynced, NEW cut \in SUBSET lost,
               PowerLoss(dir, lost, cut)
        PROVE  File!PowerLoss(TextOf(dir))
    <3>1. names' = dir /\ durable' = {dir} /\ last' = last /\ disk' = data'
      BY <2>8 DEF PowerLoss
    <3>2. dir.path # 0 => disk'[dir.path] = disk[dir.path]
      BY <2>0, <2>8 DEF PowerLoss, Unsynced
    <3>3. TextOf(dir)' = TextOf(dir) /\ TextOf(names)' = TextOf(dir)
      BY <3>1, <3>2 DEF TextOf
    <3>4. Kept' = {TextOf(dir)} /\ TextOf(dir) \in Kept
      BY <3>1, <3>3 DEF Kept
    <3> QED
      BY <2>00, <3>1, <3>3, <3>4 DEF File!PowerLoss, Kept
  <2>9. CASE UNCHANGED vars
    BY <2>0, <2>1, <2>9 DEF vars
  <2> QED
    <3>1. CASE \E w \in Writers : Replace(w)
      BY <2>6, <3>1 DEF File!Next
    <3>2. CASE \E w \in Writers : SyncDir(w)
      BY <2>7, <3>2 DEF File!Next
    <3>3. CASE \E dir \in durable : \E lost \in SUBSET Unsynced : \E cut \in SUBSET lost :
                 PowerLoss(dir, lost, cut)
      BY <2>8, <3>3 DEF File!Next, File!PowerLoss
    <3> QED
      BY <2>2, <2>3, <2>4, <2>5, <2>9, <3>1, <3>2, <3>3 DEF Next, Call
<1> QED
  BY <1>1, <1>2, AtomicInvariance, PTL DEF Spec, ImplementsFile, File!Spec, File!vars

=============================================================================
