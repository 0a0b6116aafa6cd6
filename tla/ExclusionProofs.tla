--------------------------- MODULE ExclusionProofs ---------------------------
(***************************************************************************)
(* What the kernel decides for the relay: who holds an agent id (the lock  *)
(* on its presence file) and who holds a task (the exclusive create of its *)
(* marker), for any number of processes.                                   *)
(***************************************************************************)
EXTENDS Presence, Tasks, TLAPS

-----------------------------------------------------------------------------
(* Agent ids.                                                              *)

\* Every step keeps the presence invariant, however start-ups overlap.
LEMMA PresenceStep == PresenceInv /\ [Next]_vars => PresenceInv'
<1> SUFFICES ASSUME PresenceInv, [Next]_vars PROVE PresenceInv'
  OBVIOUS
<1> USE PresenceOK DEF PresenceInv, TypeOK, Procs, Reapers, Starting, Reaping, States,
       Goto, Close, Lock, Free, AfterReap, ReapedBeside
<1>1. ASSUME NEW p \in Reapers, ReapOpen(p) PROVE PresenceInv'
  BY <1>1 DEF ReapOpen
<1>2. ASSUME NEW p \in Reapers, ReapLock(p) PROVE PresenceInv'
  BY <1>2 DEF ReapLock
<1>3. ASSUME NEW p \in Reapers, ReapUnlink(p) PROVE PresenceInv'
  BY <1>3 DEF ReapUnlink
<1>4. ASSUME NEW p \in Reapers, ReapClose(p) PROVE PresenceInv'
  BY <1>4 DEF ReapClose
<1>5. ASSUME NEW p \in Starters, ClaimOpen(p) PROVE PresenceInv'
  BY <1>5 DEF ClaimOpen
<1>6. ASSUME NEW p \in Starters, ClaimLock(p) PROVE PresenceInv'
  BY <1>6 DEF ClaimLock
<1>7. ASSUME NEW p \in Starters, ClaimRefused(p) PROVE PresenceInv'
  BY <1>7 DEF ClaimRefused
<1>8. ASSUME NEW p \in Reapers, Exit(p) PROVE PresenceInv'
  BY <1>8 DEF Exit
<1>9. ASSUME NEW q \in Probers, ProbeOpen(q) PROVE PresenceInv'
  BY <1>9 DEF ProbeOpen
<1>10. ASSUME NEW q \in Probers, ProbeDead(q) PROVE PresenceInv'
  BY <1>10 DEF ProbeDead
<1>11. ASSUME NEW q \in Probers, ProbeLive(q) PROVE PresenceInv'
  BY <1>11 DEF ProbeLive
<1>12. ASSUME NEW q \in Probers, ProbeClose(q) PROVE PresenceInv'
  BY <1>12 DEF ProbeClose
<1>13. CASE UNCHANGED vars
  BY <1>13 DEF vars
<1> QED
  BY <1>1, <1>2, <1>3, <1>4, <1>5, <1>6, <1>7, <1>8, <1>9, <1>10, <1>11, <1>12, <1>13
  DEF Next, Reap, Claim, Probe

\* The presence invariant holds throughout.
LEMMA PresenceInvariance == Spec => []PresenceInv
<1>1. Init => PresenceInv
  BY DEF Init, PresenceInv, TypeOK, States, Starting, Reaping, Procs, Reapers
<1>2. PresenceInv /\ [Next]_vars => PresenceInv'
  BY PresenceStep
<1> QED
  BY <1>1, <1>2, PTL DEF Spec

\* The presence files' variables keep their types.
THEOREM PresenceTypes == Spec => []TypeOK
<1>1. PresenceInv => TypeOK
  BY DEF PresenceInv
<1> QED
  BY <1>1, PresenceInvariance, PTL

\* Of two live processes that hold one agent id, one crossed a reap when it
\* claimed it, however the start-ups of all sessions and the probes interleave.
THEOREM IdIsExclusive == Spec => []OneHolder
<1>1. PresenceInv => OneHolder
  BY DEF PresenceInv, OneHolder, Holds, Procs, Reapers
<1> QED
  BY <1>1, PresenceInvariance, PTL

\* A session whose claim crossed no reap holds the lock on the file its id's path
\* leads to for as long as it lives.
THEOREM HolderIsVisible == Spec => []HolderVisible
<1>1. PresenceInv => HolderVisible
  BY DEF PresenceInv, HolderVisible, Holds
<1> QED
  BY <1>1, PresenceInvariance, PTL

\* No reaper, of any id, unlinks the file of a live session whose claim it did
\* not cross.
THEOREM ReapIsSafe == Spec => ReapsOnlyTheDead
<1>1. PresenceInv /\ [Next]_vars =>
        [path' # path => \A p \in Starters : Holds(p) /\ fd[p] = path => p \in crossed]_vars
  <2> SUFFICES ASSUME PresenceInv, [Next]_vars, path' # path,
                      NEW h \in Starters, Holds(h), h \notin crossed
               PROVE  FALSE
    OBVIOUS
  <2>1. CASE \E p \in Reapers : ReapUnlink(p)
    BY <2>1 DEF ReapUnlink, PresenceInv, Holds
  <2>2. CASE \E p \in Starters : ClaimOpen(p)
    BY <2>2 DEF ClaimOpen, PresenceInv, Holds
  <2> QED
    BY <2>1, <2>2 DEF Next, vars, Reap, Claim, Probe, ReapOpen, ReapLock, ReapClose,
       ClaimLock, ClaimRefused, Exit, ProbeOpen, ProbeDead, ProbeLive, ProbeClose
<1> QED
  BY <1>1, PresenceInvariance, PTL DEF Spec, ReapsOnlyTheDead

\* A probe that finds the lock free on the file the name still leads to is right
\* that nobody whose claim crossed no reap holds the id.
THEOREM DeadAnswersAreTrue == Spec => DeadIsDead
<1>1. PresenceInv /\ [Next]_vars =>
        [\A q \in Probers :
           pc[q] = "probe" /\ pc'[q] = "probing" /\ fd[q] = path
               => \A p \in Starters : Holds(p) => p \in crossed]_vars
  <2> SUFFICES ASSUME PresenceInv, Next, NEW q \in Probers, NEW h \in Starters,
                      pc[q] = "probe", pc'[q] = "probing", fd[q] = path, Holds(h),
                      h \notin crossed
               PROVE  FALSE
    OBVIOUS
  <2>1. h \in locked /\ fd[h] = path
    BY DEF PresenceInv, Holds
  <2>2. ~Free(fd[q])
    BY <2>1 DEF Free
  <2>3. ASSUME NEW r \in Probers, ProbeDead(r) PROVE FALSE
    BY <2>2, <2>3 DEF ProbeDead, Goto, PresenceInv, TypeOK, Procs
  <2>4. ASSUME NEW p \in Reapers, Reap(p) \/ Exit(p) PROVE FALSE
    BY <2>4, PresenceOK DEF Reap, ReapOpen, ReapLock, ReapUnlink, ReapClose, Exit, Goto,
       AfterReap, PresenceInv, TypeOK, Procs, Reapers
  <2>5. ASSUME NEW p \in Starters, Claim(p) PROVE FALSE
    BY <2>5, PresenceOK DEF Claim, ClaimOpen, ClaimLock, ClaimRefused, Goto,
       PresenceInv, TypeOK, Procs, Reapers
  <2>6. ASSUME NEW r \in Probers, ProbeOpen(r) \/ ProbeLive(r) \/ ProbeClose(r) PROVE FALSE
    BY <2>6 DEF ProbeOpen, ProbeLive, ProbeClose, Goto, PresenceInv, TypeOK, Procs
  <2> QED
    BY <2>3, <2>4, <2>5, <2>6 DEF Next, Probe
<1> QED
  BY <1>1, PresenceInvariance, PTL DEF Spec, DeadIsDead

-----------------------------------------------------------------------------
(* Tasks.                                                                  *)

\* ClaimInv is inductive.
LEMMA ClaimStep == ClaimInv /\ [TaskNext]_taskVars => ClaimInv'
<1> SUFFICES ASSUME ClaimInv, [TaskNext]_taskVars PROVE ClaimInv'
  OBVIOUS
<1> USE AgentsOK DEF ClaimInv, TaskTypeOK, Records, RecordFollowsMarker, Return, Read
<1>1. ASSUME NEW a \in Agents, Create(a) PROVE ClaimInv'
  BY <1>1 DEF Create
<1>2. ASSUME NEW a \in Agents, ClaimRead(a) PROVE ClaimInv'
  BY <1>2 DEF ClaimRead
<1>3. ASSUME NEW a \in Agents, ClaimCreate(a) PROVE ClaimInv'
  BY <1>3 DEF ClaimCreate
<1>4. ASSUME NEW a \in Agents, ClaimExists(a) PROVE ClaimInv'
  BY <1>4 DEF ClaimExists
<1>5. ASSUME NEW a \in Agents, ClaimStamp(a) PROVE ClaimInv'
  BY <1>5 DEF ClaimStamp
<1>6. ASSUME NEW a \in Agents, ClaimRecord(a) PROVE ClaimInv'
  BY <1>6 DEF ClaimRecord
<1>7. ASSUME NEW a \in Agents, CompleteRead(a) PROVE ClaimInv'
  BY <1>7 DEF CompleteRead
<1>8. ASSUME NEW a \in Agents, CompleteWrite(a) PROVE ClaimInv'
  BY <1>8 DEF CompleteWrite
<1>9. ASSUME NEW a \in Agents, Crash(a) PROVE ClaimInv'
  BY <1>9 DEF Crash
<1>10. CASE UNCHANGED taskVars
  BY <1>10 DEF taskVars
<1> QED
  BY <1>1, <1>2, <1>3, <1>4, <1>5, <1>6, <1>7, <1>8, <1>9, <1>10 DEF TaskNext, ClaimTask

\* ClaimInv holds throughout.
LEMMA ClaimInvariance == TaskSpec => []ClaimInv
<1>1. TaskInit => ClaimInv
  BY AgentsOK DEF TaskInit, ClaimInv, TaskTypeOK, Records, RecordFollowsMarker
<1> QED
  BY <1>1, ClaimStep, PTL DEF TaskSpec

\* The task store's variables keep their types, for any number of agents.
THEOREM TaskTypes == TaskSpec => []TaskTypeOK
<1>1. ClaimInv => TaskTypeOK
  BY DEF ClaimInv
<1> QED
  BY <1>1, ClaimInvariance, PTL

\* However many agents race for a task, and wherever they crash, at most one of
\* them is told it owns the work.
THEOREM ClaimIsExclusive == TaskSpec => []OneWinner
<1>1. ClaimInv => OneWinner
  BY DEF ClaimInv, OneWinner
<1> QED
  BY <1>1, ClaimInvariance, PTL

\* A "claimed" record always names the agent the exclusive create picked.
THEOREM RecordIsBookkeeping == TaskSpec => []RecordFollowsMarker
<1>1. ClaimInv => RecordFollowsMarker
  BY DEF ClaimInv
<1> QED
  BY <1>1, ClaimInvariance, PTL

=============================================================================
