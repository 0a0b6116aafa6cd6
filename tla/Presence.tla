------------------------------ MODULE Presence ------------------------------
(***************************************************************************)
(* Who holds an agent id: the presence file of one id, its inodes and the  *)
(* flock on them (server.py, _reap_dead_presence, _try_lock_presence,      *)
(* _release_id; dispatch_fs.py, presence_is_live).  The file's contents    *)
(* are not modelled.  Files of different ids share no state, but a session *)
(* that starts under any id reaps them all.                                *)
(***************************************************************************)
EXTENDS Naturals, FiniteSets

CONSTANTS
    Starters,  \* processes started with this agent id
    Others,    \* processes started with other ids, whose start-up reaps it too
    Probers,   \* processes that ask whether it is live
    MaxInodes  \* bound on files created at the path

ASSUME PresenceOK ==
    /\ Starters \cap Others = {}
    /\ (Starters \cup Others) \cap Probers = {}
    /\ MaxInodes \in Nat

Reapers == Starters \cup Others
Procs == Reapers \cup Probers

VARIABLES
    path,    \* the inode the file name leads to, 0 if there is none
    inodes,  \* inodes created so far: 1..inodes
    fd,      \* the inode each process has open, 0 if none
    locked,  \* processes holding the flock on the inode they have open
    pc,      \* where each process is
    crossed  \* history: starters whose claim, between the open and the flock,
             \* met a reaper that had the file open and had not unlinked it yet

vars == <<path, inodes, fd, locked, pc, crossed>>

Reaping == {"reap", "doomed", "unlinked"}
Starting == Reaping \cup {"reaped", "claim"}
States == Starting \cup {"off", "live", "probe", "probing"}

TypeOK ==
    /\ path \in Nat /\ inodes \in Nat
    /\ fd \in [Procs -> Nat]
    /\ locked \subseteq Procs
    /\ pc \in [Procs -> States]
    /\ crossed \subseteq Starters

Init ==
    /\ path = 0 /\ inodes = 0
    /\ fd = [p \in Procs |-> 0]
    /\ locked = {}
    /\ pc = [p \in Procs |-> "off"]
    /\ crossed = {}

\* flock(LOCK_EX | LOCK_NB) on inode i would succeed.
Free(i) == \A q \in locked : fd[q] # i

Goto(p, s) == pc' = [pc EXCEPT ![p] = s]

Close(p) ==
    /\ fd' = [fd EXCEPT ![p] = 0]
    /\ locked' = locked \ {p}

Lock(p) == locked' = locked \cup {p} /\ UNCHANGED fd

-----------------------------------------------------------------------------
(* _reap_dead_presence: the start-up of every session passes over every    *)
(* presence file before it claims its own id.                              *)

\* With this file dealt with, a starter goes on to claim it; any other session
\* has no more to do with it.
AfterReap(p) == IF p \in Starters THEN "reaped" ELSE "off"

ReapOpen(p) ==
    /\ pc[p] = "off"
    /\ fd' = [fd EXCEPT ![p] = path]
    /\ Goto(p, IF path = 0 THEN AfterReap(p) ELSE "reap")
    /\ crossed' = IF path = 0 THEN crossed
                  ELSE crossed \cup {q \in Starters : pc[q] = "claim"}
    /\ UNCHANGED <<path, inodes, locked>>

\* Mutant: the result of the try-lock is ignored.
ReapUnchecked(p) ==
    /\ pc[p] = "reap"
    /\ Lock(p) /\ Goto(p, "doomed")
    /\ UNCHANGED <<path, inodes, crossed>>

ReapLock(p) ==
    /\ pc[p] = "reap"
    /\ IF Free(fd[p]) THEN Lock(p) /\ Goto(p, "doomed")
                      ELSE Close(p) /\ Goto(p, AfterReap(p))
    /\ UNCHANGED <<path, inodes, crossed>>

\* pf.unlink() goes by name, whatever file that is by now.
ReapUnlink(p) ==
    /\ pc[p] = "doomed"
    /\ path' = 0
    /\ Goto(p, "unlinked")
    /\ UNCHANGED <<inodes, fd, locked, crossed>>

ReapClose(p) ==
    /\ pc[p] = "unlinked"
    /\ Close(p) /\ Goto(p, AfterReap(p))
    /\ UNCHANGED <<path, inodes, crossed>>

-----------------------------------------------------------------------------
(* _try_lock_presence and _release_id.                                     *)

\* Somebody else is between the open and the unlink of its pass.
ReapedBeside(p) == \E r \in Reapers \ {p} : pc[r] \in {"reap", "doomed"}

\* open(pf, "a+") creates the file if it is not there.
ClaimOpen(p) ==
    /\ pc[p] = "reaped"
    /\ IF path = 0
       THEN /\ inodes < MaxInodes
            /\ inodes' = inodes + 1 /\ path' = inodes + 1
       ELSE UNCHANGED <<inodes, path>>
    /\ fd' = [fd EXCEPT ![p] = path']
    /\ Goto(p, "claim")
    /\ crossed' = IF ReapedBeside(p) THEN crossed \cup {p} ELSE crossed
    /\ UNCHANGED locked

\* Mutant: a shared lock, which does not exclude another.
ClaimShared(p) ==
    /\ pc[p] = "claim"
    /\ Lock(p) /\ Goto(p, "live")
    /\ UNCHANGED <<path, inodes, crossed>>

\* Mutant: the claim replaces the file by a new one, as an atomic write would.
ClaimReplacing(p) ==
    /\ pc[p] = "claim" /\ Free(fd[p])
    /\ Lock(p) /\ Goto(p, "live")
    /\ inodes < MaxInodes
    /\ inodes' = inodes + 1 /\ path' = inodes + 1
    /\ UNCHANGED crossed

ClaimLock(p) ==
    /\ pc[p] = "claim" /\ Free(fd[p])
    /\ Lock(p) /\ Goto(p, "live")
    /\ UNCHANGED <<path, inodes, crossed>>

\* "already held by a live process": the server does not start.
ClaimRefused(p) ==
    /\ pc[p] = "claim" /\ ~Free(fd[p])
    /\ Close(p) /\ Goto(p, "off")
    /\ crossed' = crossed \ {p}
    /\ UNCHANGED <<path, inodes>>

\* Mutant: _release_id also unlinks the file.
ExitUnlinking(p) ==
    /\ pc[p] \in Starting \cup {"live"}
    /\ Close(p) /\ Goto(p, "off")
    /\ path' = IF pc[p] = "live" THEN 0 ELSE path
    /\ crossed' = crossed \ {p}
    /\ UNCHANGED inodes

\* Exit, SIGTERM or crash, at any point: the kernel drops the lock, the file
\* stays.
Exit(p) ==
    /\ pc[p] \in Starting \cup {"live"}
    /\ Close(p) /\ Goto(p, "off")
    /\ crossed' = crossed \ {p}
    /\ UNCHANGED <<path, inodes>>

-----------------------------------------------------------------------------
(* presence_is_live: take the lock to see whether anyone has it.           *)

ProbeOpen(q) ==
    /\ pc[q] = "off" /\ path # 0
    /\ fd' = [fd EXCEPT ![q] = path]
    /\ Goto(q, "probe")
    /\ UNCHANGED <<path, inodes, locked, crossed>>

\* Nobody home: the probe itself holds the lock until it closes.
ProbeDead(q) ==
    /\ pc[q] = "probe" /\ Free(fd[q])
    /\ Lock(q) /\ Goto(q, "probing")
    /\ UNCHANGED <<path, inodes, crossed>>

\* The lock is taken: answer "live".
ProbeLive(q) ==
    /\ pc[q] = "probe" /\ ~Free(fd[q])
    /\ Close(q) /\ Goto(q, "off")
    /\ UNCHANGED <<path, inodes, crossed>>

ProbeClose(q) ==
    /\ pc[q] = "probing"
    /\ Close(q) /\ Goto(q, "off")
    /\ UNCHANGED <<path, inodes, crossed>>

-----------------------------------------------------------------------------
Reap(p) == ReapOpen(p) \/ ReapLock(p) \/ ReapUnlink(p) \/ ReapClose(p)
Claim(p) == ClaimOpen(p) \/ ClaimLock(p) \/ ClaimRefused(p)
Probe(q) == ProbeOpen(q) \/ ProbeDead(q) \/ ProbeLive(q) \/ ProbeClose(q)

Next ==
    \/ \E p \in Reapers : Reap(p) \/ Exit(p)
    \/ \E p \in Starters : Claim(p)
    \/ \E q \in Probers : Probe(q)

Spec == Init /\ [][Next]_vars

-----------------------------------------------------------------------------
(* Properties, for every interleaving of start-ups, of this id and others. *)
(* They exempt the sessions whose claim crossed another session's reap of  *)
(* the file (Known limits in the README).                                  *)

Holds(p) == pc[p] = "live"

\* "two live processes can never claim the same agent id" (README.md:781), as far
\* as it is true: of two processes that hold one agent id at a time, one crossed
\* a reap when it claimed it.
OneHolder ==
    \A p, q \in Starters : Holds(p) /\ Holds(q) => p = q \/ p \in crossed \/ q \in crossed

\* A session whose claim crossed no reap can be found for as long as it lives,
\* whoever starts, reaps or probes later: the file a probe opens is the one its
\* lock is on, so who(), routing and the supervisor all see it.
HolderVisible == \A p \in Starters : Holds(p) /\ p \notin crossed => fd[p] = path /\ path # 0

\* "Holds the lock across the unlink so a process reclaiming the same id can't
\* recreate-and-lock the file underneath us" (server.py:663): no reaper unlinks
\* the file a live session has locked, unless it had some file of the id open
\* since before that session locked its own.
ReapsOnlyTheDead ==
    [][path' # path => \A p \in Starters : Holds(p) /\ fd[p] = path => p \in crossed]_vars

\* A probe that calls the file dead it was led to, while the name still leads
\* there, is right: adoption and the supervisor, which act on the answer, never
\* take a live session whose claim crossed no reap for a corpse on it.
DeadIsDead ==
    [][\A q \in Probers :
         pc[q] = "probe" /\ pc'[q] = "probing" /\ fd[q] = path
             => \A p \in Starters : Holds(p) => p \in crossed]_vars

\* What makes them hold: a reaper that could still take the name away from a claim
\* that crossed no reap has the very inode open that the claim is on.
PresenceInv ==
    /\ TypeOK
    /\ \A p \in locked : pc[p] \in {"doomed", "unlinked", "live", "probing"}
    /\ \A p, q \in Procs : p \in locked /\ q \in locked /\ fd[p] = fd[q] => p = q
    /\ \A p \in Reapers : pc[p] \notin {"probe", "probing"}
    /\ \A p \in Others : pc[p] \in Reaping \cup {"off"}
    /\ \A q \in Probers : pc[q] \in {"off", "probe", "probing"}
    /\ \A p \in Starters : pc[p] = "live" => p \in locked
    /\ \A p \in Starters : pc[p] \in {"claim", "live"} /\ p \notin crossed =>
         /\ fd[p] = path /\ path # 0
         /\ \A r \in Reapers : pc[r] # "doomed"
    /\ \A p \in Starters : pc[p] = "claim" /\ p \notin crossed =>
         \A r \in Reapers : pc[r] # "reap"
    /\ \A p \in Starters : pc[p] = "live" /\ p \notin crossed =>
         \A r \in Reapers : pc[r] = "reap" => fd[r] = path

=============================================================================
