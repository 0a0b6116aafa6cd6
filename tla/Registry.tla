------------------------------ MODULE Registry ------------------------------
(***************************************************************************)
(* Channels and the durable registry: presence records (.presence/), the   *)
(* record of a nick (.agents/), rooms and who is in them, and the roster   *)
(* of other hosts (.remote/) that git_bridge derives from both.            *)
(*                                                                         *)
(* Sessions are the sessions of one nick on one host; sessions of other    *)
(* nicks start, post and send too.  Each id is used once.  A write of the  *)
(* nick's record is a read, a change and a rename, with no lock; a         *)
(* presence record is truncated and rewritten in place; a delivery makes   *)
(* the inbox and then writes into it.                                      *)
(***************************************************************************)
EXTENDS Naturals, FiniteSets

CONSTANTS
    Sessions,
    Channels,
    EnvChannels,     \* MCP_DISPATCH_CHANNELS
    NoOne,
    Asked,           \* bound: the rooms sessions join, leave and post to
    Apart            \* bound: no post while a session has published to other hosts

ASSUME ConstantsOK ==
    /\ EnvChannels \subseteq Channels
    /\ NoOne \notin Sessions \cup Channels
    /\ Asked \subseteq Channels
    /\ Apart \in BOOLEAN

VARIABLES
    pc,        \* what each session is doing
    file,      \* its presence file; a full one holds mem[s]
    mem,       \* _PRESENCE_DATA["channels"], as long as the file exists
    rec,       \* the nick's record
    copy,      \* the record as the session has read it
    dirs,      \* sessions whose inbox directory exists
    mail,      \* sessions with unread mail in it
    lanes,     \* sessions that have published a message to other hosts
    remote,    \* .remote/
    topic,     \* the channel of the post under way
    scan, got, \* presence files it has still to read, subscribers to write to
    opened,    \* the subscriber whose inbox it has made
    owed,      \* history: sessions in the channel, and not rewriting, since it
               \* began, with no copy yet
    wish,      \* history: the rooms the nick last recorded, but for those that
               \* an overlapping update has undone
    excused    \* history: sessions whose inbox directory was removed, or that an
               \* overlapping update dropped from the record

postVars == <<topic, scan, got, opened>>
recVars == <<rec, copy, wish>>
vars == <<pc, file, mem, recVars, dirs, mail, lanes, remote, postVars, owed, excused>>

\* local_sessions has last_session_id in it.
Records == [channels : SUBSET Channels, local : SUBSET Sessions]
NoRecord == [channels |-> {}, local |-> {}]

TypeOK ==
    /\ pc \in [Sessions -> {"new", "made", "locked", "published", "registering",
                            "up", "rewriting", "mirroring", "touching",
                            "leaving", "stopping", "exiting", "stamping", "dead"}]
    /\ file \in [Sessions -> {"none", "torn", "full"}]
    /\ mem \in [Sessions -> SUBSET Channels]
    /\ rec \in Records
    /\ copy \in [Sessions -> Records]
    /\ dirs \subseteq Sessions
    /\ mail \subseteq dirs
    /\ lanes \subseteq Sessions
    /\ remote \subseteq lanes
    /\ topic \in Channels \cup {NoOne}
    /\ scan \subseteq Sessions /\ got \subseteq Sessions
    /\ opened \in Sessions \cup {NoOne}
    /\ owed \subseteq Sessions
    /\ wish \subseteq Channels
    /\ excused \subseteq Sessions

Init ==
    /\ pc = [s \in Sessions |-> "new"]
    /\ file = [s \in Sessions |-> "none"]
    /\ mem = [s \in Sessions |-> {}]
    /\ rec = NoRecord
    /\ copy = [s \in Sessions |-> NoRecord]
    /\ dirs = {} /\ mail = {} /\ lanes = {} /\ remote = {}
    /\ topic = NoOne /\ scan = {} /\ got = {} /\ opened = NoOne
    /\ owed = {} /\ wish = {} /\ excused = {}

-----------------------------------------------------------------------------
\* Whoever holds the lock of its presence file.
Live == {s \in Sessions : pc[s] \notin {"new", "made", "exiting", "stamping", "dead"}}
Siblings(s) == Live \ {s}
Serving == {s \in Sessions : pc[s] \in {"up", "rewriting", "mirroring", "touching", "leaving", "stopping"}}

\* It had the lock and has it no more; SIGTERM's handler stamps the record
\* twice, the second time without the lock.
Gone == {s \in Sessions : pc[s] \in {"exiting", "stamping", "dead"}}

\* The rooms of the nick's record, if the nick is coming back online.
RememberedChannels(s) ==
    IF Siblings(s) = {} THEN rec.channels ELSE {}

\* Every id the registry has as claimed on this host.
LocalSessionIds == rec.local

\* git_bridge._local_ids: those and the ids that have a presence file.
LocalIds == LocalSessionIds \cup {s \in Sessions : file[s] # "none"}

\* An update of the nick's record reads it ...
ReadRecord(s) ==
    /\ copy' = [copy EXCEPT ![s] = rec]
    /\ UNCHANGED <<rec, wish, excused>>

\* ... and writes what it has made of that, whatever was written in between:
\* sessions that have registered since are dropped, ...
WriteRecord(s, r) ==
    /\ rec' = r
    /\ copy' = [copy EXCEPT ![s] = NoRecord]
    /\ excused' = excused \cup (rec.local \ copy[s].local)

\* ... and, unless the update is about rooms, rooms recorded since are undone.
WriteSameRooms(s, r) ==
    /\ WriteRecord(s, r)
    /\ wish' = wish \ (rec.channels \ copy[s].channels)

-----------------------------------------------------------------------------
(* A session starts.                                                       *)

\* Remove the presence files of the dead and every empty inbox, also one of a
\* live session; then make one's own.
Start(s) ==
    /\ pc[s] = "new"
    /\ pc' = [pc EXCEPT ![s] = "made"]
    /\ file' = [t \in Sessions |-> IF t \in Gone THEN "none" ELSE file[t]]
    /\ mem' = [t \in Sessions |-> IF t \in Gone THEN {} ELSE mem[t]]
    /\ dirs' = mail \cup {s}
    /\ excused' = excused \cup (dirs \ mail)
    /\ UNCHANGED <<recVars, mail, lanes, remote, postVars, owed>>

\* Sessions of other nicks do the same when they start: a presence file ...
ReapPresence(t) ==
    /\ t \in Gone
    /\ file' = [file EXCEPT ![t] = "none"]
    /\ mem' = [mem EXCEPT ![t] = {}]
    /\ UNCHANGED <<pc, recVars, dirs, mail, lanes, remote, postVars, owed, excused>>

\* ... an inbox.
ReapInbox(t) ==
    /\ t \in dirs \ mail
    /\ dirs' = dirs \ {t}
    /\ excused' = excused \cup {t}
    /\ UNCHANGED <<pc, file, mem, recVars, mail, lanes, remote, postVars, owed>>

\* _try_lock_presence creates the presence file, locks it ...
Lock(s) ==
    /\ pc[s] = "made"
    /\ pc' = [pc EXCEPT ![s] = "locked"]
    /\ file' = [file EXCEPT ![s] = "torn"]
    /\ UNCHANGED <<mem, recVars, dirs, mail, lanes, remote, postVars, owed, excused>>

\* ... and writes it.
Publish(s) ==
    /\ pc[s] = "locked"
    /\ pc' = [pc EXCEPT ![s] = "published"]
    /\ mem' = [mem EXCEPT ![s] = EnvChannels \cup RememberedChannels(s)]
    /\ file' = [file EXCEPT ![s] = "full"]
    /\ UNCHANGED <<recVars, dirs, mail, lanes, remote, postVars, owed, excused>>

\* _register_agent reads the record ...
ReadToRegister(s) ==
    /\ pc[s] = "published"
    /\ pc' = [pc EXCEPT ![s] = "registering"]
    /\ ReadRecord(s)
    /\ UNCHANGED <<file, mem, dirs, mail, lanes, remote, postVars, owed>>

\* Mutant: only the session that registers is recorded.
RegisterAlone(s) ==
    /\ pc[s] = "registering"
    /\ pc' = [pc EXCEPT ![s] = "up"]
    /\ WriteSameRooms(s, [channels |-> copy[s].channels, local |-> {s}])
    /\ UNCHANGED <<file, mem, dirs, mail, lanes, remote, postVars, owed>>

\* ... and writes it back with this session in it, without the sessions whose
\* inbox is gone.
Register(s) ==
    /\ pc[s] = "registering"
    /\ pc' = [pc EXCEPT ![s] = "up"]
    /\ WriteSameRooms(s, [channels |-> copy[s].channels,
                          local |-> {s} \cup (copy[s].local \cap dirs)])
    /\ UNCHANGED <<file, mem, dirs, mail, lanes, remote, postVars, owed>>

-----------------------------------------------------------------------------
(* Rooms.                                                                  *)

\* _set_subscription changes the set; _write_presence truncates the file ...
Subscribe(s, c, join) ==
    /\ pc[s] = "up"
    /\ pc' = [pc EXCEPT ![s] = "rewriting"]
    /\ mem' = [mem EXCEPT ![s] = IF join THEN @ \cup {c} ELSE @ \ {c}]
    /\ file' = [file EXCEPT ![s] = "torn"]
    /\ owed' = owed \ {s}
    /\ UNCHANGED <<recVars, dirs, mail, lanes, remote, postVars, excused>>

\* ... and writes it; then _touch_agent reads the nick's record ...
Rewrite(s) ==
    /\ pc[s] = "rewriting"
    /\ pc' = [pc EXCEPT ![s] = "mirroring"]
    /\ file' = [file EXCEPT ![s] = "full"]
    /\ UNCHANGED <<mem, recVars, dirs, mail, lanes, remote, postVars, owed, excused>>

ReadToMirror(s) ==
    /\ pc[s] = "mirroring"
    /\ pc' = [pc EXCEPT ![s] = "touching"]
    /\ ReadRecord(s)
    /\ UNCHANGED <<file, mem, dirs, mail, lanes, remote, postVars, owed>>

\* ... and writes the rooms into it that do not come from the environment.
Mirror(s) ==
    /\ pc[s] = "touching"
    /\ pc' = [pc EXCEPT ![s] = "up"]
    /\ WriteRecord(s, [copy[s] EXCEPT !.channels = mem[s] \ EnvChannels])
    /\ wish' = mem[s] \ EnvChannels
    /\ UNCHANGED <<file, mem, dirs, mail, lanes, remote, postVars, owed>>

-----------------------------------------------------------------------------
(* A post to a channel, by a session of another nick or by the git bridge. *)

\* channel_subscribers lists the live presence files ...
Post(c) ==
    /\ topic = NoOne /\ (Apart => lanes = {})
    /\ topic' = c
    /\ scan' = {s \in Live : file[s] # "none"}
    /\ owed' = {s \in Live : file[s] = "full" /\ c \in mem[s]}
    /\ UNCHANGED <<pc, file, mem, recVars, dirs, mail, lanes, remote,
                   got, opened, excused>>

\* Mutant: a file that cannot be parsed ends the scan.
ReadPresenceOrStop(s) ==
    /\ s \in scan
    /\ scan' = IF file[s] = "torn" THEN {} ELSE scan \ {s}
    /\ got' = IF file[s] = "full" /\ topic \in mem[s] THEN got \cup {s} ELSE got
    /\ UNCHANGED <<pc, file, mem, recVars, dirs, mail, lanes, remote,
                   topic, opened, owed, excused>>

\* ... and reads them one by one, leaving out one that is being rewritten.
ReadPresence(s) ==
    /\ s \in scan
    /\ scan' = scan \ {s}
    /\ got' = IF file[s] = "full" /\ topic \in mem[s] THEN got \cup {s} ELSE got
    /\ UNCHANGED <<pc, file, mem, recVars, dirs, mail, lanes, remote,
                   topic, opened, owed, excused>>

\* For one subscriber after the other the post makes the inbox ...
OpenSubscriber(s) ==
    /\ scan = {} /\ opened = NoOne /\ s \in got
    /\ dirs' = dirs \cup {s}
    /\ opened' = s
    /\ UNCHANGED <<pc, file, mem, recVars, mail, lanes, remote,
                   topic, scan, got, owed, excused>>

\* ... and writes a copy into it.
WriteSubscriber ==
    /\ opened \in dirs
    /\ mail' = mail \cup {opened}
    /\ got' = got \ {opened}
    /\ owed' = owed \ {opened}
    /\ opened' = NoOne
    /\ UNCHANGED <<pc, file, mem, recVars, dirs, lanes, remote,
                   topic, scan, excused>>

PostOver ==
    /\ topic' = NoOne /\ scan' = {} /\ got' = {} /\ opened' = NoOne
    /\ owed' = {}
    /\ UNCHANGED <<pc, file, mem, recVars, dirs, mail, lanes, remote, excused>>

\* A starting session has removed the inbox in between: the write raises, and
\* the rest of the subscribers get nothing.
WriteFails ==
    /\ opened # NoOne /\ opened \notin dirs
    /\ PostOver

\* The process that posts may die.
PosterDies ==
    /\ topic # NoOne
    /\ PostOver

\* It returns the list of those it delivered to.
Posted == topic # NoOne /\ scan = {} /\ got = {} /\ opened = NoOne
EndPost ==
    /\ Posted
    /\ PostOver

-----------------------------------------------------------------------------
(* A session ends, and what happens to its mail.                           *)

\* _release_id stamps the record: read, when the program ends ...
Leave(s) ==
    /\ pc[s] = "up"
    /\ pc' = [pc EXCEPT ![s] = "leaving"]
    /\ ReadRecord(s)
    /\ UNCHANGED <<file, mem, dirs, mail, lanes, remote, postVars, owed>>

\* ... or on SIGTERM, in the middle of anything, ...
OnSigterm(s) ==
    /\ pc[s] \in {"up", "rewriting", "mirroring", "touching", "leaving"}
    /\ pc' = [pc EXCEPT ![s] = "stopping"]
    /\ ReadRecord(s)
    /\ UNCHANGED <<file, mem, dirs, mail, lanes, remote, postVars, owed>>

\* ... and then once more at exit, when the lock is gone; ...
StampAgain(s) ==
    /\ pc[s] = "exiting"
    /\ pc' = [pc EXCEPT ![s] = "stamping"]
    /\ ReadRecord(s)
    /\ UNCHANGED <<file, mem, dirs, mail, lanes, remote, postVars, owed>>

\* Mutant: the rooms go with the session.
ReleasedBare(s) ==
    /\ pc[s] \in {"leaving", "stopping", "stamping"}
    /\ pc' = [pc EXCEPT ![s] = IF pc[s] = "stopping" THEN "exiting" ELSE "dead"]
    /\ WriteSameRooms(s, [copy[s] EXCEPT !.channels = {}])
    /\ owed' = owed \ {s}
    /\ UNCHANGED <<file, mem, dirs, mail, lanes, remote, postVars>>

\* ... write back, and drop the lock.
Released(s) ==
    /\ pc[s] \in {"leaving", "stopping", "stamping"}
    /\ pc' = [pc EXCEPT ![s] = IF pc[s] = "stopping" THEN "exiting" ELSE "dead"]
    /\ WriteSameRooms(s, copy[s])
    /\ owed' = owed \ {s}
    /\ UNCHANGED <<file, mem, dirs, mail, lanes, remote, postVars>>

Crash(s) ==
    /\ pc[s] \notin {"new", "dead"}
    /\ pc' = [pc EXCEPT ![s] = "dead"]
    /\ copy' = [copy EXCEPT ![s] = NoRecord]
    /\ owed' = owed \ {s}
    /\ UNCHANGED <<file, mem, rec, wish, dirs, mail, lanes, remote,
                   postVars, excused>>

\* Somebody makes the session's inbox in order to write to it: a direct send or
\* a broadcast that resolved to it while it lived, a direct send to an id the
\* roster has, or the git bridge, which asks neither.
Address(s) ==
    /\ pc[s] # "new" /\ s \notin dirs
    /\ dirs' = dirs \cup {s}
    /\ UNCHANGED <<pc, file, mem, recVars, mail, lanes, remote, postVars, owed, excused>>

\* The write, which raises and leaves nothing when the inbox was removed again.
Receive(s) ==
    /\ s \in dirs
    /\ mail' = mail \cup {s}
    /\ UNCHANGED <<pc, file, mem, recVars, dirs, lanes, remote, postVars, owed, excused>>

\* It reads and acks all of it.
Read(s) ==
    /\ pc[s] = "up" /\ s \in mail
    /\ mail' = mail \ {s}
    /\ UNCHANGED <<pc, file, mem, recVars, dirs, lanes, remote, postVars, owed, excused>>

\* A session takes over what one without a lock has not read, unless the roster
\* has it for another host's (_inherit_orphan_inbox).
Adopt(s, t) ==
    /\ s \in Serving \cap dirs /\ t \notin Live /\ t \in mail \ remote
    /\ mail' = (mail \ {t}) \cup {s}
    /\ UNCHANGED <<pc, file, mem, recVars, dirs, lanes, remote, postVars, owed, excused>>

\* The git bridge publishes something the session sent.  To do so after it has
\* ended would only leave it out of the roster for longer.
PublishLane(s) ==
    /\ pc[s] = "up" /\ (Apart => topic = NoOne)
    /\ lanes' = lanes \cup {s}
    /\ UNCHANGED <<pc, file, mem, recVars, dirs, mail, remote, postVars, owed, excused>>

\* Mutant: whoever has an inbox directory is listed.
WriteRemoteRosterOfInboxes ==
    /\ remote' = dirs \ LocalIds
    /\ UNCHANGED <<pc, file, mem, recVars, dirs, mail, lanes, postVars, owed, excused>>

\* The bridge's roster: whoever has a lane and is not from here.  The process
\* that writes it is the one that publishes the lanes.
WriteRemoteRoster ==
    /\ remote' = lanes \ LocalIds
    /\ UNCHANGED <<pc, file, mem, recVars, dirs, mail, lanes, postVars, owed, excused>>

\* scripts/recover-stranded-mail.py moves what waits in a dead session's inbox
\* the roster has for another host's into the inbox of the nick.
Recover(s) ==
    /\ s \notin Live /\ s \in remote \cap mail
    /\ mail' = mail \ {s}
    /\ UNCHANGED <<pc, file, mem, recVars, dirs, lanes, remote, postVars, owed, excused>>

-----------------------------------------------------------------------------
Next ==
    \/ \E s \in Sessions :
        \/ Start(s) \/ ReapPresence(s) \/ ReapInbox(s)
        \/ Lock(s) \/ Publish(s) \/ ReadToRegister(s) \/ Register(s)
        \/ Rewrite(s) \/ ReadToMirror(s) \/ Mirror(s)
        \/ Leave(s) \/ OnSigterm(s) \/ StampAgain(s) \/ Released(s) \/ Crash(s)
        \/ Address(s) \/ Receive(s) \/ Read(s) \/ PublishLane(s) \/ Recover(s)
        \/ ReadPresence(s) \/ OpenSubscriber(s)
    \/ \E s \in Sessions, c \in Asked, join \in BOOLEAN : Subscribe(s, c, join)
    \/ \E s \in Sessions, t \in Sessions : Adopt(s, t)
    \/ \E c \in Asked : Post(c)
    \/ WriteSubscriber \/ WriteFails \/ PosterDies \/ EndPost
    \/ WriteRemoteRoster

Spec == Init /\ [][Next]_vars

-----------------------------------------------------------------------------
(* Safety.                                                                 *)

\* The unread mail of a session that ran on this host is never put out of the
\* reach of adoption: the bridge does not take the session for another host's,
\* although its presence file is removed at the next start-up and mail may come
\* for it after its death.  The exceptions are the two ways for the record to
\* forget a session: a starting session found its inbox empty and removed it,
\* or two updates of the record overlapped and the later write dropped it.
LocalNeverRemote == \A s \in mail \ excused : s \notin remote

\* A post that returns without an error has written a copy into the inbox of
\* every session that was in the channel and left its presence record alone
\* while the post was under way: a record caught half-written costs nobody but
\* the session that is writing it.  (One whose write raises half-way promises
\* nothing: those it had not come to get no copy.)
PostReaches == Posted => owed = {}

\* A nick that comes back online is in the rooms it last recorded, whatever
\* its sessions did to the record in between (_remembered_channels).  The
\* exceptions: an update of the record that overlapped with the one that
\* recorded the rooms has undone it, or another session of the nick holds its
\* lock at that moment, which of two that start at once is true of both.
RoomsKept ==
    [][\A s \in Sessions :
        pc[s] = "locked" /\ pc'[s] = "published" /\ Siblings(s) = {} => wish \subseteq mem'[s]]_vars

=============================================================================
