------------------------------- MODULE Relay -------------------------------
(***************************************************************************)
(* The on-disk mailbox protocol of mcp-dispatch: sessions start, claim an  *)
(* inbox, send, read, acknowledge, and adopt the unread mail of dead       *)
(* sessions of their own nick (server.py, dispatch_fs.py).                 *)
(*                                                                         *)
(* A session id is "<nick>-<pid>", the id bin/dispatch-launcher gives every*)
(* session; it is claimed once and never returns.  A copy is one inbox     *)
(* file: the message and the inbox it was first written to, which is what  *)
(* makes its file name unique.  A file keeps its name when it is adopted.  *)
(***************************************************************************)
EXTENDS Naturals, FiniteSets

CONSTANTS
    Nicks,      \* durable teammates; a nick has a drop box of the same name
    Sessions,   \* session ids
    NickOf,     \* dispatch_fs.durable_nick of each session id
    Remote,     \* session ids in the .remote roster: they run on another host
    Msgs,       \* message ids
    MustRead,   \* messages sent with must_read
    Cli,        \* a sender that is no session (bin/dispatch-send)
    Everyone    \* the target 'all'

Inboxes == Sessions \cup Nicks

ASSUME ConstantsOK ==
    /\ NickOf \in [Sessions -> Nicks]
    /\ Sessions \cap Nicks = {}
    /\ Remote \subseteq Sessions
    /\ MustRead \subseteq Msgs
    /\ Cli \notin Inboxes
    /\ Everyone \notin Inboxes

Copies == Msgs \X Inboxes
Nick(d) == IF d \in Sessions THEN NickOf[d] ELSE d

VARIABLES
    phase,    \* how far each session is through server.py's start-up
    dirs,     \* inbox directories that exist
    known,    \* nicks in the .agents registry
    box,      \* box[d][c]: the state in file c of inbox d, "none" if absent
    stage,    \* progress of each message's send_message call
    sender,   \* who makes that call
    todo,     \* inboxes that call has still to write
    made,     \* the inbox it has just created and not yet written
    sweep,    \* files a session's running adoption pass has still to try
    tagging,  \* the file it has renamed into its inbox and not yet rewritten
    lapsed,   \* messages whose TTL has elapsed
    fate      \* history: what has become of each copy

vars == <<phase, dirs, known, box, stage, sender, todo, made, sweep, tagging, lapsed, fate>>
sendVars == <<stage, sender, todo, made>>
sweepVars == <<sweep, tagging>>

Phases == {"off", "reaped", "mkdired", "starting", "serving", "gone"}
FileStates == {"none", "pending", "read", "expired"}
Stages == {"new", "sending", "sent", "failed"}
Fates == {"unwritten", "held", "acked", "lapsed"}

TypeOK ==
    /\ phase \in [Sessions -> Phases]
    /\ dirs \subseteq Inboxes
    /\ known \subseteq Nicks
    /\ box \in [Inboxes -> [Copies -> FileStates]]
    /\ stage \in [Msgs -> Stages]
    /\ sender \in [Msgs -> Sessions \cup {Cli}]
    /\ todo \in [Msgs -> SUBSET Inboxes]
    /\ made \in [Msgs -> SUBSET Inboxes]
    /\ sweep \in [Sessions -> SUBSET (Inboxes \X Copies)]
    /\ tagging \in [Sessions -> SUBSET Copies]
    /\ lapsed \subseteq Msgs
    /\ fate \in [Copies -> Fates]

Init ==
    /\ phase = [s \in Sessions |-> "off"]
    /\ dirs = {}
    /\ known = {}
    /\ box = [d \in Inboxes |-> [c \in Copies |-> "none"]]
    /\ stage = [m \in Msgs |-> "new"]
    /\ sender = [m \in Msgs |-> Cli]
    /\ todo = [m \in Msgs |-> {}]
    /\ made = [m \in Msgs |-> {}]
    /\ sweep = [s \in Sessions |-> {}]
    /\ tagging = [s \in Sessions |-> {}]
    /\ lapsed = {}
    /\ fate = [c \in Copies |-> "unwritten"]

-----------------------------------------------------------------------------
(* What a process sees of the relay directory.                             *)

\* Sessions that hold the lock on their presence file.
Live == {s \in Sessions : phase[s] \in {"starting", "serving"}}

LiveSessionsOf(n) == {s \in Live : NickOf[s] = n}

\* Where a direct message to `target` is written (dispatch_fs.resolve_recipients).
ResolveRecipients(target) ==
    IF target \in Live \/ target \in Remote THEN {target}
    ELSE IF LiveSessionsOf(Nick(target)) # {} THEN LiveSessionsOf(Nick(target))
    ELSE {Nick(target)}

Recipients(by, target) ==
    IF target = Everyone THEN Live \ {by} ELSE ResolveRecipients(target)

\* Mutant: the donor may be alive.
DonorAlive(s, d) == d # s /\ Nick(d) = NickOf[s] /\ d \notin Remote

\* Inboxes a session may adopt from: dead siblings and the nick's drop box.
Donor(s, d) ==
    /\ d # s
    /\ Nick(d) = NickOf[s]
    /\ d \notin Remote
    /\ d \notin Live

\* Mutant: files that are not pending are adopted too.
DonorFilesAny(s) ==
    {p \in Inboxes \X Copies : Donor(s, p[1]) /\ box[p[1]][p[2]] # "none"}

\* Mutant: the nick's drop box is not among the donors.
DonorFilesOfSessions(s) ==
    {p \in Sessions \X Copies : Donor(s, p[1]) /\ box[p[1]][p[2]] = "pending"}

DonorFiles(s) ==
    {p \in Inboxes \X Copies : Donor(s, p[1]) /\ box[p[1]][p[2]] = "pending"}

\* What is in inbox d, whatever its state.
Files(d) == {c \in Copies : box[d][c] # "none"}

Empty(d) == Files(d) = {}

\* A session's main thread runs one tool call at a time.
Idle(s) ==
    /\ phase[s] = "serving"
    /\ \A m \in Msgs : ~(stage[m] = "sending" /\ sender[m] = s)

-----------------------------------------------------------------------------
(* Start-up, in the order of server.py's module body, and exit.            *)

\* Mutant: the inbox of a dead session is removed with what is in it.
ReapDead(s) ==
    /\ phase[s] = "off" /\ s \notin Remote
    /\ LET gone == {d \in dirs : d \notin known \cup Live}
       IN  /\ dirs' = dirs \ gone
           /\ box' = [d \in Inboxes |->
                        IF d \in gone THEN [c \in Copies |-> "none"] ELSE box[d]]
    /\ phase' = [phase EXCEPT ![s] = "reaped"]
    /\ UNCHANGED <<known, sendVars, sweepVars, lapsed, fate>>

\* _reap_empty_inboxes: every empty inbox goes, except a registered nick's.
Reap(s) ==
    /\ phase[s] = "off" /\ s \notin Remote
    /\ dirs' = dirs \ {d \in dirs : d \notin known /\ Empty(d)}
    /\ phase' = [phase EXCEPT ![s] = "reaped"]
    /\ UNCHANGED <<known, box, sendVars, sweepVars, lapsed, fate>>

MakeInbox(s) ==
    /\ phase[s] = "reaped"
    /\ dirs' = dirs \cup {s}
    /\ phase' = [phase EXCEPT ![s] = "mkdired"]
    /\ UNCHANGED <<known, box, sendVars, sweepVars, lapsed, fate>>

\* Mutant: the session id is registered instead of its nick.
ClaimAsSession(s) ==
    /\ phase[s] = "mkdired"
    /\ phase' = [phase EXCEPT ![s] = "starting"]
    /\ known' = known \cup {s}
    /\ sweep' = [sweep EXCEPT ![s] = DonorFiles(s)]
    /\ UNCHANGED <<dirs, box, sendVars, tagging, lapsed, fate>>

\* Lock presence, register the nick, and list what there is to adopt.
ClaimId(s) ==
    /\ phase[s] = "mkdired"
    /\ phase' = [phase EXCEPT ![s] = "starting"]
    /\ known' = known \cup {NickOf[s]}
    /\ sweep' = [sweep EXCEPT ![s] = DonorFiles(s)]
    /\ UNCHANGED <<dirs, box, sendVars, tagging, lapsed, fate>>

\* The first adoption pass is over: start the threads and serve tools.
Serve(s) ==
    /\ phase[s] = "starting"
    /\ sweep[s] = {} /\ tagging[s] = {}
    /\ phase' = [phase EXCEPT ![s] = "serving"]
    /\ UNCHANGED <<dirs, known, box, sendVars, sweepVars, lapsed, fate>>

\* A session exits or dies at any point: its lock, its threads and the tool
\* call it was in go with it.
Exit(s) ==
    /\ phase[s] \notin {"off", "gone"}
    /\ phase' = [phase EXCEPT ![s] = "gone"]
    /\ sweep' = [sweep EXCEPT ![s] = {}]
    /\ tagging' = [tagging EXCEPT ![s] = {}]
    /\ LET cut == {m \in Msgs : stage[m] = "sending" /\ sender[m] = s}
       IN  /\ stage' = [m \in Msgs |-> IF m \in cut THEN "failed" ELSE stage[m]]
           /\ todo' = [m \in Msgs |-> IF m \in cut THEN {} ELSE todo[m]]
           /\ made' = [m \in Msgs |-> IF m \in cut THEN {} ELSE made[m]]
    /\ UNCHANGED <<dirs, known, box, sender, lapsed, fate>>

-----------------------------------------------------------------------------
(* Reading: _cleanup_expired, _read_inbox and _mark_read on the caller's   *)
(* own inbox.  Only the caller's main thread and its sweeper touch files   *)
(* that are already there, and the sweeper only by renaming one in or      *)
(* rewriting it whole, so each pass over the inbox is one step.            *)

\* What _cleanup_expired makes of file c, found in state f; `drop` are the
\* tombstones past TOMBSTONE_TTL.
CleanupExpired(f, c, drop) ==
    IF f = "expired" THEN IF c \in drop THEN "none" ELSE f
    ELSE IF c[1] \notin lapsed THEN f
    ELSE IF f = "pending" THEN "expired" ELSE "none"

MarkRead(f, c, selected) == IF f = "pending" /\ c[1] \in selected THEN "read" ELSE f

\* A pass over s's inbox after the files `acked` were unlinked from it.
ReadPass(s, acked, drop, selected) ==
    LET found(c) == IF c \in acked THEN "none" ELSE box[s][c]
        kept(c)  == CleanupExpired(found(c), c, drop)
    IN  /\ box' = [box EXCEPT ![s] = [c \in Copies |-> MarkRead(kept(c), c, selected)]]
        /\ fate' = [c \in Copies |->
                      IF c \in acked THEN "acked"
                      ELSE IF found(c) # "none" /\ kept(c) = "none" THEN "lapsed"
                      ELSE fate[c]]

\* peek(), possibly narrowed to a thread or to ids; with every message
\* selected it is also the _with_pending tail of a tool that changes nothing.
Peek(s, selected, drop) ==
    /\ Idle(s)
    /\ ReadPass(s, {}, drop, selected)
    /\ UNCHANGED <<phase, dirs, known, sendVars, sweepVars, lapsed>>

\* ack(ids): unlink the first file found with each id, then _with_pending.
\* Files with the same id go together only if it is listed once for each.
Ack(s, acked, drop) ==
    /\ Idle(s)
    /\ acked # {} /\ acked \subseteq Files(s)
    /\ ReadPass(s, acked, drop, Msgs)
    /\ UNCHANGED <<phase, dirs, known, sendVars, sweepVars, lapsed>>

\* A TTL runs out.  must_read never expires.
Lapse(m) ==
    /\ stage[m] # "new" /\ m \notin MustRead /\ m \notin lapsed
    /\ lapsed' = lapsed \cup {m}
    /\ UNCHANGED <<phase, dirs, known, box, sendVars, sweepVars, fate>>

-----------------------------------------------------------------------------
(* Sending: dispatch_fs.send_message, for a session's dispatch() call or   *)
(* for bin/dispatch-send.                                                  *)

SendResolve(m, by, target) ==
    /\ stage[m] = "new"
    /\ by \in Sessions => Idle(by)
    /\ stage' = [stage EXCEPT ![m] = "sending"]
    /\ sender' = [sender EXCEPT ![m] = by]
    /\ todo' = [todo EXCEPT ![m] = Recipients(by, target)]
    /\ UNCHANGED <<phase, dirs, known, box, made, sweepVars, lapsed, fate>>

\* _deliver_one: make the directory ...
DeliverMkdir(m, t) ==
    /\ t \in todo[m] /\ made[m] = {}
    /\ dirs' = dirs \cup {t}
    /\ made' = [made EXCEPT ![m] = {t}]
    /\ UNCHANGED <<phase, known, box, stage, sender, todo, sweepVars, lapsed, fate>>

\* ... and write the file in it.
DeliverWrite(m, t) ==
    /\ t \in made[m] /\ t \in dirs
    /\ box' = [box EXCEPT ![t][<<m, t>>] = "pending"]
    /\ fate' = [fate EXCEPT ![<<m, t>>] = "held"]
    /\ todo' = [todo EXCEPT ![m] = @ \ {t}]
    /\ made' = [made EXCEPT ![m] = {}]
    /\ UNCHANGED <<phase, dirs, known, stage, sender, sweepVars, lapsed>>

\* The directory was reaped in between: the exception ends the fan-out.
DeliverFail(m, t) ==
    /\ t \in made[m] /\ t \notin dirs
    /\ stage' = [stage EXCEPT ![m] = "failed"]
    /\ todo' = [todo EXCEPT ![m] = {}]
    /\ made' = [made EXCEPT ![m] = {}]
    /\ UNCHANGED <<phase, dirs, known, box, sender, sweepVars, lapsed, fate>>

\* Every copy is written; a session's dispatch() ends with _with_pending.
SendDone(m, drop) ==
    /\ stage[m] = "sending" /\ todo[m] = {}
    /\ stage' = [stage EXCEPT ![m] = "sent"]
    /\ IF sender[m] \in Sessions
       THEN ReadPass(sender[m], {}, drop, Msgs)
       ELSE UNCHANGED <<box, fate>>
    /\ UNCHANGED <<phase, dirs, known, sender, todo, made, sweepVars, lapsed>>

\* bin/dispatch-send is killed.
CliDies(m) ==
    /\ stage[m] = "sending" /\ sender[m] = Cli
    /\ stage' = [stage EXCEPT ![m] = "failed"]
    /\ todo' = [todo EXCEPT ![m] = {}]
    /\ made' = [made EXCEPT ![m] = {}]
    /\ UNCHANGED <<phase, dirs, known, box, sender, sweepVars, lapsed, fate>>

-----------------------------------------------------------------------------
(* Adoption: _inherit_orphan_inbox, at start-up on the main thread and     *)
(* then every SWEEP_SECONDS on the sweeper thread.                         *)

BeginSweep(s) ==
    /\ phase[s] = "serving"
    /\ sweep[s] = {} /\ tagging[s] = {}
    /\ sweep' = [sweep EXCEPT ![s] = DonorFiles(s)]
    /\ UNCHANGED <<phase, dirs, known, box, sendVars, tagging, lapsed, fate>>

\* Mutant: the file is copied, not renamed.
AdoptCopy(s, d, c) ==
    /\ <<d, c>> \in sweep[s] /\ tagging[s] = {}
    /\ box[d][c] # "none" /\ s \in dirs
    /\ box' = [box EXCEPT ![s][c] = box[d][c]]
    /\ tagging' = [tagging EXCEPT ![s] = {c}]
    /\ sweep' = [sweep EXCEPT ![s] = @ \ {<<d, c>>}]
    /\ UNCHANGED <<phase, dirs, known, sendVars, lapsed, fate>>

\* os.replace(f, mine/f): it takes the file and the directory to exist.
AdoptRename(s, d, c) ==
    /\ <<d, c>> \in sweep[s] /\ tagging[s] = {}
    /\ box[d][c] # "none" /\ s \in dirs
    /\ box' = [box EXCEPT ![d][c] = "none", ![s][c] = box[d][c]]
    /\ tagging' = [tagging EXCEPT ![s] = {c}]
    /\ sweep' = [sweep EXCEPT ![s] = @ \ {<<d, c>>}]
    /\ UNCHANGED <<phase, dirs, known, sendVars, lapsed, fate>>

\* The rename failed: another heir took the file, or this session's own inbox
\* directory is gone.  The pass goes on with the next file.
AdoptMiss(s, d, c) ==
    /\ <<d, c>> \in sweep[s] /\ tagging[s] = {}
    /\ box[d][c] = "none" \/ s \notin dirs
    /\ sweep' = [sweep EXCEPT ![s] = @ \ {<<d, c>>}]
    /\ UNCHANGED <<phase, dirs, known, box, sendVars, tagging, lapsed, fate>>

\* _atomic_write(dest, msg): write back what was read before the rename, with
\* the provenance tag.  It is an error if the directory is gone, and that ends
\* the pass.
AdoptTag(s, c) ==
    /\ c \in tagging[s]
    /\ tagging' = [tagging EXCEPT ![s] = {}]
    /\ IF s \in dirs
       THEN /\ box' = [box EXCEPT ![s][c] = "pending"]
            /\ UNCHANGED sweep
       ELSE /\ sweep' = [sweep EXCEPT ![s] = {}]
            /\ UNCHANGED box
    /\ UNCHANGED <<phase, dirs, known, sendVars, lapsed, fate>>

-----------------------------------------------------------------------------
Startup(s) == Reap(s) \/ MakeInbox(s) \/ ClaimId(s) \/ Serve(s)
Adopt(s, d, c) == AdoptRename(s, d, c) \/ AdoptMiss(s, d, c)
Tombstones == {c \in Copies : \E d \in Inboxes : box[d][c] = "expired"}

Next ==
    \/ \E s \in Sessions :
         \/ Startup(s)
         \/ Exit(s)
         \/ BeginSweep(s)
         \/ \E d \in Inboxes, c \in Copies : Adopt(s, d, c)
         \/ \E c \in Copies : AdoptTag(s, c)
         \/ \E drop \in SUBSET Tombstones :
              \/ \E selected \in SUBSET Msgs : Peek(s, selected, drop)
              \/ \E acked \in SUBSET Files(s) : Ack(s, acked, drop)
    \/ \E m \in Msgs :
         \/ Lapse(m)
         \/ \E by \in Sessions \cup {Cli}, target \in Inboxes \cup {Everyone} :
              SendResolve(m, by, target)
         \/ \E t \in Inboxes : DeliverMkdir(m, t) \/ DeliverWrite(m, t) \/ DeliverFail(m, t)
         \/ \E drop \in SUBSET Tombstones : SendDone(m, drop)
         \/ CliDies(m)

Spec == Init /\ [][Next]_vars

\* The sweeper is a loop around a sleep and every file operation returns, so a
\* pass that can go on does, for as long as its session lives.  Nothing obliges
\* a session to be started, to exit, or to call a tool.
SweepFairness(s) ==
    /\ WF_vars(Serve(s))
    /\ WF_vars(BeginSweep(s))
    /\ WF_vars(\E d \in Inboxes, c \in Copies : Adopt(s, d, c))
    /\ WF_vars(\E c \in Copies : AdoptTag(s, c))

FairSpec == Spec /\ \A s \in Sessions : SweepFairness(s)

-----------------------------------------------------------------------------
(* Safety.                                                                 *)

\* A file name exists in at most one inbox: adoption moves a message, and two
\* heirs racing for the same corpse never both end up with it (the claim is the
\* rename, not the read: server._inherit_orphan_inbox).
AdoptedOnce ==
    \A c \in Copies : \A d, e \in Inboxes :
        box[d][c] # "none" /\ box[e][c] # "none" => d = e

\* Mail is never lost: once written, a copy is on disk until its reader acks it
\* or it has expired.  No crash, reap, failed send or race between heirs drops
\* one.
NothingLost ==
    \A c \in Copies : fate[c] = "held" => \E d \in Inboxes : box[d][c] # "none"

\* The inbox e may hold copy c.
Belongs(e, c) ==
    \/ e = c[2]
    \/ Nick(e) = Nick(c[2]) /\ c[2] \notin Remote /\ e \notin Remote

\* Mail only ever sits where it was addressed or with another session of the
\* same nick, and mail for a session of another host stays in its pickup inbox:
\* unrelated agents never inherit from each other.
MailStaysWithNick ==
    \A d \in Inboxes, c \in Copies :
        box[d][c] # "none" => Belongs(d, c)

\* A live session is not a corpse: unread mail leaves its inbox only by its own
\* ack, whatever the adoption passes of its siblings are doing.
LiveMailStays ==
    [][\A s \in Sessions, c \in Copies :
          s \in Live /\ s \in Live' /\ box[s][c] = "pending" /\ box'[s][c] = "none"
             => fate'[c] = "acked"]_vars

\* Only unread mail changes hands: a message its reader has seen, or one that
\* expired unread, stays in the inbox of the dead session, so no heir is handed
\* work its predecessor had already taken on.
OnlyUnreadInherited ==
    [][\A d, e \in Inboxes, c \in Copies :
          d # e /\ box[d][c] \in {"read", "expired"} => box'[e][c] = "none"]_vars

-----------------------------------------------------------------------------
(* The inductive invariant behind the safety properties.                   *)

\* Inboxes that can have been written: a session's only once it has claimed.
Claimed(d) == d \in Sessions \ Remote => phase[d] \in {"starting", "serving", "gone"}

RemoteNeverRuns == \A s \in Remote : phase[s] = "off"

\* Nothing exists of a copy before it is written.
UnwrittenNowhere ==
    \A c \in Copies : fate[c] = "unwritten" =>
        /\ \A d \in Inboxes : box[d][c] = "none"
        /\ \A s \in Sessions : c \notin tagging[s]

SendsInOrder ==
    \A m \in Msgs, t \in Inboxes :
        /\ stage[m] = "new" => fate[<<m, t>>] = "unwritten" /\ t \notin todo[m]
        /\ t \in todo[m] => fate[<<m, t>>] = "unwritten" /\ Claimed(t)
        /\ t \in made[m] => t \in todo[m]

SenderServes ==
    \A m \in Msgs :
        stage[m] = "sending" /\ sender[m] \in Sessions => phase[sender[m]] = "serving"

FilesClaimed == \A d \in Inboxes, c \in Copies : box[d][c] # "none" => Claimed(d)

\* What a running pass has still to try is in inboxes that are dead for good,
\* and still unread if it is there at all.
SweepDead ==
    \A s \in Sessions, d \in Inboxes, c \in Copies : <<d, c>> \in sweep[s] =>
        /\ s \in Live
        /\ d \in Nicks \/ phase[d] = "gone"
        /\ Nick(d) = NickOf[s] /\ d \notin Remote
        /\ box[d][c] \in {"none", "pending"}

\* Between the rename and the rewrite the file is the adopter's alone.
TaggingExclusive ==
    \A s \in Sessions, c \in Copies : c \in tagging[s] =>
        /\ s \in Live
        /\ Belongs(s, c)
        /\ \A d \in Inboxes : d # s => box[d][c] = "none"
        /\ \A r \in Sessions : c \in tagging[r] => r = s

LapsedNotMustRead == lapsed \cap MustRead = {}

\* No cleanup pass removes or buries a must_read message.
MustReadSurvives ==
    \A d \in Inboxes, c \in Copies :
        c[1] \in MustRead => fate[c] # "lapsed" /\ box[d][c] # "expired"

RelayInv ==
    /\ TypeOK
    /\ RemoteNeverRuns
    /\ UnwrittenNowhere
    /\ SendsInOrder
    /\ SenderServes
    /\ FilesClaimed
    /\ SweepDead
    /\ TaggingExclusive
    /\ LapsedNotMustRead
    /\ AdoptedOnce
    /\ NothingLost
    /\ MailStaysWithNick
    /\ MustReadSurvives

-----------------------------------------------------------------------------
(* The relay implements Mailbox.                                           *)

Whereabouts(b) == [c \in Copies |-> {d \in Inboxes : b[d][c] # "none"}]

\* What has become of the copies, by their files and, where there is none, by
\* what is known of how it went.
Lives(b, f) ==
    [c \in Copies |->
        IF \E d \in Inboxes : b[d][c] = "pending" THEN "unread"
        ELSE IF \E d \in Inboxes : b[d][c] = "read" THEN "seen"
        ELSE IF \E d \in Inboxes : b[d][c] = "expired" THEN "buried"
        ELSE IF f[c] = "unwritten" THEN "unsent"
        ELSE IF f[c] = "lapsed" THEN "expired"
        ELSE IF f[c] = "acked" THEN "acked"
        ELSE "lost"]

Bequests == {p \in Inboxes \X Sessions : Nick(p[1]) = NickOf[p[2]] /\ p[1] \notin Remote}

Mail == INSTANCE Mailbox WITH
    Readers <- Sessions,
    Home <- [c \in Copies |-> c[2]],
    Heirs <- Bequests,
    Keep <- {c \in Copies : c[1] \in MustRead},
    live <- Live,
    where <- Whereabouts(box),
    life <- Lives(box, fate),
    moving <- tagging

\* Whatever crashes, races, reaps and failures do, a message lives the life that
\* Mailbox describes: it is in one place, seen by its reader or by one heir of
\* its nick, buried before it expires, and never lost.
ImplementsMailbox == Mail!Spec

-----------------------------------------------------------------------------
(* Liveness: orphaned mail and its heirs.                                  *)

\* c waits unread in an inbox no process reads, and s could adopt it.
Orphan(c, s) ==
    /\ phase[s] = "serving"
    /\ \E d \in Inboxes \ (Live \cup Remote) : Nick(d) = NickOf[s] /\ box[d][c] = "pending"

\* No message stays orphaned for ever while a session of its nick is serving
\* and still has its inbox directory (server._start_sweeper).
OrphansAdopted ==
    \A c \in Copies : []<>~(\E s \in Sessions : s \in dirs /\ Orphan(c, s))

=============================================================================
