------------------------------- MODULE Watch -------------------------------
(***************************************************************************)
(* How a parked session hears of its mail: bin/dispatch-wait, the watch a  *)
(* model starts as a background task; hooks/dispatch-arm.py, which keeps a *)
(* model from parking without one; and the reminder server._arm_nudge puts *)
(* on tool results.                                                        *)
(*                                                                         *)
(* One agent id and the sessions that have it one after the other, as with *)
(* a roster id.  The harness is external: it runs the hooks when a turn    *)
(* ends and wakes the model when one of its background tasks does.         *)
(***************************************************************************)
EXTENDS Naturals, FiniteSets

CONSTANTS
    Msgs,
    To,                        \* "me", "predecessor" (adopted), "channel" or "all"
    Urgent, MustRead, Native,  \* subsets of Msgs; Native came over that bridge
    NotifyOn, TrustWake,
    Watches,                   \* dispatch-wait processes
    Modes,                     \* how the model may start them
    NoOne,
    Prober,                    \* whoever holds the arm lock to see if it is free
    ExplicitId,                \* MCP_DISPATCH_AGENT_ID reaches the hook
    Capped,                    \* watches are started with --max-lifetime
    MaxBlocks,                 \* MAX_BLOCKS
    MaxFaults                  \* bound on session starts and killed watches

ASSUME ConstantsOK ==
    /\ To \in [Msgs -> {"me", "predecessor", "channel", "all"}]
    /\ NotifyOn \in {"none", "direct", "important", "all"}
    /\ Modes \subseteq {"oneshot", "follow"}
    /\ NoOne \notin Watches /\ Prober \notin Watches /\ Prober # NoOne
    /\ TrustWake \in BOOLEAN /\ ExplicitId \in BOOLEAN /\ Capped \in BOOLEAN
    /\ MaxBlocks \in Nat /\ MaxFaults \in Nat

VARIABLES
    inbox,      \* each message: not sent yet, unread, or read or expired
    subscribed, \* the channel is in the presence record
    life,       \* the session: its server has claimed its presence when "up"
    turn,       \* the model is working or parked
    told,       \* unread messages a watch has put before this session's model
    advised,    \* the model has been told to start a watch, and has not yet
    deaf,       \* why the last stop let it park without a watch of its own
    blocks,     \* armblock-<id>.txt
    wst, mode,  \* each watch: what it is doing, and how it was started
    rep,        \* the messages it takes for reported (`reported`, `emitted`)
    out,        \* the messages it is about to report
    orphan,     \* watches a session that has ended left behind
    lock,       \* the watch, or the probe, that holds wait-<id>.lock
    reported,   \* waitwoke-<id>.json
    output,     \* what ended or streaming tasks printed, not yet seen
    wake,       \* the harness is about to wake the model
    spent,      \* history: unread, reported to nobody, or to a session that has ended
    faults

session == <<life, turn, told, advised, deaf, blocks>>
watch == <<wst, mode, rep, out, orphan, lock>>
vars == <<inbox, subscribed, session, watch, reported, output, wake, spent, faults>>

TypeOK ==
    /\ inbox \in [Msgs -> {"absent", "pending", "done"}]
    /\ subscribed \in BOOLEAN
    /\ life \in {"down", "starting", "up"}
    /\ turn \in {"busy", "parked"}
    /\ told \subseteq Msgs
    /\ advised \in BOOLEAN
    /\ deaf \in {"no", "gaveUp", "unresolved", "orphaned", "misled"}
    /\ blocks \in 0..MaxBlocks
    /\ wst \in [Watches -> {"off", "starting", "refused", "waiting", "reporting"}]
    /\ mode \in [Watches -> {"oneshot", "follow"}]
    /\ rep \in [Watches -> SUBSET Msgs]
    /\ out \in [Watches -> SUBSET Msgs]
    /\ orphan \subseteq Watches
    /\ lock \in Watches \cup {NoOne, Prober}
    /\ reported \subseteq Msgs
    /\ output \subseteq Msgs
    /\ wake \in BOOLEAN
    /\ spent \subseteq Msgs
    /\ faults \in 0..MaxFaults

Init ==
    /\ inbox = [m \in Msgs |-> "absent"]
    /\ subscribed = FALSE
    /\ life = "down" /\ turn = "busy"
    /\ told = {} /\ advised = FALSE /\ deaf = "no" /\ blocks = 0
    /\ wst = [w \in Watches |-> "off"]
    /\ mode = [w \in Watches |-> "oneshot"]
    /\ rep = [w \in Watches |-> {}]
    /\ out = [w \in Watches |-> {}]
    /\ orphan = {} /\ lock = NoOne
    /\ reported = {}
    /\ output = {} /\ wake = FALSE
    /\ spent = {} /\ faults = 0

-----------------------------------------------------------------------------
(* What the code reads.                                                    *)

\* notify_policy.should_notify: must_read pierces every policy but "none",
\* unless it came over a native bridge nobody vouches for.
ShouldNotify(m) ==
    /\ NotifyOn # "none"
    /\ \/ NotifyOn = "all"
       \/ m \in MustRead /\ (m \in Native => TrustWake)
       \/ NotifyOn = "direct" /\ (To[m] = "me" \/ (To[m] = "channel" /\ subscribed))
       \/ NotifyOn = "important" /\ m \in Urgent

Pending == {m \in Msgs : inbox[m] = "pending"}

\* _qualifying: unread mail the policy notifies on.
Hits == {m \in Pending : ShouldNotify(m)}

\* armed: the answer of flock_held, which takes the lock to see whether anyone has
\* it, and so cannot tell a watch from another probe of the moment.
Armed == lock # NoOne

\* _arm_nudge: a reminder if no watch is armed, muted for a while after a wake
\* (handling) and after the last one (arm_nudge_due).
Nudge == {advised, advised \/ ~Armed}

\* resolve_agent_id, in a hook of a session that is up: without an id in its
\* environment the hook may find other sessions of the directory no farther
\* away in the process tree (pick_by_ancestry), and then it does not guess.
MayDecline == ~ExplicitId

Running(w) == wst[w] # "off"
Own(w) == Running(w) /\ w \notin orphan

\* Watch w ends; the harness wakes the model if the task is this session's.
Ended(w) ==
    /\ wst' = [wst EXCEPT ![w] = "off"]
    /\ lock' = IF lock = w THEN NoOne ELSE lock
    /\ rep' = [rep EXCEPT ![w] = {}]
    /\ out' = [out EXCEPT ![w] = {}]
    /\ orphan' = orphan \ {w}
    /\ mode' = [mode EXCEPT ![w] = "oneshot"]

-----------------------------------------------------------------------------
(* A session.                                                              *)

Begin ==
    /\ life = "down" /\ faults < MaxFaults
    /\ faults' = faults + 1
    /\ life' = "starting" /\ turn' = "busy"
    /\ told' = {} /\ advised' = FALSE /\ deaf' = "no"
    /\ UNCHANGED <<inbox, subscribed, blocks, watch, reported, output, wake, spent>>

\* The server claims its presence.  The SessionStart hook tells the model to
\* arm, if it still looks when the claim is there.
Claim ==
    /\ life = "starting"
    /\ life' = "up"
    /\ advised' \in {FALSE, ~Armed}
    /\ blocks' \in {blocks, IF Armed THEN 0 ELSE blocks}
    /\ UNCHANGED <<inbox, subscribed, turn, told, deaf, watch, reported, output, wake,
                   spent, faults>>

\* The session is gone.  What it was told of, a successor is not told again.
End ==
    /\ life = "up"
    /\ life' = "down"
    /\ wake' = FALSE /\ output' = {}
    /\ spent' = spent \cup told \cup reported \cup output
    /\ orphan' = {w \in Watches : Running(w)}
    /\ UNCHANGED <<inbox, subscribed, turn, told, advised, deaf, blocks, wst, mode, rep,
                   out, lock, reported, faults>>

\* A turn ends and the Stop hook runs.  It cannot tell which session it is in:
StopUnresolved ==
    /\ life = "up" /\ turn = "busy" /\ MayDecline
    /\ turn' = "parked" /\ deaf' = "unresolved"
    /\ UNCHANGED <<inbox, subscribed, life, told, advised, blocks, watch, reported, output,
                   wake, spent, faults>>

\* somebody holds the lock, a watch of this session or another or a probe:
StopArmed ==
    /\ life = "up" /\ turn = "busy" /\ Armed
    /\ turn' = "parked" /\ blocks' = 0
    /\ deaf' = CASE lock \in orphan -> "orphaned"
                 [] lock = Prober -> "misled"
                 [] OTHER -> "no"
    /\ UNCHANGED <<inbox, subscribed, life, told, advised, watch, reported, output, wake,
                   spent, faults>>

\* nobody does, and the model is sent back to start a watch:
StopBlocked ==
    /\ life = "up" /\ turn = "busy" /\ ~Armed
    /\ blocks < MaxBlocks
    /\ blocks' = blocks + 1
    /\ advised' = TRUE
    /\ UNCHANGED <<inbox, subscribed, life, turn, told, deaf, watch, reported, output, wake,
                   spent, faults>>

\* nobody does, and it was sent back too often.
StopGivesUp ==
    /\ life = "up" /\ turn = "busy" /\ ~Armed
    /\ blocks >= MaxBlocks
    /\ turn' = "parked" /\ deaf' = "gaveUp"
    /\ UNCHANGED <<inbox, subscribed, life, told, advised, blocks, watch, reported, output,
                   wake, spent, faults>>

Stop == StopUnresolved \/ StopArmed \/ StopBlocked \/ StopGivesUp

\* The harness delivers what ended tasks printed.  A report and a deadline say to
\* re-arm; a watch that stood down does not.
Wake ==
    /\ life = "up" /\ wake
    /\ turn' = "busy" /\ deaf' = "no"
    /\ told' = told \cup output
    /\ output' = {} /\ wake' = FALSE
    /\ advised' \in {advised, TRUE}
    /\ UNCHANGED <<inbox, subscribed, life, blocks, watch, reported, spent, faults>>

\* The operator types.
UserTurn ==
    /\ life = "up" /\ turn = "parked"
    /\ turn' = "busy" /\ deaf' = "no"
    /\ UNCHANGED <<inbox, subscribed, life, told, advised, blocks, watch, reported, output,
                   wake, spent, faults>>

\* A tool call: _arm_nudge reminds, and what the answer carries is marked read:
\* all that waits (_with_pending), the messages or the thread peek() was asked
\* for, or none (who, digest).
ToolCall ==
    /\ life = "up" /\ turn = "busy"
    /\ \E shown \in SUBSET Pending :
         /\ inbox' = [m \in Msgs |-> IF m \in shown THEN "done" ELSE inbox[m]]
         /\ told' = told \ shown /\ spent' = spent \ shown
    /\ advised' \in Nudge
    /\ UNCHANGED <<subscribed, life, turn, deaf, blocks, watch, reported, output, wake, faults>>

\* subscribe() or unsubscribe().
Subscribe ==
    /\ life = "up" /\ turn = "busy"
    /\ subscribed' = ~subscribed
    /\ UNCHANGED <<inbox, session, watch, reported, output, wake, spent, faults>>

-----------------------------------------------------------------------------
(* A watch.                                                                *)

\* The model does as it was told.
Arm(w, how) ==
    /\ life = "up" /\ turn = "busy" /\ advised
    /\ wst[w] = "off" /\ how \in Modes
    /\ wst' = [wst EXCEPT ![w] = "starting"]
    /\ mode' = [mode EXCEPT ![w] = how]
    /\ advised' = FALSE
    /\ UNCHANGED <<inbox, subscribed, life, turn, told, deaf, blocks, rep, out, orphan,
                   lock, reported, output, wake, spent, faults>>

\* Mutant: what waits when the watch starts is taken for old.
LoadReportedAll(w) == IF mode[w] = "follow" THEN {} ELSE Pending \cup reported

\* What a watch that starts takes for reported.
LoadReported(w) == IF mode[w] = "follow" THEN {} ELSE reported

\* It has the lock and reads the record.
TakeArmLock(w) ==
    /\ wst[w] = "starting" /\ lock = NoOne
    /\ lock' = w
    /\ wst' = [wst EXCEPT ![w] = "waiting"]
    /\ rep' = [rep EXCEPT ![w] = LoadReported(w)]
    /\ UNCHANGED <<inbox, subscribed, session, mode, out, orphan, reported, output, wake, spent, faults>>

Refused(w) ==
    /\ wst[w] = "starting" /\ lock # NoOne
    /\ wst' = [wst EXCEPT ![w] = "refused"]
    /\ UNCHANGED <<inbox, subscribed, session, mode, rep, out, orphan, lock, reported, output, wake,
                   spent, faults>>

\* The lock is still held, which is taken for another watch at work.
StandDown(w) ==
    /\ wst[w] = "refused" /\ lock # NoOne
    /\ Ended(w)
    /\ wake' = (wake \/ w \notin orphan)
    /\ UNCHANGED <<inbox, subscribed, session, reported, output, spent, faults>>

\* It is free by now, which is taken for a lock that cannot be had: run anyway.
RunUnlocked(w) ==
    /\ wst[w] = "refused" /\ lock = NoOne
    /\ wst' = [wst EXCEPT ![w] = "waiting"]
    /\ rep' = [rep EXCEPT ![w] = LoadReported(w)]
    /\ UNCHANGED <<inbox, subscribed, session, mode, out, orphan, lock, reported, output, wake,
                   spent, faults>>

\* Mutant: the record holds what waits, not what was reported.
FindNewAll(w) ==
    /\ wst[w] = "waiting" /\ mode[w] = "oneshot"
    /\ Hits \ rep[w] # {}
    /\ reported' = Pending
    /\ wst' = [wst EXCEPT ![w] = "reporting"]
    /\ out' = [out EXCEPT ![w] = Hits \ rep[w]]
    /\ UNCHANGED <<inbox, subscribed, session, mode, rep, orphan, lock, output, wake,
                   spent, faults>>

\* A poll of a one-shot watch finds mail it has not reported: it records it ...
FindNew(w) ==
    /\ wst[w] = "waiting" /\ mode[w] = "oneshot"
    /\ Hits \ rep[w] # {}
    /\ reported' = Hits
    /\ wst' = [wst EXCEPT ![w] = "reporting"]
    /\ out' = [out EXCEPT ![w] = Hits \ rep[w]]
    /\ UNCHANGED <<inbox, subscribed, session, mode, rep, orphan, lock, output, wake,
                   spent, faults>>

\* Mutant: the watch ends before its output is there.
ReportQuiet(w) ==
    /\ wst[w] = "reporting"
    /\ Ended(w)
    /\ output' = output \cup out[w]
    /\ UNCHANGED <<inbox, subscribed, session, reported, wake, spent, faults>>

\* ... then prints it and ends.  Nobody sees what an orphan prints.
Report(w) ==
    /\ wst[w] = "reporting"
    /\ Ended(w)
    /\ IF w \in orphan
       THEN spent' = spent \cup out[w] /\ UNCHANGED <<output, wake>>
       ELSE output' = output \cup out[w] /\ wake' = TRUE /\ UNCHANGED spent
    /\ UNCHANGED <<inbox, subscribed, session, reported, faults>>

\* A poll of a streaming watch (_follow) prints what it has not printed.
Emit(w) ==
    /\ wst[w] = "waiting" /\ mode[w] = "follow"
    /\ Hits # rep[w]
    /\ rep' = [rep EXCEPT ![w] = Hits]
    /\ IF w \in orphan \/ Hits \subseteq rep[w]
       THEN UNCHANGED <<output, wake>>
       ELSE output' = output \cup (Hits \ rep[w]) /\ wake' = TRUE
    /\ UNCHANGED <<inbox, subscribed, session, wst, mode, out, orphan, lock, reported, spent,
                   faults>>

\* Nothing new, and the presence has dropped.
Orphaned(w) ==
    /\ wst[w] = "waiting" /\ Hits \subseteq rep[w]
    /\ life # "up"
    /\ Ended(w)
    /\ UNCHANGED <<inbox, subscribed, session, reported, output, wake, spent, faults>>

\* Nothing new, and the lifetime is over.
Deadline(w) ==
    /\ Capped
    /\ wst[w] = "waiting" /\ Hits \subseteq rep[w]
    /\ Ended(w)
    /\ wake' = (wake \/ (life = "up" /\ w \notin orphan))
    /\ UNCHANGED <<inbox, subscribed, session, reported, output, spent, faults>>

\* The watch dies; the harness notices that its task has ended.
Kill(w) ==
    /\ Running(w) /\ faults < MaxFaults
    /\ faults' = faults + 1
    /\ Ended(w)
    /\ wake' = (wake \/ (life = "up" /\ w \notin orphan))
    /\ spent' = spent \cup out[w]
    /\ UNCHANGED <<inbox, subscribed, session, reported, output>>

-----------------------------------------------------------------------------
(* The world around.                                                       *)

\* flock_held, by another session's who() or status, a hook, or the reminder of a
\* tool call: it has the lock for the moment between the flock and the unlock.
ProbeLock ==
    /\ lock = NoOne
    /\ lock' = Prober
    /\ UNCHANGED <<inbox, subscribed, session, wst, mode, rep, out, orphan, reported, output,
                   wake, spent, faults>>

ProbeUnlock ==
    /\ lock = Prober
    /\ lock' = NoOne
    /\ UNCHANGED <<inbox, subscribed, session, wst, mode, rep, out, orphan, reported, output,
                   wake, spent, faults>>

Arrive(m) ==
    /\ inbox[m] = "absent"
    /\ inbox' = [inbox EXCEPT ![m] = "pending"]
    /\ UNCHANGED <<subscribed, session, watch, reported, output, wake, spent, faults>>

\* Its TTL is over.
Expire(m) ==
    /\ inbox[m] = "pending" /\ m \notin MustRead
    /\ inbox' = [inbox EXCEPT ![m] = "done"]
    /\ told' = told \ {m} /\ spent' = spent \ {m}
    /\ UNCHANGED <<subscribed, life, turn, advised, deaf, blocks, watch, reported, output, wake, faults>>

-----------------------------------------------------------------------------
WatchStep(w) ==
    \/ TakeArmLock(w) \/ Refused(w) \/ StandDown(w) \/ RunUnlocked(w)
    \/ FindNew(w) \/ Report(w) \/ Emit(w) \/ Orphaned(w)

Next ==
    \/ Begin \/ Claim \/ End
    \/ Stop \/ Wake \/ UserTurn \/ ToolCall \/ Subscribe
    \/ \E w \in Watches : WatchStep(w) \/ Deadline(w) \/ Kill(w)
    \/ \E w \in Watches : \E how \in Modes : Arm(w, how)
    \/ \E m \in Msgs : Arrive(m) \/ Expire(m)
    \/ ProbeLock \/ ProbeUnlock

\* Turns end, running processes and the harness go on; nobody has to start a
\* watch, call a tool or type.
Fairness ==
    /\ WF_vars(Claim) /\ WF_vars(Stop) /\ WF_vars(Wake) /\ WF_vars(ProbeUnlock)
    /\ \A w \in Watches : WF_vars(WatchStep(w))

Spec == Init /\ [][Next]_vars /\ Fairness

-----------------------------------------------------------------------------
(* Properties.                                                             *)

\* A session that parks is not deaf: a watch of its own runs or the harness is
\* about to wake it, unless the Stop hook gave up, could not tell the session,
\* or took the watch of an earlier session of the id, or another probe of the
\* lock, for a watch of this one.
NeverParksDeaf ==
    life = "up" /\ turn = "parked" /\ deaf = "no" => wake \/ \E w \in Watches : Own(w)

\* What the record keeps the next watch from reporting has been put before the
\* model or is on its way to it: a record never silences a message unseen,
\* unless a watch died between record and report, or the session ended.
RecordIsTold ==
    life = "up" => \A m \in reported \cap Pending :
        \/ m \in told \cup output \cup spent
        \/ \E w \in Watches : m \in out[w]

\* A step that brings m to a session that is up: a wake, a watch about to report,
\* about to look, or about to find it.
UnderWay(m) ==
    \/ wake
    \/ \E w \in Watches :
         \/ wst[w] = "reporting" /\ (Own(w) \/ m \in out[w])
         \/ Own(w) /\ wst[w] \in {"starting", "refused"}
         \/ Own(w) /\ wst[w] = "waiting" /\ m \notin rep[w]

\* What Heard rests on: while the model is parked, and has not been let park
\* deaf (for one of the four causes NeverParksDeaf names), a step that can be
\* taken now brings it the mail it has not heard of.
\* No arrival finds all watches past the point where they would have seen it.
NeverStuckUnheard ==
    life = "up" /\ turn = "parked" /\ deaf = "no" =>
        \A m \in Hits \ (told \cup spent) : UnderWay(m)

\* Mail the policy notifies on is put before the model, parked or not, if it
\* stays unread, the policy keeps applying to it, the session goes on, and its
\* Stop hook does not let it park deaf: because it gave up, could not tell the
\* session, or was misled by an orphan or a probe.  A message whose report was
\* lost with a watch or an earlier session is not put before it again.
Heard ==
    \A m \in Msgs :
        (life = "up" /\ m \in Hits \ spent)
            ~> (m \in told \cup spent \/ m \notin Hits \/ life # "up" \/ deaf # "no")

-----------------------------------------------------------------------------
(* Why they hold.                                                          *)

\* A message of which the session in being has heard, is about to hear, or
\* never will.
Accounted(m) ==
    \/ m \in spent
    \/ life = "up" /\ m \in told \cup output
    \/ \E w \in Watches : m \in out[w]

\* The record, the copy of it a one-shot watch has, or what a streaming watch has
\* printed for the session in being, keeps m from being reported.
Silenced(m) ==
    \/ m \in reported
    \/ \E w \in Watches : (mode[w] = "oneshot" \/ w \notin orphan) /\ m \in rep[w]

\* Whoever has the lock is at work; a watch reports only what it has found, and
\* holds nothing back before it polls.
WatchesSane ==
    /\ lock \in Watches => wst[lock] \in {"waiting", "reporting"}
    /\ \A w \in Watches : wst[w] # "reporting" => out[w] = {}
    /\ \A w \in Watches : wst[w] \notin {"waiting", "reporting"} => rep[w] = {}

\* Before the server has claimed, the model has not stopped.
StartsBusy == life = "starting" => turn = "busy"

\* Nobody but a session that is up starts a watch; the rest are left behind.
StrayAreOrphans == life # "up" => \A w \in Watches : Running(w) => w \in orphan

\* What a session's watches have printed comes with a wake.
OutputWakes == output # {} => life = "up" /\ wake

\* Nothing is held back before it is there, nor unread mail nobody accounts for.
SilencedIsAccounted ==
    \A m \in Msgs : Silenced(m) => inbox[m] = "done" \/ (m \in Pending /\ Accounted(m))

WatchInv ==
    /\ TypeOK
    /\ WatchesSane
    /\ StartsBusy
    /\ StrayAreOrphans
    /\ OutputWakes
    /\ NeverParksDeaf
    /\ SilencedIsAccounted

=============================================================================
