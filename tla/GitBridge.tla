----------------------------- MODULE GitBridge -----------------------------
(***************************************************************************)
(* The bridge between the relays of several hosts over a git repository    *)
(* (git_bridge.py, git_transport.py, bin/dispatch-gitsync).                *)
(*                                                                         *)
(* The model follows the direct messages to one recipient.  The records a  *)
(* host publishes are one lane, to which only that host appends, so what a *)
(* clone has of a lane is a prefix of it and is given by its length.       *)
(* Failing commits and the .remote roster are not modelled.  A file is its *)
(* message, its kind and the record it was written from.                   *)
(***************************************************************************)
EXTENDS Naturals, Sequences, FiniteSets

CONSTANTS
    Hosts,
    Daemons,   \* dispatch-gitsync processes, each started at most once
    HostOf,    \* where each of them runs
    Single,    \* those that may be started with --once
    MaxStarts, \* a bound: processes started in a behaviour
    Msgs,
    Origin     \* the host each message is sent on

ASSUME BridgeOK ==
    /\ HostOf \in [Daemons -> Hosts]
    /\ Origin \in [Msgs -> Hosts]
    /\ Single \subseteq Daemons
    /\ MaxStarts \in Nat

VARIABLES
    (* the relay of each host *)
    sent,        \* messages that have been sent
    inbox,       \* files in the recipient's inbox
    other,       \* files that other sessions have adopted
    (* git: lanes, and how much of each is where *)
    lane,        \* the records of each host, in its own clone
    pushed,      \* how many of them the shared repository has
    seen,        \* how many of another host's records each clone has
    (* the state directory of each host *)
    latched,     \* hosts with a ledger file
    ledgerFile,  \* ids it lists
    cursorFile,  \* lines consumed of each lane
    (* the memory of each daemon *)
    pc,
    once,        \* processes started with --once
    ledger, cursor,
    todo,        \* messages its scan has still to look at
    published,   \* daemons that have published in this pass
    batch,       \* records drained and not yet delivered
    present,     \* ids it has found in the inbox
    (* history *)
    late,        \* messages sent after the bridge of their host was enabled
    withheld,    \* messages not published because the recipient was live here
    handled,     \* records each host has delivered or recognised
    dropped,     \* records a daemon had in hand when it died or a write failed
    together,    \* hosts where two passes delivered at the same time
    rewound      \* hosts where a pass read on from another place than the one saved

relay == <<sent, inbox, other>>
git == <<lane, pushed, seen>>
state == <<latched, ledgerFile, cursorFile>>
memory == <<ledger, cursor, todo, published, batch, present>>
history == <<late, withheld, handled, dropped, together, rewound>>
vars == <<relay, git, state, pc, once, memory, history>>

Kinds == {"local", "git", "tombstone"}
Records == Hosts \X Nat
Files == Msgs \X Kinds \X Records
InPass == {"scan", "push", "fetch", "look", "deliver"}
Serving == {"idle"} \cup InPass

TypeOK ==
    /\ sent \subseteq Msgs /\ late \subseteq Msgs /\ withheld \subseteq Msgs
    /\ inbox \in [Hosts -> SUBSET Files]
    /\ other \in [Hosts -> SUBSET Files]
    /\ lane \in [Hosts -> Seq(Msgs)]
    /\ pushed \in [Hosts -> Nat]
    /\ seen \in [Hosts -> [Hosts -> Nat]]
    /\ latched \subseteq Hosts
    /\ ledgerFile \in [Hosts -> SUBSET Msgs]
    /\ cursorFile \in [Hosts -> [Hosts -> Nat]]
    /\ pc \in [Daemons -> {"unborn", "flush", "waiting", "done", "dead"} \cup Serving]
    /\ once \subseteq Daemons
    /\ ledger \in [Daemons -> SUBSET Msgs]
    /\ cursor \in [Daemons -> [Hosts -> Nat]]
    /\ todo \in [Daemons -> SUBSET Msgs]
    /\ published \subseteq Daemons
    /\ batch \in [Daemons -> SUBSET Records]
    /\ present \in [Daemons -> SUBSET Msgs]
    /\ handled \in [Hosts -> SUBSET Records]
    /\ dropped \in [Hosts -> SUBSET Records]
    /\ together \subseteq Hosts /\ rewound \subseteq Hosts

\* A Cursor that has consumed nothing.
NoLines == [g \in Hosts |-> 0]

Init ==
    /\ sent = {} /\ late = {} /\ withheld = {}
    /\ inbox = [h \in Hosts |-> {}]
    /\ other = [h \in Hosts |-> {}]
    /\ lane = [h \in Hosts |-> <<>>]
    /\ pushed = NoLines
    /\ seen = [h \in Hosts |-> NoLines]
    /\ latched = {}
    /\ ledgerFile = [h \in Hosts |-> {}]
    /\ cursorFile = [h \in Hosts |-> NoLines]
    /\ pc = [d \in Daemons |-> "unborn"]
    /\ once = {}
    /\ ledger = [d \in Daemons |-> {}]
    /\ cursor = [d \in Daemons |-> NoLines]
    /\ todo = [d \in Daemons |-> {}]
    /\ published = {}
    /\ batch = [d \in Daemons |-> {}]
    /\ present = [d \in Daemons |-> {}]
    /\ handled = [h \in Hosts |-> {}]
    /\ dropped = [h \in Hosts |-> {}]
    /\ together = {} /\ rewound = {}

Goto(d, s) == pc' = [pc EXCEPT ![d] = s]

-----------------------------------------------------------------------------
(* The relays.                                                             *)

\* _inbox_ids: whatever the file is.
InboxIds(h) == {f[1] : f \in inbox[h]}

\* Mutant: the _via tag is ignored.
LocalMessagesAny(h) == {f[1] : f \in {g \in inbox[h] \cup other[h] : g[2] # "tombstone"}}

\* _local_messages: all inboxes, but no file a bridge wrote and no tombstone.
LocalMessages(h) == {f[1] : f \in {g \in inbox[h] \cup other[h] : g[2] = "local"}}

Original(m) == <<m, "local", <<Origin[m], 0>>>>

\* send_message on the host of the sender.
Send(m) ==
    /\ m \notin sent
    /\ sent' = sent \cup {m}
    /\ inbox' = [inbox EXCEPT ![Origin[m]] = @ \cup {Original(m)}]
    /\ late' = IF \E d \in Daemons : HostOf[d] = Origin[m] /\ pc[d] # "unborn"
               THEN late \cup {m} ELSE late
    /\ UNCHANGED <<other, git, state, pc, once, memory,
                   withheld, handled, dropped, together, rewound>>

\* Another session adopts a file; the next one it adopts may be of the same message.
Adopt(h, f) ==
    /\ f \in inbox[h] /\ f[2] # "tombstone"
    /\ inbox' = [inbox EXCEPT ![h] = @ \ {f}]
    /\ other' = [other EXCEPT ![h] = @ \cup {f}]
    /\ UNCHANGED <<sent, git, state, pc, once, memory, history>>

\* The recipient lets a file lapse into a tombstone.
Lapse(h, f) ==
    /\ f \in inbox[h] /\ f[2] # "tombstone"
    /\ inbox' = [inbox EXCEPT ![h] = (@ \ {f}) \cup {<<f[1], "tombstone", f[3]>>}]
    /\ UNCHANGED <<sent, other, git, state, pc, once, memory, history>>

\* A file is acked, or a tombstone dropped; an adopted one lapses.
Remove(h, f) ==
    /\ f \in inbox[h] \cup other[h]
    /\ inbox' = [inbox EXCEPT ![h] = @ \ {f}]
    /\ other' = [other EXCEPT ![h] = @ \ {f}]
    /\ UNCHANGED <<sent, git, state, pc, once, memory, history>>

-----------------------------------------------------------------------------
(* git                                                                     *)

Unpushed(h) == pushed[h] < Len(lane[h])

\* GitBus.push: pull --rebase, then push, again if somebody was faster.
PushOk(h) ==
    /\ seen' = [seen EXCEPT ![h] = pushed]
    /\ pushed' = [pushed EXCEPT ![h] = Len(lane[h])]
    /\ UNCHANGED lane

\* No network, or six lost races; the pull may have worked.
PushFails(h) ==
    /\ seen' = seen \/ seen' = [seen EXCEPT ![h] = pushed]
    /\ UNCHANGED <<lane, pushed>>

\* Mutant: fetch without merge.
FetchOnly(h, up) ==
    /\ up \in BOOLEAN /\ h \in Hosts
    /\ UNCHANGED <<seen, lane, pushed>>

\* GitBus.fetch: fetch, then merge --ff-only, with errors ignored.  A clone with
\* commits of its own does not move.
Fetch(h, up) ==
    /\ seen' = IF up /\ ~Unpushed(h) THEN [seen EXCEPT ![h] = pushed] ELSE seen
    /\ UNCHANGED <<lane, pushed>>

-----------------------------------------------------------------------------
(* The daemon starts and ends.                                             *)

\* _seed_ledger_from_backlog: what lies in the inboxes when the bridge is enabled.
Backlog(h) == IF h \in latched THEN {} ELSE LocalMessages(h)

Born == {d \in Daemons : pc[d] # "unborn"}

\* Mutant: the ledger file is written only if something was seeded.
BootUnlatched(d) ==
    LET h == HostOf[d]
    IN  /\ pc[d] = "unborn" /\ Cardinality(Born) < MaxStarts
        /\ once' \in {once, once \cup ({d} \cap Single)}
        /\ ledger' = [ledger EXCEPT ![d] = ledgerFile[h] \cup Backlog(h)]
        /\ ledgerFile' = [ledgerFile EXCEPT ![h] = @ \cup Backlog(h)]
        /\ latched' = IF Backlog(h) # {} THEN latched \cup {h} ELSE latched
        /\ cursor' = [cursor EXCEPT ![d] = cursorFile[h]]
        /\ Goto(d, "flush")
        /\ UNCHANGED <<relay, git, cursorFile, todo, published, batch, present, history>>

\* GitBridge.__init__: load the ledger and the cursor, and list the backlog as
\* handled.  That the ledger file is there means the bridge has been enabled.  A
\* process may be started for a single pass, and while others serve the host.
Boot(d) ==
    LET h == HostOf[d]
    IN  /\ pc[d] = "unborn" /\ Cardinality(Born) < MaxStarts
        /\ once' \in {once, once \cup ({d} \cap Single)}
        /\ ledger' = [ledger EXCEPT ![d] = ledgerFile[h] \cup Backlog(h)]
        /\ ledgerFile' = [ledgerFile EXCEPT ![h] = @ \cup Backlog(h)]
        /\ latched' = latched \cup {h}
        /\ cursor' = [cursor EXCEPT ![d] = cursorFile[h]]
        /\ Goto(d, "flush")
        /\ UNCHANGED <<relay, git, cursorFile, todo, published, batch, present, history>>

\* flush_pending never raises.  A --once process does not ask for the host lock.
FlushPending(d) ==
    /\ pc[d] = "flush"
    /\ PushOk(HostOf[d]) \/ PushFails(HostOf[d])
    /\ Goto(d, IF d \in once THEN "idle" ELSE "waiting")
    /\ UNCHANGED <<relay, state, once, memory, history>>

\* Wait for the host lock, with the ledger and the cursor already loaded.
TakeLock(d) ==
    /\ pc[d] = "waiting"
    /\ \A c \in Daemons \ once : HostOf[c] = HostOf[d] => pc[c] \notin Serving
    /\ Goto(d, "idle")
    /\ UNCHANGED <<relay, git, state, once, memory, history>>

\* Where a pass leads when it is over: a --once process leaves.
EndPass(d) == Goto(d, IF d \in once THEN "done" ELSE "idle")

\* Killed at any point, or leaving because no agent is live or the lock is held.
Die(d) ==
    /\ pc[d] \notin {"unborn", "done", "dead"}
    /\ Goto(d, "dead")
    /\ ledger' = [ledger EXCEPT ![d] = {}]
    /\ cursor' = [cursor EXCEPT ![d] = NoLines]
    /\ todo' = [todo EXCEPT ![d] = {}]
    /\ published' = published \ {d}
    /\ batch' = [batch EXCEPT ![d] = {}]
    /\ present' = [present EXCEPT ![d] = {}]
    /\ dropped' = [dropped EXCEPT ![HostOf[d]] = @ \cup batch[d]]
    /\ UNCHANGED <<relay, git, state, once, late, withheld, handled, together, rewound>>

-----------------------------------------------------------------------------
(* One pass of tick: outbound.                                             *)

\* What the scan finds new; what arrives during it is left to the next.
Scan(d) ==
    /\ pc[d] = "idle"
    /\ todo' = [todo EXCEPT ![d] = LocalMessages(HostOf[d]) \ ledger[d]]
    /\ published' = published \ {d}
    /\ Goto(d, "scan")
    /\ UNCHANGED <<relay, git, state, once, ledger, cursor, batch, present, history>>

\* The scan comes to m.
Reach(d, m) ==
    /\ m \in todo[d]
    /\ todo' = [todo EXCEPT ![d] = @ \ {m}]
    /\ UNCHANGED <<relay, pushed, seen, state, pc, once, cursor, batch, present,
                   late, handled, dropped, together, rewound>>

\* It has gone in the meantime.
Missed(d, m) ==
    /\ Reach(d, m)
    /\ m \notin LocalMessages(HostOf[d])
    /\ UNCHANGED <<lane, ledger, published, withheld>>

\* _publish_one: append a record to the lane and commit.
Publish(d, m) ==
    /\ Reach(d, m)
    /\ m \in LocalMessages(HostOf[d])
    /\ lane' = [lane EXCEPT ![HostOf[d]] = Append(@, m)]
    /\ ledger' = [ledger EXCEPT ![d] = @ \cup {m}]
    /\ published' = published \cup {d}
    /\ UNCHANGED withheld

\* The recipient is live on this host: the local bus has delivered it.
Withhold(d, m) ==
    /\ Reach(d, m)
    /\ m \in LocalMessages(HostOf[d])
    /\ ledger' = [ledger EXCEPT ![d] = @ \cup {m}]
    /\ withheld' = withheld \cup {m}
    /\ UNCHANGED <<lane, published>>

\* save_ledger: one rename.
SaveLedger(d) == ledgerFile' = [ledgerFile EXCEPT ![HostOf[d]] = ledger[d]]

\* The ledger is saved, and a push follows, only if something was published.
Scanned(d) ==
    /\ pc[d] = "scan" /\ todo[d] = {}
    /\ IF d \in published
       THEN /\ SaveLedger(d)
            /\ Goto(d, "push")
       ELSE /\ Goto(d, "fetch")
            /\ UNCHANGED ledgerFile
    /\ UNCHANGED <<relay, git, latched, cursorFile, once, memory, history>>

Push(d) ==
    /\ pc[d] = "push"
    /\ PushOk(HostOf[d])
    /\ Goto(d, "fetch")
    /\ UNCHANGED <<relay, state, once, memory, history>>

\* The exception ends the pass; tick_guarded logs it.
PushRaises(d) ==
    /\ pc[d] = "push"
    /\ PushFails(HostOf[d])
    /\ EndPass(d)
    /\ UNCHANGED <<relay, state, once, memory, history>>

-----------------------------------------------------------------------------
(* One pass of tick: inbound.                                              *)

\* _fetch_due: a quiet bus is not fetched in every pass, unless it is the only one.
NotDue(d) ==
    /\ pc[d] = "fetch" /\ d \notin published \cup once
    /\ Goto(d, "idle")
    /\ UNCHANGED <<relay, git, state, once, memory, history>>

\* Lines of lane g in host h's clone after a fetch.
EndOf(h, g) == IF g = h THEN Len(lane[h]) ELSE seen'[h][g]

\* The pass reads on from a cursor that is no longer the one saved.
Rewind(d) == rewound' = IF cursor[d] = cursorFile[HostOf[d]] THEN rewound
                        ELSE rewound \cup {HostOf[d]}

\* Mutant: the cursor is not saved.
DrainUnsaved(d, up) ==
    LET h == HostOf[d]
    IN  /\ pc[d] = "fetch"
        /\ Fetch(h, up)
        /\ batch' = [batch EXCEPT ![d] =
                       UNION {{g} \X (cursor[d][g] + 1 .. EndOf(h, g)) : g \in Hosts}]
        /\ cursor' = [cursor EXCEPT ![d] = [g \in Hosts |-> EndOf(h, g)]]
        /\ Rewind(d)
        /\ Goto(d, "look")
        /\ UNCHANGED <<relay, state, once, ledger, todo, published, present,
                       late, withheld, handled, dropped, together>>

\* Mutant: the lanes are read before the fetch and the cursor is set after it.
DrainTooFar(d, up) ==
    LET h == HostOf[d]
        end(g) == IF g = h THEN Len(lane[h]) ELSE seen[h][g]
    IN  /\ pc[d] = "fetch"
        /\ Fetch(h, up)
        /\ batch' = [batch EXCEPT ![d] =
                       UNION {{g} \X (cursor[d][g] + 1 .. end(g)) : g \in Hosts}]
        /\ cursor' = [cursor EXCEPT ![d] = [g \in Hosts |-> EndOf(h, g)]]
        /\ cursorFile' = [cursorFile EXCEPT ![h] = cursor'[d]]
        /\ Rewind(d)
        /\ Goto(d, "look")
        /\ UNCHANGED <<relay, latched, ledgerFile, once, ledger, todo, published, present,
                       late, withheld, handled, dropped, together>>

\* GitBus.drain: fetch, read every lane past the cursor, and save the cursor.
Drain(d, up) ==
    LET h == HostOf[d]
    IN  /\ pc[d] = "fetch"
        /\ Fetch(h, up)
        /\ batch' = [batch EXCEPT ![d] =
                       UNION {{g} \X (cursor[d][g] + 1 .. EndOf(h, g)) : g \in Hosts}]
        /\ cursor' = [cursor EXCEPT ![d] = [g \in Hosts |-> EndOf(h, g)]]
        /\ cursorFile' = [cursorFile EXCEPT ![h] = cursor'[d]]
        /\ Rewind(d)
        /\ Goto(d, "look")
        /\ UNCHANGED <<relay, latched, ledgerFile, once, ledger, todo, published, present,
                       late, withheld, handled, dropped, together>>

\* _inbox_ids, once per pass.
Look(d) ==
    /\ pc[d] = "look"
    /\ present' = [present EXCEPT ![d] = InboxIds(HostOf[d])]
    /\ together' = IF \E c \in Daemons : HostOf[c] = HostOf[d] /\ pc[c] = "deliver"
                   THEN together \cup {HostOf[d]} ELSE together
    /\ Goto(d, "deliver")
    /\ UNCHANGED <<relay, git, state, once, ledger, cursor, todo, published, batch,
                   late, withheld, handled, dropped, rewound>>

\* Mutant: every record is written to the inbox.
DeliverAlways(d, r) ==
    LET h == HostOf[d]
        m == lane[r[1]][r[2]]
    IN  /\ pc[d] = "deliver" /\ r \in batch[d]
        /\ batch' = [batch EXCEPT ![d] = @ \ {r}]
        /\ handled' = [handled EXCEPT ![h] = @ \cup {r}]
        /\ present' = [present EXCEPT ![d] = @ \cup {m}]
        /\ inbox' = [inbox EXCEPT ![h] = @ \cup {<<m, "git", r>>}]
        /\ UNCHANGED <<sent, other, git, state, pc, once, ledger, cursor, todo, published,
                       late, withheld, dropped, together, rewound>>

\* _materialize, unless the message is there already.
Deliver(d, r) ==
    LET h == HostOf[d]
        m == lane[r[1]][r[2]]
    IN  /\ pc[d] = "deliver" /\ r \in batch[d]
        /\ batch' = [batch EXCEPT ![d] = @ \ {r}]
        /\ handled' = [handled EXCEPT ![h] = @ \cup {r}]
        /\ present' = [present EXCEPT ![d] = @ \cup {m}]
        /\ inbox' = IF m \in present[d] THEN inbox
                    ELSE [inbox EXCEPT ![h] = @ \cup {<<m, "git", r>>}]
        /\ UNCHANGED <<sent, other, git, state, pc, once, ledger, cursor, todo, published,
                       late, withheld, dropped, together, rewound>>

\* The directory was removed under the write, or the disk is full, for this or
\* another recipient's record: tick_guarded ends the pass, what is left of the batch
\* is lost, and the daemon goes on.
DeliverFails(d) ==
    /\ pc[d] = "deliver" /\ batch[d] # {}
    /\ batch' = [batch EXCEPT ![d] = {}]
    /\ dropped' = [dropped EXCEPT ![HostOf[d]] = @ \cup batch[d]]
    /\ EndPass(d)
    /\ UNCHANGED <<relay, git, state, once, ledger, cursor, todo, published, present,
                   late, withheld, handled, together, rewound>>

\* The pass ends and the daemon sleeps.
Delivered(d) ==
    /\ pc[d] = "deliver" /\ batch[d] = {}
    /\ EndPass(d)
    /\ UNCHANGED <<relay, git, state, once, memory, history>>

-----------------------------------------------------------------------------
Relays ==
    \/ \E m \in Msgs : Send(m)
    \/ \E h \in Hosts : \E f \in inbox[h] \cup other[h] :
         Adopt(h, f) \/ Lapse(h, f) \/ Remove(h, f)

Outbound(d) ==
    \/ Scan(d) \/ Scanned(d) \/ Push(d) \/ PushRaises(d)
    \/ \E m \in Msgs : Missed(d, m) \/ Publish(d, m) \/ Withhold(d, m)

Inbound(d) ==
    \/ NotDue(d) \/ Drain(d, TRUE) \/ Drain(d, FALSE)
    \/ Look(d) \/ (\E r \in batch[d] : Deliver(d, r)) \/ DeliverFails(d) \/ Delivered(d)

Pass(d) == Outbound(d) \/ Inbound(d)

Next ==
    \/ Relays
    \/ \E d \in Daemons : Boot(d) \/ FlushPending(d) \/ TakeLock(d) \/ Die(d) \/ Pass(d)

Spec == Init /\ [][Next]_vars

\* The loop of cmd_run goes on, the fetch interval is bounded, and a fetch works
\* again after every outage ...
FairSpec ==
    /\ Spec
    /\ \A d \in Daemons : WF_vars(Pass(d)) /\ SF_vars(Drain(d, TRUE))

\* ... and so does a push.
FairPushSpec ==
    /\ FairSpec
    /\ \A d \in Daemons : SF_vars(Push(d))

-----------------------------------------------------------------------------
(* Properties.                                                             *)

\* What is in a lane, as messages.
InLane(h) == {lane[h][i] : i \in DOMAIN lane[h]}

\* "Skipping "git" is the ordinary echo guard": a message is only ever published
\* by the host it was sent on, so hosts do not pass it back and forth.
NoEcho == \A h \in Hosts : \A m \in InLane(h) : Origin[m] = h

\* "bridge from now on" and not a message less: one sent after the bridge was
\* enabled is listed as handled only if it is in the lane or the recipient was
\* live, whenever daemons die and start again.
NoSilentDrop ==
    \A h \in Hosts : \A m \in late \cap ledgerFile[h] : m \in InLane(h) \cup withheld

\* "dedup: local original, or already materialized": the recipient's inbox never
\* holds a message twice, although every host drains its own lane too and a
\* message may be published twice.  Two passes at once may each write it; the host
\* lock leaves that to --once.  An heir, whose mail is not looked at, may end up
\* with two files of a message.
NoTwins ==
    \A h \in Hosts :
        /\ h \notin together => \A f, g \in inbox[h] : f[1] = g[1] => f = g
        /\ h \in together => \E d \in once : HostOf[d] = h

\* No record is worked on twice, also across restarts, unless a pass went on from a
\* place that another process had left behind.  The message of a record can still
\* come back, from another record of it or from the lane of its own host.
HandledOnce ==
    \A d \in Daemons :
        HostOf[d] \notin rewound => batch[d] \cap handled[HostOf[d]] = {}

\* Record i of lane g has been worked on at host h, is in a daemon's hands there,
\* or was lost with one or in a pass that failed while it delivered.
DealtWith(h, g, i) ==
    \/ <<g, i>> \in handled[h] \cup dropped[h]
    \/ \E d \in Daemons : HostOf[d] = h /\ <<g, i>> \in batch[d]

\* The cursor on disk, which is saved before anything is delivered, passes over
\* no record that was not dealt with, whichever daemon saved it last: it is lost
\* only with a process that had it in hand, or by a write that fails.
NothingSkipped ==
    \A h, g \in Hosts : \A i \in 1 .. cursorFile[h][g] : DealtWith(h, g, i)

\* A record in the shared repository reaches the other hosts that keep a daemon
\* running, unless a daemon there died with it in hand or a write of its pass
\* failed, or the clone is stuck with commits it could not push.
CaughtUp ==
    \A d \in Daemons : \A g \in Hosts \ {HostOf[d]} : \A i \in 1 .. Cardinality(Msgs) :
        (pc[d] \in Serving /\ i <= pushed[g])
            ~> (<<g, i>> \in handled[HostOf[d]] \/ pc[d] \notin Serving
                \/ <<g, i>> \in dropped[HostOf[d]] \/ Unpushed(HostOf[d]))

-----------------------------------------------------------------------------
(* Why the invariants hold.                                                *)

\* Only what was sent is anywhere, and originals are where they were sent.
Provenance ==
    \A h \in Hosts :
        /\ \A m \in LocalMessages(h) : m \in sent /\ Origin[m] = h
        /\ InboxIds(h) \subseteq sent
        /\ InLane(h) \subseteq sent
        /\ ledgerFile[h] \subseteq sent

\* A message of a host not yet enabled is not late, and a ledger, in memory or
\* saved, hides no late message.
LedgersHonest ==
    /\ \A m \in late : m \in sent /\ Origin[m] \in latched
    /\ \A d \in Daemons :
         /\ pc[d] # "unborn" => HostOf[d] \in latched
         /\ ledger[d] \subseteq sent
         /\ late \cap ledger[d] \subseteq InLane(HostOf[d]) \cup withheld

\* No clone has lines the shared repository lacks but its own.
Prefixes ==
    \A g \in Hosts :
        /\ pushed[g] <= Len(lane[g])
        /\ \A h \in Hosts : seen[h][g] <= pushed[g]

\* The host lock, and who delivers beside its holder.
OneServes ==
    /\ \A c, d \in Daemons \ once :
         pc[c] \in Serving /\ pc[d] \in Serving /\ HostOf[c] = HostOf[d] => c = d
    /\ \A c, d \in Daemons :
         pc[c] = "deliver" /\ pc[d] = "deliver" /\ HostOf[c] = HostOf[d]
             => c = d \/ HostOf[d] \in together

\* While one pass delivers records, whatever of them is in the inbox is known to be.
BatchKnown ==
    \A d \in Daemons : \A r \in batch[d] :
        /\ pc[d] \in {"look", "deliver"}
        /\ r[2] \in DOMAIN lane[r[1]]
        /\ (pc[d] = "deliver" /\ HostOf[d] \notin together
              /\ lane[r[1]][r[2]] \in InboxIds(HostOf[d]))
             => lane[r[1]][r[2]] \in present[d]

BridgeInv ==
    /\ TypeOK
    /\ Provenance /\ NoEcho
    /\ LedgersHonest /\ NoSilentDrop
    /\ Prefixes /\ OneServes /\ BatchKnown /\ NoTwins

\* Lines of lane g in host h's clone.
Lines(h, g) == IF g = h THEN Len(lane[h]) ELSE seen[h][g]

\* The cursor on disk is past everything handled or in hand, and where nobody has
\* fallen behind it, everyone has records of their own in hand.
CursorInv ==
    /\ \A h, g \in Hosts : cursorFile[h][g] <= Lines(h, g)
    /\ \A h \in Hosts : \A r \in handled[h] : r[2] <= cursorFile[h][r[1]]
    /\ \A d \in Daemons : \A r \in batch[d] : r[2] <= cursorFile[HostOf[d]][r[1]]
    /\ \A c, d \in Daemons :
         HostOf[c] = HostOf[d] /\ HostOf[d] \notin rewound /\ batch[c] \cap batch[d] # {} => c = d
    /\ HandledOnce

\* A daemon's own cursor, which a standby loads long before it reads, does not
\* pass anything over either.
SkipInv ==
    /\ NothingSkipped
    /\ \A d \in Daemons : \A g \in Hosts : \A i \in 1 .. cursor[d][g] : DealtWith(HostOf[d], g, i)

=============================================================================
