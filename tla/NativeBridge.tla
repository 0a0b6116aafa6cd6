---------------------------- MODULE NativeBridge ----------------------------
(***************************************************************************)
(* bridge_native.NativeBridge under bin/dispatch-ucbridge: daemons that    *)
(* mirror the inboxes of an allowlist of nicks to the sessions of Claude   *)
(* Code's own socket protocol, and take what those sessions send in.       *)
(*                                                                         *)
(* Daemons are the daemon processes of one relay, which exclude each other *)
(* by a host lock; Rival is the daemon of another relay on the same host.  *)
(* All share one registry of native sessions and one socket per nick.  An  *)
(* id stands for one inbox file: those in Msgs were written by the relay,  *)
(* those in Inbound by a listener, tagged `_via: native-bridge`.           *)
(***************************************************************************)
EXTENDS Naturals, FiniteSets

CONSTANTS
    Nicks,          \* [bridge] nicks, the same in both relays
    Msgs, Inbound,  \* files of the relay's own senders, and of its listeners
    Box,            \* the bridged nick in whose inbox each file is
    DirectMail,     \* messages with `to` = the nick (others: "all", "#channel")
    Peers,          \* native sessions that are no bridge
    Name,           \* the name each of them is registered under
    Daemons, Rival,
    NoOne,
    AllowOutbound,  \* [bridge] allow_outbound
    SerialStart,    \* no two listeners start at the same time
    MaxFaults       \* bound on process starts and on entries that age out

Procs == Daemons \cup {Rival}
Ids == Msgs \cup Inbound
Sessions == Peers \cup Nicks    \* a nick is its own bridge listener's entry

ASSUME ConstantsOK ==
    /\ Msgs \cap Inbound = {}
    /\ Box \in [Ids -> Nicks]
    /\ DirectMail \subseteq Msgs
    /\ Name \in [Peers -> Nicks]
    /\ Peers \cap Nicks = {}
    /\ Rival \notin Daemons
    /\ NoOne \notin Procs \cup Sessions
    /\ AllowOutbound \in BOOLEAN
    /\ SerialStart \in BOOLEAN
    /\ MaxFaults \in Nat

VARIABLES
    mail,      \* the state of each inbox file
    live,      \* nicks whose presence lock a local session holds
    up,        \* native sessions that answer on their socket
    pc,        \* what each process is doing
    lock,      \* the daemon that holds the relay's host lock, or a --once
               \* pass, which takes no lock and is assumed to run alone
    owner,     \* the process that last bound each nick's socket path
    lis,       \* the listening sockets each process has open
    probed,    \* the nick a starting process has found free, not yet bound
    ledger,    \* _ledger of each daemon
    enabled,   \* the ledger file exists
    disk,      \* the ids in it
    old,       \* ids whose entry is older than LEDGER_TTL_SECONDS
    snapUp,    \* what list_native_sessions returned to the last tick
    snapLive,  \* what live_agents returned to it
    unscanned, \* nicks whose inbox that tick has still to list
    todo,      \* files it has listed and not yet looked at
    touched,   \* it has changed the ledger
    sends,     \* history: how often each file was written to a native socket
    lost,      \* history: how often each file's ledger entry was lost
    seeded,    \* history: files that were there when the bridge was enabled
    everLive,  \* history: nicks that have had a local session
    faults

netVars == <<owner, lis, probed>>
ledgerVars == <<ledger, enabled, disk, old>>
tickVars == <<snapUp, snapLive, unscanned, todo, touched>>
history == <<sends, lost, seeded, everLive>>
vars == <<mail, live, up, pc, lock, netVars, ledgerVars, tickVars, history, faults>>

MailStates == {"absent", "pending", "read", "gone"}
Steps == {"off", "built", "starting", "idle", "once", "scanning", "done"}

TypeOK ==
    /\ mail \in [Ids -> MailStates]
    /\ live \subseteq Nicks
    /\ up \subseteq Peers
    /\ pc \in [Procs -> Steps]
    /\ lock \in Daemons \cup {NoOne}
    /\ owner \in [Nicks -> Procs \cup {NoOne}]
    /\ lis \in [Procs -> SUBSET Nicks]
    /\ probed \in [Procs -> Nicks \cup {NoOne}]
    /\ ledger \in [Daemons -> SUBSET Ids]
    /\ enabled \in BOOLEAN
    /\ disk \subseteq Ids
    /\ old \subseteq Ids
    /\ snapUp \subseteq Sessions
    /\ snapLive \subseteq Nicks
    /\ unscanned \subseteq Nicks
    /\ todo \subseteq Ids
    /\ touched \in BOOLEAN
    /\ sends \in [Ids -> Nat]
    /\ lost \in [Ids -> Nat]
    /\ seeded \subseteq Ids
    /\ everLive \subseteq Nicks
    /\ faults \in Nat

Init ==
    /\ mail = [i \in Ids |-> "absent"]
    /\ live = {} /\ up = {}
    /\ pc = [p \in Procs |-> "off"]
    /\ lock = NoOne
    /\ owner = [n \in Nicks |-> NoOne]
    /\ lis = [p \in Procs |-> {}]
    /\ probed = [p \in Procs |-> NoOne]
    /\ ledger = [d \in Daemons |-> {}]
    /\ enabled = FALSE /\ disk = {} /\ old = {}
    /\ snapUp = {} /\ snapLive = {} /\ unscanned = {} /\ todo = {}
    /\ touched = FALSE
    /\ sends = [i \in Ids |-> 0]
    /\ lost = [i \in Ids |-> 0]
    /\ seeded = {} /\ everLive = {} /\ faults = 0

-----------------------------------------------------------------------------
(* What the code reads.                                                    *)

\* A connect to the nick's socket path succeeds (_probe_socket).
Answers(n) == owner[n] # NoOne /\ n \in lis[owner[n]]

\* Sessions with a live pid and a live socket (list_native_sessions).  The
\* bridge's own listeners are registered like any other session.
NativeSessions == up \cup {n \in Nicks : Answers(n)}

SessionName(s) == IF s \in Nicks THEN s ELSE Name[s]

\* The one live session of that name, if there is exactly one.
FindLiveSession(n, sessions) ==
    LET named == {s \in sessions : SessionName(s) = n}
    IN  IF Cardinality(named) = 1 THEN CHOOSE s \in named : TRUE ELSE NoOne

\* .native/ after a tick that saw `sessions`: the names one session other than
\* a bridge listener answers to.
NativeRoster(sessions) ==
    {n \in Nicks : Cardinality({p \in sessions \cap Peers : Name[p] = n}) = 1}

\* Mutant: files that came over the bridge are read too.
AllMessages == {i \in Ids : mail[i] \in {"pending", "read"}}

\* What _local_messages yields: every file that is no tombstone, read or not,
\* except what came over a bridge.
LocalMessages == {i \in Msgs : mail[i] \in {"pending", "read"}}

\* The ledger file without the entries past their TTL, and what a bridge that
\* finds no ledger file takes for handled.
LoadLedger == disk \ old
Backlog == LocalMessages

\* A line from the native bus becomes a file of n's inbox with an id of its own,
\* tagged so that no bridge takes it for local mail.
NativeToLocal(e, n) ==
    /\ e \in Inbound /\ mail[e] = "absent" /\ Box[e] = n
    /\ mail' = [mail EXCEPT ![e] = "pending"]

\* _publish_one returns False: the caller may write the message off.
NotApplicable(i) ==
    \/ i \in Msgs \ DirectMail
    \/ ~AllowOutbound
    \/ Box[i] \in snapLive

\* lost after the entries `gone` have dropped out of what decides.
CountLost(gone) == [i \in Ids |-> IF i \in gone THEN lost[i] + 1 ELSE lost[i]]

ForgetTick ==
    /\ snapUp' = {} /\ snapLive' = {} /\ unscanned' = {} /\ todo' = {}
    /\ touched' = FALSE

\* A tick ends: a daemon with listeners sleeps until the next, its locals gone.
TickOver(d) ==
    /\ pc' = [pc EXCEPT ![d] = IF lis[d] = Nicks THEN "idle" ELSE "done"]
    /\ ForgetTick

-----------------------------------------------------------------------------
(* A process's life.                                                       *)

\* _build: NativeBridge.__init__ loads the ledger, before the host lock is
\* asked for.  If there is no ledger file, what waits is recorded unsent.
Build(d) ==
    /\ pc[d] = "off" /\ faults < MaxFaults
    /\ faults' = faults + 1
    /\ pc' = [pc EXCEPT ![d] = "built"]
    /\ enabled' = TRUE
    /\ IF enabled
       THEN /\ ledger' = [ledger EXCEPT ![d] = LoadLedger]
            /\ UNCHANGED <<disk, seeded>>
       ELSE /\ ledger' = [ledger EXCEPT ![d] = Backlog]
            /\ disk' = Backlog
            /\ seeded' = Backlog
    /\ UNCHANGED <<mail, live, up, lock, netVars, old, tickVars, sends, lost, everLive>>

\* The host lock is free: go on with the ledger as it was loaded.
TakeLock(d) ==
    /\ pc[d] = "built" /\ lock = NoOne
    /\ lock' = d
    /\ pc' = [pc EXCEPT ![d] = "starting"]
    /\ lost' = CountLost(disk \ ledger[d])
    /\ UNCHANGED <<mail, live, up, netVars, ledgerVars, tickVars, sends, seeded, everLive, faults>>

\* --once: one pass without listeners, then exit.
RunOnce(d) ==
    /\ pc[d] = "built" /\ lock = NoOne
    /\ lock' = d
    /\ pc' = [pc EXCEPT ![d] = "once"]
    /\ lost' = CountLost(disk \ ledger[d])
    /\ UNCHANGED <<mail, live, up, netVars, ledgerVars, tickVars, sends, seeded, everLive, faults>>

\* It is held: a gated daemon exits, an ungated one stays and tries again.
GiveUp(d) ==
    /\ pc[d] = "built" /\ lock # NoOne
    /\ pc' = [pc EXCEPT ![d] = "off"]
    /\ ledger' = [ledger EXCEPT ![d] = {}]
    /\ UNCHANGED <<mail, live, up, lock, netVars, enabled, disk, old, tickVars, history, faults>>

StartRival ==
    /\ pc[Rival] = "off" /\ faults < MaxFaults
    /\ faults' = faults + 1
    /\ pc' = [pc EXCEPT ![Rival] = "starting"]
    /\ UNCHANGED <<mail, live, up, lock, netVars, ledgerVars, tickVars, history>>

\* p is gone and with it its sockets, its lock and its _ledger; `unlinked` are
\* the nicks whose socket path it has removed.
Leave(p, unlinked) ==
    /\ pc[p] # "off"
    /\ pc' = [pc EXCEPT ![p] = "off"]
    /\ lis' = [lis EXCEPT ![p] = {}]
    /\ probed' = [probed EXCEPT ![p] = NoOne]
    /\ owner' = [n \in Nicks |-> IF n \in unlinked THEN NoOne ELSE owner[n]]
    /\ IF lock = p
       THEN lock' = NoOne /\ lost' = CountLost(ledger[p] \ disk) /\ ForgetTick
       ELSE UNCHANGED <<lock, lost, tickVars>>
    /\ ledger' = IF p = Rival THEN ledger ELSE [ledger EXCEPT ![p] = {}]
    /\ UNCHANGED <<mail, live, up, enabled, disk, old, sends, seeded, everLive, faults>>

\* SIGTERM, ^C or the presence gate: bridge.stop() unlinks the path of every
\* listener it started, whoever has bound it since.
Stop(p) == Leave(p, lis[p])

Crash(p) == Leave(p, {})

\* Mutant: start() does not ask whether the socket is live.
ProbeNothing(p, n) ==
    /\ pc[p] = "starting" /\ n \notin lis[p] /\ probed[p] = NoOne
    /\ SerialStart => \A q \in Procs : probed[q] = NoOne
    /\ probed' = [probed EXCEPT ![p] = n]
    /\ UNCHANGED <<mail, live, up, pc, lock, owner, lis, ledgerVars, tickVars, history, faults>>

\* NativeInboundListener.start: the socket path is free, or left by the dead ...
Probe(p, n) ==
    /\ pc[p] = "starting" /\ n \notin lis[p] /\ probed[p] = NoOne
    /\ SerialStart => \A q \in Procs : probed[q] = NoOne
    /\ ~Answers(n)
    /\ probed' = [probed EXCEPT ![p] = n]
    /\ UNCHANGED <<mail, live, up, pc, lock, owner, lis, ledgerVars, tickVars, history, faults>>

\* ... or somebody answers on it: the daemon tears down what it had started.
Refuse(p, n) ==
    /\ pc[p] = "starting" /\ n \notin lis[p] /\ probed[p] = NoOne
    /\ Answers(n)
    /\ Leave(p, lis[p])

\* Unlink the path, bind, listen, and write the registry entry over the old.
Bind(p, n) ==
    /\ pc[p] = "starting" /\ probed[p] = n
    /\ owner' = [owner EXCEPT ![n] = p]
    /\ lis' = [lis EXCEPT ![p] = @ \cup {n}]
    /\ probed' = [probed EXCEPT ![p] = NoOne]
    /\ UNCHANGED <<mail, live, up, pc, lock, ledgerVars, tickVars, history, faults>>

Started(p) ==
    /\ pc[p] = "starting" /\ lis[p] = Nicks
    /\ pc' = [pc EXCEPT ![p] = "idle"]
    /\ UNCHANGED <<mail, live, up, lock, netVars, ledgerVars, tickVars, history, faults>>

-----------------------------------------------------------------------------
(* One outbound pass: tick, under tick_guarded.                            *)

\* Mutant: the sweep's result is taken for the local sessions.
SampleSwapped(d) ==
    /\ pc[d] \in {"idle", "once"} /\ lock = d
    /\ pc' = [pc EXCEPT ![d] = "scanning"]
    /\ snapUp' = live
    /\ snapLive' = NativeSessions
    /\ unscanned' = Nicks /\ todo' = {} /\ touched' = FALSE
    /\ UNCHANGED <<mail, live, up, lock, netVars, ledgerVars, history, faults>>

\* Probe the registry, rewrite .native/, and ask who is live locally.
Sample(d) ==
    /\ pc[d] \in {"idle", "once"} /\ lock = d
    /\ pc' = [pc EXCEPT ![d] = "scanning"]
    /\ snapUp' = NativeSessions
    /\ snapLive' = live
    /\ unscanned' = Nicks /\ todo' = {} /\ touched' = FALSE
    /\ UNCHANGED <<mail, live, up, lock, netVars, ledgerVars, history, faults>>

\* List the next nick's inbox; its files are read one by one afterwards.
ListInbox(d, n) ==
    /\ pc[d] = "scanning" /\ lock = d /\ todo = {} /\ n \in unscanned
    /\ unscanned' = unscanned \ {n}
    /\ todo' = {i \in Ids : Box[i] = n /\ mail[i] \in {"pending", "read"}}
    /\ UNCHANGED <<mail, live, up, pc, lock, netVars, ledgerVars, snapUp, snapLive, touched,
                   history, faults>>

\* d has listed i and is about to decide on it.
Looking(d, i) == pc[d] = "scanning" /\ lock = d /\ i \in todo

\* The file is gone, is not for this pass, or was handled before.
PassOver(d, i) ==
    /\ Looking(d, i)
    /\ i \notin LocalMessages \/ i \in ledger[d]
    /\ todo' = todo \ {i}
    /\ UNCHANGED <<mail, live, up, pc, lock, netVars, ledgerVars, snapUp, snapLive, unscanned,
                   touched, history, faults>>

\* Mutant: "not yet" is taken for "never".
WriteOffUnreachable(d, i) ==
    /\ Looking(d, i)
    /\ i \in LocalMessages \ ledger[d]
    /\ NotApplicable(i) \/ FindLiveSession(Box[i], snapUp) = NoOne
    /\ ledger' = [ledger EXCEPT ![d] = @ \cup {i}]
    /\ old' = old \ {i}
    /\ touched' = TRUE
    /\ todo' = todo \ {i}
    /\ UNCHANGED <<mail, live, up, pc, lock, netVars, enabled, disk, snapUp, snapLive, unscanned,
                   history, faults>>

\* _publish_one returned False: recorded as handled, unsent.
WriteOff(d, i) ==
    /\ Looking(d, i)
    /\ i \in LocalMessages \ ledger[d]
    /\ NotApplicable(i)
    /\ ledger' = [ledger EXCEPT ![d] = @ \cup {i}]
    /\ old' = old \ {i}
    /\ touched' = TRUE
    /\ todo' = todo \ {i}
    /\ UNCHANGED <<mail, live, up, pc, lock, netVars, enabled, disk, snapUp, snapLive, unscanned,
                   history, faults>>

\* It returned None: nobody answers to the name, more than one does, or the one
\* found did not accept the write.  Left for the next tick.
NotYet(d, i) ==
    /\ Looking(d, i)
    /\ i \in LocalMessages \ ledger[d] /\ ~NotApplicable(i)
    /\ todo' = todo \ {i}
    /\ UNCHANGED <<mail, live, up, pc, lock, netVars, ledgerVars, snapUp, snapLive, unscanned,
                   touched, history, faults>>

\* Mutant: a message that was sent is not recorded.
SendUnrecorded(d, i, e) ==
    LET to == FindLiveSession(Box[i], snapUp)
    IN  /\ Looking(d, i)
        /\ i \in LocalMessages \ ledger[d] /\ ~NotApplicable(i)
        /\ to \in up /\ UNCHANGED mail
        /\ sends' = [sends EXCEPT ![i] = @ + 1]
        /\ touched' = TRUE
        /\ todo' = todo \ {i}
        /\ UNCHANGED <<live, up, pc, lock, netVars, ledgerVars, snapUp, snapLive, unscanned,
                       lost, seeded, everLive, faults>>

\* It returned True: the session found by the sweep took the write.  A listener
\* of this relay puts the line into the inbox, as file e, if it lives to read it.
Send(d, i, e) ==
    LET to == FindLiveSession(Box[i], snapUp)
    IN  /\ Looking(d, i)
        /\ i \in LocalMessages \ ledger[d] /\ ~NotApplicable(i)
        /\ \/ to \in up /\ UNCHANGED mail
           \/ to \in Nicks /\ Answers(to) /\ UNCHANGED mail
           \/ /\ to \in Nicks /\ Answers(to) /\ owner[to] \in Daemons
              /\ NativeToLocal(e, to)
        /\ sends' = [sends EXCEPT ![i] = @ + 1]
        /\ ledger' = [ledger EXCEPT ![d] = @ \cup {i}]
        /\ old' = old \ {i}
        /\ touched' = TRUE
        /\ todo' = todo \ {i}
        /\ UNCHANGED <<live, up, pc, lock, netVars, enabled, disk, snapUp, snapLive, unscanned,
                       lost, seeded, everLive, faults>>

\* The pass is over: save a ledger that changed, without its old entries.
EndTick(d) ==
    /\ pc[d] = "scanning" /\ lock = d /\ todo = {} /\ unscanned = {}
    /\ IF touched
       THEN /\ ledger' = [ledger EXCEPT ![d] = @ \ old]
            /\ disk' = ledger[d] \ old
            /\ lost' = CountLost(ledger[d] \cap old)
       ELSE UNCHANGED <<ledger, disk, lost>>
    /\ TickOver(d)
    /\ UNCHANGED <<mail, live, up, lock, netVars, enabled, old, sends, seeded, everLive, faults>>

\* The roster, the scan or the save raised: tick_guarded swallows it, and the
\* ledger stays as it is in memory.
TickFails(d) ==
    /\ pc[d] = "scanning" /\ lock = d
    /\ TickOver(d)
    /\ UNCHANGED <<mail, live, up, lock, netVars, ledgerVars, history, faults>>

-----------------------------------------------------------------------------
(* The relay and the native bus around the bridge.                         *)

\* dispatch() writes a message into the nick's inbox.
Arrive(i) ==
    /\ i \in Msgs /\ mail[i] = "absent"
    /\ mail' = [mail EXCEPT ![i] = "pending"]
    /\ UNCHANGED <<live, up, pc, lock, netVars, ledgerVars, tickVars, history, faults>>

\* A native session writes to a listener of this relay: _deliver.
Deliver(i) ==
    /\ Answers(Box[i]) /\ owner[Box[i]] \in Daemons
    /\ NativeToLocal(i, Box[i])
    /\ UNCHANGED <<live, up, pc, lock, netVars, ledgerVars, tickVars, history, faults>>

\* A local session reads a message, or acks it (or it expires).
LocalRead(i, state) ==
    /\ mail[i] \in {"pending", "read"} /\ Box[i] \in live
    /\ state \in {"read", "gone"}
    /\ mail' = [mail EXCEPT ![i] = state]
    /\ UNCHANGED <<live, up, pc, lock, netVars, ledgerVars, tickVars, history, faults>>

LocalSession(n) ==
    /\ live' = IF n \in live THEN live \ {n} ELSE live \cup {n}
    /\ everLive' = everLive \cup {n}
    /\ UNCHANGED <<mail, up, pc, lock, netVars, ledgerVars, tickVars, sends, lost, seeded, faults>>

NativeSession(p) ==
    /\ up' = IF p \in up THEN up \ {p} ELSE up \cup {p}
    /\ UNCHANGED <<mail, live, pc, lock, netVars, ledgerVars, tickVars, history, faults>>

\* LEDGER_TTL_SECONDS pass since i was recorded.
Age(i) ==
    /\ i \in UNION {ledger[d] : d \in Daemons} \cup disk
    /\ i \notin old /\ faults < MaxFaults
    /\ faults' = faults + 1
    /\ old' = old \cup {i}
    /\ UNCHANGED <<mail, live, up, pc, lock, netVars, ledger, enabled, disk, tickVars, history>>

-----------------------------------------------------------------------------
Tick(d) ==
    \/ Sample(d)
    \/ \E n \in Nicks : ListInbox(d, n)
    \/ \E i \in Ids : PassOver(d, i) \/ WriteOff(d, i) \/ NotYet(d, i)
    \/ \E i \in Ids, e \in Inbound : Send(d, i, e)
    \/ EndTick(d)
    \/ TickFails(d)

Life(p) ==
    \/ Stop(p)
    \/ Crash(p)
    \/ \E n \in Nicks : Probe(p, n) \/ Refuse(p, n) \/ Bind(p, n)
    \/ Started(p)

Next ==
    \/ \E d \in Daemons : Build(d) \/ TakeLock(d) \/ RunOnce(d) \/ GiveUp(d) \/ Tick(d)
    \/ StartRival
    \/ \E p \in Procs : Life(p)
    \/ \E i \in Ids : Arrive(i) \/ Deliver(i) \/ Age(i)
    \/ \E i \in Ids, state \in MailStates : LocalRead(i, state)
    \/ \E n \in Nicks : LocalSession(n)
    \/ \E p \in Peers : NativeSession(p)

Spec == Init /\ [][Next]_vars

-----------------------------------------------------------------------------
(* Safety.                                                                 *)

\* At-most-once, up to the ledger: a message is written to the native bus at
\* most once, and once more for each time its ledger entry was lost, because
\* the daemon died or stopped before the tick's save, because a standby took
\* over with a ledger it had loaded earlier, or because the entry was 14 days
\* old (bridge_native.tick, bin/dispatch-ucbridge.cmd_run).
SendsAccounted == \A i \in Ids : sends[i] <= lost[i] + 1

\* What came in over the bridge never goes out again, although the bridge finds
\* its own listeners in the registry it sends to.
NoEcho == \A i \in Inbound : sends[i] = 0

\* A direct message is given up unsent only because the bridge was enabled
\* after it came, or because the nick has had a local session: mail that waits
\* for a native session that is not there yet is never written off.
OnlyLocalIsSkipped ==
    \A i \in DirectMail : \A d \in Daemons :
        /\ AllowOutbound /\ i \in ledger[d] \cup disk
        /\ sends[i] = 0 /\ i \notin seeded
        => Box[i] \in everLive

\* A listener that started is the one its nick's socket leads to: a bridge
\* refuses a name another one holds, and stops without taking another's away.
OwnsItsName == \A p \in Procs : \A n \in lis[p] : owner[n] = p

\* What who() shows as a native session can be sent to: a bridged nick that is
\* in .native/ resolves to one session in the same tick.
RosterReachable ==
    \A d \in Daemons : pc[d] = "scanning" =>
        \A n \in NativeRoster(snapUp) : FindLiveSession(n, snapUp) # NoOne

=============================================================================
