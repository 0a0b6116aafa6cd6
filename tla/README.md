# A TLA+ verification of mcp-dispatch

mcp-dispatch is a relay through which agent sessions on one or several hosts
send each other messages. It has no server process of its own: every session
runs `server.py` as an MCP server, and all of them, with a few command line
tools and daemons, share one directory of JSON files. What the system promises
(mail is not lost, an id has one holder, a task has one owner, a flood of mail
starts a bounded number of processes) rests on the order in which independent
processes create, lock, rename and unlink those files. That is what is modelled
here.

Every module models what the code does, one action per system call where other
processes can come in between and one per handler where they cannot. The
promises of the documentation are properties; the one run that is a counterexample
is described under [Finding](#finding), and the places where the code is known to do
less than a reader may expect are listed under [Known limits](#known-limits).

## Inventory of the system

| component | state | operations | what is hard about it |
|---|---|---|---|
| mailbox protocol (`server.py`, `dispatch_fs.py`, `bin/dispatch-send`) | inbox directories and message files, the `.agents` registry | start-up, send with fan-out, peek, ack, expiry, adoption of dead sessions' mail | all sessions, their sweeper threads and the senders interleave at every file operation; any of them may die |
| identity (`server.py`, `dispatch_fs.py`) | presence files and the flocks on them | reap, claim, probe, release | a lock belongs to an inode, an unlink to a name |
| durable writes (`dispatch_fs.py`) | one file and its `.tmp` | atomic_write, the stale `.tmp` sweep | process death and power loss between any two calls |
| tasks (`server.py`) | a record and a claim marker per task | create, claim, complete | read-modify-write with no lock |
| supervisor (`supervisor.py`, `bin/dispatch-supervise`) | per nick: recent starts, failures, the start in flight, parked | one pass over the allowlist per interval | started runtimes, sessions opened by hand and mail change during a pass |
| channels and registry (`server.py`, `dispatch_fs.py`) | subscriptions in presence records; rooms, sessions and last session of a nick in `.agents` | register, subscribe, post, release | the presence file is rewritten in place; all sessions of a nick rewrite one record without a lock |
| receipts and duplicate suppression (`server.py`) | what a sender has been told of its messages | peek, dispatch | reads other sessions' inboxes while they change |
| waking a session (`server.py`, `notify_policy.py`, `bin/dispatch-wait`, `hooks/`) | the arm lock, the set of reported messages | watch, notify, arm | a deadline or a dying watch races an arrival; the hook gives up after two tries |
| git transport and bridge (`git_transport.py`, `git_bridge.py`, `bin/dispatch-gitsync`) | per host: a clone, a cursor, a ledger, the `.remote` roster | publish, push, fetch, drain, materialise | crash between cursor and inbox, rejected pushes, duplicates |
| native bridge (`bridge_native.py`, `bin/dispatch-ucbridge`) | a ledger, one listening socket per nick, the `.native` roster | start, sweep, outbound pass, inbound delivery | several daemons and relays share sockets; the ledger is saved once per pass |
| terminal client and IRC gateway (`tui/`) | Go copy of the protocol; nicks and sessions of IRC clients | send, ack, poll; register, claim a nick | bounded queues, nick collisions |
| services, installers, digest, CI gate router, configuration | files outside the relay | | no protocol of their own |

How they meet: the sessions, `dispatch-send`, the bridges and the terminal client
all write inboxes through the same protocol and find each other through presence
locks. The supervisor decides from presence and from the mail a new session would
inherit. The bridges fill the `.remote` roster that adoption consults.

## Modules

| module | models | composed with |
|---|---|---|
| `Mailbox` | what the relay promises about a message, without files | implemented by `Relay` |
| `DurableFile` | what the rest of the relay takes an atomic write for | implemented by `AtomicWrite` |
| `Relay` | the mailbox protocol | takes presence as a set of live sessions (which `Presence` justifies but for the race under Known limits) and a rewrite as one step (`AtomicWrite` implements `DurableFile`) |
| `Presence` | one id's presence file, its inodes and locks | |
| `AtomicWrite` | `dispatch_fs.atomic_write` on one path | |
| `Tasks` | one task's record and marker | |
| `Supervisor` | the daemon and the world it watches | sees presence and inherited mail as sets |
| `GitBridge` | the relays of several hosts joined by a git repository | takes one recipient's inbox per host from `Relay` |
| `Registry` | rooms, the record of a nick, the roster of other hosts | gives `Relay` its `Remote`: which inboxes adoption keeps its hands off |
| `NativeBridge` | daemons that mirror inboxes to another session protocol | takes files and their read state from `Relay` |
| `Watch` | how a parked session hears of its mail | takes the inbox as unread or not |
| `MC*` | instances and symmetries for TLC | |
| `*Proofs` | theorems and proofs about the module they extend; `ExclusionProofs` about `Presence` and `Tasks` | |

Operators introduced by a comment `Mutant:` are not part of a specification.
Each is a wrong version of the definition that follows, used to confirm that a
property fails when the code is wrong in that way.

### Relay

A *copy* is one inbox file, named by its message and the inbox it was first
written to; the code's file name (a timestamp, the sender and a random suffix) is
unique in the same way, and stays the same when the file is adopted. `box[d][c]`
is the state field of that file in inbox `d`. A session id is `<nick>-<pid>`, as
`bin/dispatch-launcher` builds it, so it is claimed once and never comes back:
`phase` runs through the start-up in the order of `server.py`'s module body
(reap empty inboxes, make the own inbox, lock presence and register, first
adoption pass, serve) to `gone`. A crash is `Exit` at any of these points.

A send is `SendResolve` (where the recipients are looked up, once), then for each
recipient `DeliverMkdir` and `DeliverWrite` or, when the directory was removed in
between, `DeliverFail`, which ends the whole fan-out as the exception does. A
session's `dispatch()` then reads its own inbox (`_with_pending`), as do all the
other tools, so the read is part of `SendDone` and `Ack`. An adoption pass lists the
donors' pending files (`ClaimId` at start-up, `BeginSweep` in the thread), then
takes them one by one: `AdoptRename` or `AdoptMiss`, then `AdoptTag`, which writes
back what was read *before* the rename. The list is taken at the beginning of the
pass although the code lists directory by directory: a dead session never comes
back to life, and a file that arrives later is left to the next pass. A pass over
the own inbox by the tool thread is one step because nobody else changes files
that are already in it, except the session's own sweeper, whose two writes are
steps of their own.

Abstractions: message contents are gone; a TTL is a message that at some point is
in `lapsed`; a tombstone's own TTL is the choice of `drop`. Roster mode (fixed
ids), channels and the ownership test of `group_mode` are left out.

### Presence

`path` is the inode the presence file's name leads to, `fd` and `locked` what each
process has open and locked. `Starters` are started with this id: they run
`_reap_dead_presence` and then `_try_lock_presence`. `Others` are sessions started with
other ids: their start-up passes over every presence file, so it reaps this one too
(`Reap`). `Probers` run `presence_is_live`, which takes the lock to find out whether it is
free. Nothing keeps these apart. The code has a race: a starter opens the file, another
session's pass locks and unlinks it before the starter's flock, and the starter then holds
a lock on an inode without a name, or the other pass unlinks by name a file made since.
`crossed` is history: the starters for which, between their open and their flock,
somebody else was between the open and the unlink of such a pass. The properties are about
everybody else, and say of those who crossed only that one of them is behind each violation.

### AtomicWrite

One step per system call of `atomic_write`. `data` is what processes see and
`disk` what has been fsynced; `durable` is the set of directory contents a power
loss may bring back. `PowerLoss` picks one of them and keeps, tears or drops the
unsynced contents of each file. `OneAtATime` says whether calls on one path
overlap. `File` maps the module to `DurableFile`: `text` is what a reader of the path gets,
`kept` what the directories in `durable` would put there, `done` what the last call to return
wrote. `Replace` is its `Write`, `SyncDir` its `Return`, and a power loss picks one text of
`kept`, however many bytes of other files it takes along.

### Tasks

One step per file operation of `_claim_task` and `_complete_task`, `at` saying where each
agent is; a call may die between any two. The record a call has read is not kept in the model
because every field modelled is overwritten before it is written back.

### Supervisor

Time is in polling intervals and kept as ages, so that the state space is finite
without a bound on the length of a behaviour: `starts` are the ages of the starts
in the window and `Elapse` is both the clock and `NickState.prune`. A visit of a
nick is three steps (look, resolve, decide and start) and the world moves between
them. `Restart` forgets everything, as a new `Supervisor` object does.

### GitBridge

The model follows direct messages to one recipient through the inboxes of all
hosts. A file is `<<message, kind, record>>`, the record being the one it was written from,
so that two copies of one message are two files; `other` holds those that sessions have
adopted. All lanes to which one host's daemon appends are one `lane`; only that host
appends to them, so a clone's copy of a lane is a prefix and the model keeps lengths
(`pushed`, `seen`). The working tree, the commits and the remote thus become three
numbers. A daemon's pass is `Scan`, one of `Publish`, `Withhold` and `Missed` per
message found, `Scanned` (save the ledger), `Push` or `PushRaises`, then `NotDue` or
`Drain` (fetch, read, save the cursor), `Look` (the ids in the inbox, once) and
`Deliver` per record. `DeliverFails` is a write that raises, because a starting session has
removed the empty directory or the disk is full: it ends the pass with the cursor already
saved, and the rest of the batch is lost while the daemon goes on. `Die` is possible at
every point and forgets the daemon's memory but not the state directory.

A process may `Boot` at any time, also while others serve the host: it loads ledger and
cursor and then waits for the host lock. Those in `Single` may be started with `--once`
(`once`), which makes one pass without the lock and leaves (`EndPass`). The recipient's
sessions adopt, expire and ack meanwhile. Whether the recipient is live on a host when a
message is considered is left open.

A saved cursor is the promise that the daemon has dealt with all before it:
`NothingSkipped` says that each such record was handled, is in the batch of a process that
is still at it, or was in the hands of one when it died or when a write of its pass failed
(`dropped`). `together` marks hosts where two passes delivered at once, `rewound` those
where a pass read on from a cursor that was no longer the saved one; `NoTwins` and
`HandledOnce` are about the rest, and `NoTwins` adds that the first needs a `--once`.

### Mailbox, and how Relay implements it

`Mailbox` knows inboxes, readers and the life of a copy: unsent, unread, seen,
buried (expired before it was seen, with a tombstone), and at the end acked or
expired. Only a live reader changes what is in its inbox; only unread copies of an
inbox nobody reads change hands, to an heir; must_read copies never expire.
`Relay` maps `where` to the inboxes a file is in, `life` to its state and, when
there is no file any more, to how it went (`fate`), `moving` to the files a sweeper
has renamed and not yet rewritten. `Settle` shows what an heir's rewrite does: it
may make a copy unread once more that was seen, or acked, in between (the window
of `server.py:809`). The mapping has no "lost": a file that vanished in any other
way would be a step `Mailbox` does not allow.

### Registry

Sessions of one nick on one host, start-up step by step (`Start`: reap, make the inbox;
then lock, publish presence, register). Sessions of other nicks appear through what they do
here: their start-ups reap presence files and empty inboxes (`ReapPresence`, `ReapInbox`),
they post, and they and the bridge write to anybody, dead or alive (`Address` makes the
inbox, `Receive` writes). `file` says whether a presence file is absent, torn (being
rewritten) or whole; a whole one holds `mem[s]`. Every change of the nick's record is a
read (`ReadToRegister`, `ReadToMirror`, `Leave`, `OnSigterm`, `StampAgain`) and a write of
the changed copy (`Register`, `Mirror`, `Released`), because no lock is held across them,
and updates of several sessions overlap freely. A session that gets SIGTERM stamps the
record in the handler and again at exit, when its presence lock is gone.

A channel post is `Post` (list the presence files), one `ReadPresence` per file, then per
subscriber `OpenSubscriber` and `WriteSubscriber`; `WriteFails` is the write into a
directory removed in between, which ends the post, and `PosterDies` may end it too.
`owed` are those in the room who have left their presence record alone since the post
began and have no copy yet: there are none when the post returns (`PostReaches`).

`WriteRemoteRoster` is the git bridge's list of foreign senders: who has
published something and is not in the record of a nick of this host. Adoption
(`Adopt`) and `recover-stranded-mail.py` (`Recover`) act on it. `wish` and `excused` are
history: the rooms the nick last recorded, but for those that an overlapping update has
undone, and the sessions whose inbox was removed or that an overlapping update dropped.

### NativeBridge

An id is one inbox file; files a listener wrote are tagged and are `Inbound`. A daemon is
built (its ledger loaded) before it asks for the host lock, so `Build` and `TakeLock` are
two steps, and a standby takes over with an old ledger. Starting a listener is `Probe`
(is the socket path free) and `Bind` (unlink, bind, write the registry entry). A pass is
`Sample` (the registry sweep and the live local sessions, once), `ListInbox` per nick, one
of `PassOver`, `WriteOff`, `NotYet` and `Send` per file, and `EndTick`, which saves the
ledger; `TickFails` is an exception anywhere in it. `Rival` is the daemon of another relay,
which has a host lock of its own but the same sockets and names. `lost` counts, per file,
how often the ledger lost its entry: it is what `SendsAccounted` allows a second sending
for. The native protocol itself is external and reduced to connects and writes.

### Watch

One id, its sessions one after the other, and the `dispatch-wait` processes
they leave or start. `TakeArmLock`, `Refused`, `StandDown` and `RunUnlocked` are the arm
lock as its `main` tries it (try, look again, run without); `FindNew` writes the wake
record and `Report` prints, two steps as in the code; `Emit` is the streaming mode. The
Stop hook is four actions by outcome. `Prober` is whoever asks whether the id is armed
(`who()`, a hook, the reminder on tool results): `flock_held` takes the lock to see whether it
is free, `ProbeLock` to `ProbeUnlock`, and whoever asks at that moment, the Stop hook or a
watch that starts, takes it for a watch. `Nudge` and `advised` stand for the reminders that
make a model start a watch. A `ToolCall` reads any part of the waiting mail, as `peek` of a
thread, `who` and the others do. `deaf` names why a session parked without a watch of its own:
the hook gave up, could not tell the session, saw the lock of a predecessor's watch, or was
misled by a probe.
The harness (running hooks, waking the model) is external.
`UnderWay(m)` says that a step that can be taken now brings `m` to the model: a wake is noted, a
watch is about to report, or a watch of the session will still look and does not hold `m` back.

## Runs

Deadlock is checked except where all sessions, daemons or watches may have ended and all
messages been sent (Relay, GitBridge, NativeBridge, Watch, Registry).

| run | checks | bounds |
|---|---|---|
| `RelayHeirs` | `TypeOK`, `AdoptedOnce`, `NothingLost`, `LiveMailStays`, `OnlyUnreadInherited` | one nick, two sessions, two messages, one of them must_read: two heirs racing for one drop box, one inheriting from the other, sends that die half way |
| `RelayNicks` | `ImplementsMailbox`, `OrphansAdopted` | two nicks, two sessions of one and a remote session, one message |
| `TasksClaim` | `OneWinner`, `RecordFollowsMarker` | three agents |
| `PresenceStarts` | `OneHolder`, `HolderVisible`, `ReapsOnlyTheDead`, `DeadIsDead` | three starters, two sessions of other ids, a prober, four inodes |
| `AtomicSerial` | `PathComplete`, `ReturnedIsDurable`, `ImplementsFile` | two writers, three inodes |
| `SupervisorLimits` | `ConcurrencyCap`, `HourlyCeiling`, `SlotsExpire`, `CooldownKept`, `MailAnswered` | two nicks, one concurrent start, two starts in a window of five intervals, a cooldown of two, two failures: the cooldown alone would allow three starts in the window |
| `GitExchange` | `NothingSkipped`, `NoEcho`, `NoSilentDrop`, `NoTwins`, `HandledOnce`, `CaughtUp` | two hosts, one message; two processes on the sender's host, the second of which may be a `--once`, and one on the other, of which two are started (`MaxStarts`): a restart, a standby or a pass beside the daemon on one host, or one daemon on each |
| `RegistryRooms` | `TypeOK`, `LocalNeverRemote`, `PostReaches`, `RoomsKept` | two sessions, two rooms, one of them from the environment; sessions join, leave and post to the other one (`Asked`), and nobody posts once a session has published to other hosts (`Apart`): posts and the roster share no state but the inboxes, and each is explored with everything else |
| `NativeOutbound` | `TypeOK`, `SendsAccounted`, `NoEcho`, `OnlyLocalIsSkipped`, `OwnsItsName` | one nick, one message, one inbound file, one peer, two daemons of the relay and a rival, three process starts or aged entries (`MaxFaults`): enough for a restart with a stale standby beside a rival |
| `NativeRoster` | `RosterReachable` (fails, see below) | as above with one fault |
| `WatchRecord` | `NeverStuckUnheard`, `NeverParksDeaf`, `RecordIsTold` | a direct message and a channel post, two one-shot watches and a prober, two session starts or kills, `MAX_BLOCKS` as in the code (2) |
| `WatchHeard` | `Heard` | one channel post, two watches of both modes with a lifetime, a prober, two faults |

`MaxInodes` bounds the files created, `MaxStarts` the bridge's processes, `MaxFaults` the
starts, kills and aged entries, `Asked` and `Apart` what `Registry` explores together;
they only cut behaviours off, and the proofs hold for all their values. The instances are
small because every safety property of the runs is also proved, for every size; what TLC adds
is that the formulas proved are not vacuous (each fails when a definition of the model is replaced by one of its mutants), the liveness
properties, and the finding. The type invariants of `Tasks`, `Presence`, `AtomicWrite`,
`Supervisor`, `GitBridge` and `Watch` are proved and not listed in the runs as well.

Fairness. The sweeper is a loop around a sleep and each file operation returns, so
each session's pass is weakly fair while the session lives. The supervisor's loop is
weakly fair; it is assumed not to be restarted for ever. A bridge daemon's loop is
weakly fair and a fetch with the network up is strongly fair, because the fetch interval
is bounded (`max_fetch_interval`) and outages end. In `Watch` a turn ends, the harness
delivers a wake it has noted, a starting server claims, a probe lets go of the lock, and a
watch process goes on polling; nobody has to arm a watch, call a tool or type. Nothing obliges anyone to start,
to exit, to send or to read.

## Finding

`NativeRoster`: `find_live_session` (`bridge_native.py:180`) counts the bridge's own
registered listener among the sessions of a name. As soon as a native session of a bridged
nick's name is up, the name has two matches and no pass ever sends to it, while
`_write_native_roster` leaves listeners out and lists the session. The docstring of that
function (`bridge_native.py:799`) gives the opposite as its purpose, and
`docs/native-bridge.md:98` says the message is delivered once the target comes online.

## Known limits

Behaviour the models contain, which a reader of the documentation may not expect and
which no run is kept for.

- An ack that comes between the sweeper's rename of an adopted file and its rewrite
  is undone by the rewrite (`server.py:809`): `AdoptTag` puts back what it read.
- Ack by id removes one file (`server.py:1974`). A session that inherited its
  sibling's copy of a fan-out has two with one id.
- The lock a reaper holds across the unlink is on an inode, the unlink goes by name
  (`server.py:681`). Every session's start-up reaps the files of all ids, so the start of any
  session may cross a claim: a starter opens the file of a dead predecessor, the reaper locks
  and unlinks it, the starter locks what has no name any more, cannot be found, and a second
  session can claim the id (against `README.md:781`); or the reaper opened the old file, and
  its unlink removes the one a live session has made since (against `server.py:663`). The
  properties of `Presence` exempt the claims this happened to (`crossed`).
- A claim can be refused, and a probe answer "live", because of another probe's
  momentary lock (`dispatch_fs.py:148`). A probe that has opened a file which a start-up then
  unlinks answers "dead" although a session has come up on a new one: `DeadIsDead` is about the
  file the path still leads to.
- `_complete_task` trusts the record (`server.py:1099`), which lags behind the marker,
  and a claim can write over a completion (`server.py:1093`).
- A cooldown above one hour is forgotten by `prune` (`supervisor.py:448`); the theorem
  `CooldownIsKept` has `Cooldown <= Window` as a hypothesis for that reason.
- The supervisor samples liveness before it scans the relay (`supervisor.py:654`); a
  session opened in between gets a sibling.
- The bridge saves its cursor before it delivers (`git_transport.py:445`): what a dying
  daemon had drained is lost on that host. A failed write loses as much while the daemon lives:
  `_materialize` makes the directory and writes (`git_bridge.py:298`), a session that starts
  removes empty inboxes (`server.py:710`), and the exception ends the pass with the rest of its
  records. `NothingSkipped` and `CaughtUp` exempt those records there (`dropped`).
- `dispatch-gitsync --once` takes no host lock (`bin/dispatch-gitsync:546`): two passes may
  deliver one record, or both start from a cursor the other moves (`together`, `rewound`).
- The bridge looks only into the recipient's own inbox. When another session has adopted the
  original, the host's own lane brings it back, and the heir that adopts that copy as well has
  the message twice (`git_bridge.py:22` says that a daemon never re-delivers what it published).
- While a clone has commits it could not push, `merge --ff-only` does nothing and the
  host receives nothing either. `CaughtUp` exempts it for as long.
- A standby daemon loads ledger and cursor before it gets the host lock
  (`bin/dispatch-gitsync:531`); after a takeover records are handled again and a message
  that was acked can come back. `HandledOnce` exempts the hosts where that happened (`rewound`).
- A message published twice, because a daemon died before it saved its ledger, comes
  back on another host if it was acked or adopted between the two deliveries: the
  inbox is all that is compared with.
- Ledger entries of the git bridge last 14 days (`git_bridge.py:46`), unread mail of an
  absent session longer; it is then published again. That is not modelled there (it is in
  `NativeBridge`).
- A starting session removes a live peer's empty inbox (`server.py:710`). Its sweeper's
  renames then fail until somebody writes to the peer, so the docstring's "for as long as
  this session lives" (`server.py:1457`) does not hold; `OrphansAdopted` asks for the directory.
- A claimer that dies with the marker still empty leaves a task nobody can claim
  (`server.py:1088`; the documentation speaks of no lock to leak, `README.md:256`).
- Two writers of one path share its `.tmp` name (`dispatch_fs.py:57`): the properties of
  `AtomicWrite` are for calls that do not overlap (`OneAtATime`).
- A push that failed is tried again only by a pass that publishes something new, or after
  a restart (`git_bridge.py:230`; its comment at 146 says the next pass).
- The supervisor's breaker, cooldown and ceiling live in memory (`supervisor.py:586`): a
  restarted daemon starts over, as `Restart` does in the model.
- An adopted message keeps the dead session's id in `to` (`server.py:808`); a watch with
  the `direct` policy does not report it. `Heard` is about mail the policy notifies on.
- The Stop hook gives up after `MAX_BLOCKS`, also when each watch it asked for fired at once,
  a lock left by a predecessor's watch satisfies it (`hooks/dispatch-arm.py:132`, `:143`), and so
  does the momentary lock of another probe, such as another session's `who()` (`server.py:2074`,
  `dispatch_common.py:439`): the session then parks with no watch at all.
- A watch that dies between its record and its report has silenced those messages
  (`bin/dispatch-wait:355`).
- Several sessions in one directory: without an id in its environment a hook may decline, or
  take a sibling for its own session before its own has claimed (`dispatch_common.py:238`);
  only the first is modelled.
- Two overlapping updates of a nick's record lose one of them (`server.py:594`): rooms are undone,
  or a session is dropped, which the bridge then takes for another host's. `RoomsKept` and
  `LocalNeverRemote` exempt exactly those (`wish`, `excused`). Updates overlap when two sessions
  of a nick start, join rooms or end together, and when one gets SIGTERM in the middle of an
  update: the handler stamps the record, and the exit that follows stamps it a second time
  after the presence lock is gone (`server.py:1563`).
- Two sessions of a nick that start at once rejoin no recorded rooms: each finds the other alive
  (`server.py:312`). `RoomsKept` is about a session that finds none.
- A post writes its subscribers one after the other; a write that meets an inbox just removed
  (`server.py:710`) raises, and those not yet reached get no copy (`dispatch_fs.py:404`). The same
  holds for every other fan-out. `PostReaches` is about posts that return.
- Mail can be written to an id that is no longer alive: by the bridge, which does not ask
  (`git_bridge.py:298`), by a sender that resolved the id before, or to an id the roster lists. It
  waits for adoption; an id the record has forgotten, because its inbox was empty and removed,
  may be listed as remote, and its mail is then out of the reach of adoption until
  `recover-stranded-mail.py` runs (`excused`). In `NativeBridge`, mail that arrives for a session
  of this host after its death may be written off (`bridge_native.py:681`):
  `OnlyLocalIsSkipped` exempts ids that have been live here.
- The `subscribe` tool calls subscriptions ephemeral (`server.py:2271`); a nick's next session
  rejoins them (`server.py:312`).
- A second sending over the native bus is possible whenever the ledger lost the entry: death
  before the save, a standby with an old copy (`bin/dispatch-ucbridge:405`), 14 days. Two
  relays that start a listener of one name together can take the socket from each other
  (`bridge_native.py:442`); `OwnsItsName` is for `SerialStart`. `--once` takes no host lock and
  is modelled as running alone.

## Proofs

The proofs hold for every value of the constants (any number of sessions, nicks,
messages, agents, processes, limits). Each follows the same plan: an inductive
invariant, one step per action, and the property as a consequence.

- **Relay** (`RelayInv`). `NothingLost` and `AdoptedOnce` are not inductive alone.
  The rewrite of an adopted file would create a second copy if anyone else could
  have it in the meantime, so `TaggingExclusive` says that between rename and
  rewrite the file is the adopter's alone; `SweepDead` says that what a pass has
  listed lies in inboxes dead for good, so that a rename never takes from a live
  session; `SendsInOrder` and `FilesClaimed` say that nobody writes to a session
  before it has claimed, so that such an inbox is not mistaken for a corpse. The
  action properties `LiveMailStays` and `OnlyUnreadInherited` follow from
  `FilesStep`, one lemma on what a step may do to a file. That a must_read copy never lapses
  is part of the invariant because the refinement needs it.
- **Relay implements Mailbox** (`RelayImplementsMailbox`). Each action maps to one step of
  `Mailbox` or to a stutter: writes to `Send`, the reading of an inbox to `Attend`, a rename
  to `Inherit`, the rewrite to `Settle`. The lemmas before it compute the life of a copy from
  its files; they need `RelayInv` because a copy in two inboxes would have two lives.
- **Tasks** (`ClaimInv`). A claim past its exclusive create owns the marker, and the marker
  names everyone who was told that the task is theirs.
- **Presence** (`PresenceInv`), for any number of sessions of this id and of others and every
  interleaving of their start-ups. For a claim that crossed no reap: the file it has open is
  the one the path leads to, nobody is about to unlink it, and a reaper that could still take
  the name away has the very inode open that the claim is on, so that its try-lock fails.
  That is what makes `OneHolder`, `HolderVisible`, `ReapsOnlyTheDead` and `DeadIsDead` (a probe's
  "dead" is true, so that adoption, which acts on it, does not take from the living) hold.
- **AtomicWrite** (`AtomicInv`), under `OneAtATime`: every directory a power loss
  may bring back is sound, that is its file is whole on disk and is not the one
  being written. `WriteImplementsFile` maps each system call to a step of `DurableFile` or a
  stutter: no call but the rename changes what a reader gets, none but the directory's fsync
  narrows what a power loss can leave.
- **Supervisor** (`SupervisorInv`). Failures are below the limit unless parked, and
  starts since the last success are matched by failures, but for one in flight. `SlotsExpire`
  is inductive with the types: a pass resolves a nick before it goes on to the next, and a pass
  begins at the first.
  `CooldownIsKept` needs `Cooldown <= Window`: a longer one is forgotten by `prune`.
- **GitBridge** (`BridgeInv`, standby daemons and `--once` passes included). `NoTwins` needs
  `BatchKnown`: while a batch is delivered, what of it lies in the inbox is known, because nobody
  else delivers (`OneServes`: the lock's holder, unless the host is in `together`) and no message
  can be sent that is already in a lane (`Provenance`). `Prefixes` bounds what can be read.
  `NoSilentDrop` rests on `LedgersHonest`: a host not yet enabled has no late messages.
  `HandledOnce` needs `CursorInv`: the saved cursor is past everything handled or in hand, and
  two batches share a record only on a host in `rewound`. `NothingSkipped` has no such
  exception: `SkipInv` says the same of the cursors in memory, so that a daemon
  that takes over with an old cursor saves one that is still honest. Its one lemma, `SkipStep`,
  goes by what a step can do to a cursor (`Changes`).
- **Registry**, for any number of sessions, whose updates of the record overlap freely. `OwedInv`
  (whoever the post owes a copy has its record whole, and the post has still to read it, has it
  on its list, or is writing to it), `RoomsInv` (the rooms recorded last and not undone are in the
  record) and `RosterInv` (until it loses its directory or is dropped, a session that has
  registered is in the record) are inductive with the types.
- **NativeBridge**. `SendsInv` follows the ledger that decides: the lock holder's, or else the
  file the next daemon loads; what is not in it has been sent only as often as its entry was
  lost. `LockInv` says that those are the only two cases, `NoFileInv` that nothing is recorded
  before the bridge is enabled. `NameInv`, under `SerialStart`: nobody listens on a path that
  was probed and is not yet bound.

- **Watch** (`WatchInv`), for both modes, any policy and any cap. `NeverParksDeaf` needs that
  the lock is never left with a watch that has ended (`WatchesSane`) and that a session does not
  stop before it has claimed (`StartsBusy`). `SilencedIsAccounted` says of everything that
  keeps a message from being reported (the record, the copy a one-shot watch took of it, what a
  streaming watch has printed) that the session has heard of the message, is about to, or that it
  was lost with a watch or a session; it needs that whatever outlives a session is an orphan
  (`StrayAreOrphans`), for what an orphan prints reaches nobody. `RecordIsTold` is part of it.
  `NeverStuckUnheard` combines the two: the watch that `NeverParksDeaf` finds would report the
  message, unless it holds it back; then another watch is reporting it, because output that is
  already there comes with a wake (`OutputWakes`).

Only model-checked: the liveness properties `OrphansAdopted`, `MailAnswered`, `CaughtUp` and
`Heard`, which need fairness, and the finding. Of three of them a part that is safety is proved:
`SlotsExpire` (a start that hangs does not keep its slot, the way `MailAnswered` could fail for a
nick's neighbours), `NothingSkipped` (a record is never passed over, so that `CaughtUp` is only
about going on) and `NeverStuckUnheard` (a parked session never waits for mail that nothing is bringing, so that
`Heard` is only about the steps under way being taken). There are no axioms; the assumptions on
constants are the named ASSUMEs, and TLC evaluates them in every run.

## What is not modelled

- Failing disks and other I/O errors except missing files and directories and failing passes;
  clock jumps; the contents of messages; formatting of what tools return; parsing and
  validation of configuration.
- Roster mode and the ownership test of `group_mode`; channel lanes of the git bridge.
- Receipts and duplicate suppression (`_get_sent_receipts`, `_unread_duplicate`): a scan of all
  inboxes compared with a table in memory, which can only keep a message from being sent.
- The desktop notifier and the peek hook, which run a command or print and keep no state a
  session reads.
- The Go client and the IRC gateway under `tui/`: the client repeats the protocol's file
  operations; the gateway's nick claims and output queues are a system of their own and the
  first thing to add.
- Installers, services, the activity digest, the CI gate router: no protocol of their own.

`PROJECT.json` lists every component with its status.
