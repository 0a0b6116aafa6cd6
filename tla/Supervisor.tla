----------------------------- MODULE Supervisor -----------------------------
(***************************************************************************)
(* The daemon that starts an agent when mail waits and nobody is home      *)
(* (supervisor.py, class Supervisor; bin/dispatch-supervise, cmd_run).     *)
(*                                                                         *)
(* Time is counted in polling intervals and kept as ages: how long ago a   *)
(* start was made, how long one has been waited for.  A pass over the      *)
(* nicks takes less than an interval, and the daemon reads the clock once  *)
(* per pass, but sessions, their launchers and mail come and go during it. *)
(***************************************************************************)
EXTENDS Naturals, FiniteSets

CONSTANTS
    N,              \* nicks with a [supervisor.agents] block
    Window,         \* RATE_WINDOW_SECONDS
    Cooldown, StartTimeout, MaxFailures,
    MaxStarts,      \* max_starts_per_hour
    MaxConcurrent   \* max_concurrent_starts

\* supervisor._num refuses a limit that is not positive.
ASSUME LimitsOK ==
    /\ {N, Window, Cooldown, StartTimeout, MaxFailures, MaxStarts, MaxConcurrent} \subseteq Nat \ {0}

\* The allowlist, in the order of the configuration, which is the order of a pass.
Nicks == 1 .. N

VARIABLES
    (* NickState, one per nick *)
    starts,    \* ages of the starts within the window
    failures,  \* failed starts since the last success
    inFlight,  \* nicks with a start under way (awaiting_since is set)
    waited,    \* for how long, capped past StartTimeout
    parked,    \* nicks whose breaker has tripped
    proc,      \* the child of the last start, as poll() sees it
    (* the pass *)
    pc,
    at,        \* the nick being visited, or the first one
    sawLive,   \* what is_live answered for the nick being visited
    (* the world *)
    live,      \* nicks with a live session
    mail,      \* nicks with pending mail a new session would inherit
    (* history, of this daemon *)
    since,     \* age of each nick's last start, capped at Cooldown
    tries      \* starts since the last one that was seen to succeed

nickVars == <<starts, failures, inFlight, waited, parked, proc>>
passVars == <<pc, at, sawLive>>
world == <<live, mail>>
history == <<since, tries>>
vars == <<nickVars, passVars, world, history>>

TypeOK ==
    /\ starts \in [Nicks -> SUBSET (0 .. Window - 1)]
    /\ failures \in [Nicks -> Nat]
    /\ inFlight \subseteq Nicks
    /\ waited \in [Nicks -> 0 .. StartTimeout + 1]
    /\ parked \subseteq Nicks
    /\ proc \in [Nicks -> {"none", "running", "exited"}]
    /\ pc \in {"asleep", "look", "resolve", "decide"}
    /\ at \in Nicks
    /\ sawLive \subseteq Nicks
    /\ live \subseteq Nicks
    /\ mail \subseteq Nicks
    /\ since \in [Nicks -> 0 .. Cooldown]
    /\ tries \in [Nicks -> Nat]

Zero == [n \in Nicks |-> 0]

\* Supervisor.__init__: nothing is remembered of an earlier daemon.
Init ==
    /\ starts = [n \in Nicks |-> {}] /\ failures = Zero
    /\ inFlight = {} /\ waited = Zero
    /\ parked = {} /\ proc = [n \in Nicks |-> "none"]
    /\ pc = "asleep" /\ at = 1 /\ sawLive = {}
    /\ since = [n \in Nicks |-> Cooldown] /\ tries = Zero
    /\ live = {} /\ mail = {}

\* A crash, or an upgrade; the runtimes it started live on.
Restart ==
    /\ starts' = [n \in Nicks |-> {}] /\ failures' = Zero
    /\ inFlight' = {} /\ waited' = Zero
    /\ parked' = {} /\ proc' = [n \in Nicks |-> "none"]
    /\ pc' = "asleep" /\ at' = 1 /\ sawLive' = {}
    /\ since' = [n \in Nicks |-> Cooldown] /\ tries' = Zero
    /\ UNCHANGED world

-----------------------------------------------------------------------------
(* The pass: Supervisor.tick.                                              *)

\* An interval goes by.  The window forgets the starts that fall out of it.
Elapse ==
    /\ starts' = [n \in Nicks |-> {a + 1 : a \in starts[n]} \cap (0 .. Window - 1)]
    /\ waited' = [n \in Nicks |-> IF n \in inFlight /\ waited[n] <= StartTimeout
                                  THEN waited[n] + 1 ELSE waited[n]]
    /\ since' = [n \in Nicks |-> IF since[n] < Cooldown THEN since[n] + 1 ELSE since[n]]

\* time.sleep returns and the next pass begins.
Wake ==
    /\ pc = "asleep"
    /\ Elapse
    /\ pc' = "look"
    /\ UNCHANGED <<failures, inFlight, parked, proc, at, sawLive, world, tries>>

\* The daemon sleeps on: a suspended machine, a stopped process.
Oversleep ==
    /\ pc = "asleep"
    /\ Elapse
    /\ UNCHANGED <<failures, inFlight, parked, proc, passVars, world, tries>>

\* is_live
Look(n) ==
    /\ pc = "look" /\ at = n
    /\ sawLive' = live \cap {n}
    /\ pc' = "resolve"
    /\ UNCHANGED <<nickVars, at, world, history>>

Succeeded(n) ==
    /\ inFlight' = inFlight \ {n}
    /\ waited' = [waited EXCEPT ![n] = 0]
    /\ failures' = [failures EXCEPT ![n] = 0]
    /\ tries' = [tries EXCEPT ![n] = 0]
    /\ UNCHANGED parked

Failed(n) ==
    /\ inFlight' = inFlight \ {n}
    /\ waited' = [waited EXCEPT ![n] = 0]
    /\ failures' = [failures EXCEPT ![n] = @ + 1]
    /\ parked' = IF failures[n] + 1 >= MaxFailures THEN parked \cup {n} ELSE parked
    /\ UNCHANGED tries

\* Mutant: a start that hangs is waited for without limit.
ResolvePatiently(n) ==
    IF n \notin inFlight THEN UNCHANGED <<inFlight, waited, failures, parked, tries>>
    ELSE IF n \in sawLive THEN Succeeded(n)
    ELSE IF proc[n] = "exited" THEN Failed(n)
    ELSE UNCHANGED <<inFlight, waited, failures, parked, tries>>

\* _resolve_in_flight.  A launcher that returns with its session up has
\* succeeded; a runtime that is too slow is left running.
ResolveInFlight(n) ==
    IF n \notin inFlight THEN UNCHANGED <<inFlight, waited, failures, parked, tries>>
    ELSE IF n \in sawLive THEN Succeeded(n)
    ELSE IF proc[n] = "exited" \/ waited[n] > StartTimeout THEN Failed(n)
    ELSE UNCHANGED <<inFlight, waited, failures, parked, tries>>

Resolve(n) ==
    /\ pc = "resolve" /\ at = n
    /\ ResolveInFlight(n)
    /\ proc' = [proc EXCEPT ![n] = IF @ = "exited" THEN "none" ELSE @]
    /\ pc' = "decide"
    /\ UNCHANGED <<starts, at, sawLive, world, since>>

\* Mutant: the cooldown ends an interval early.
CoolingShort(n) == \E a \in starts[n] : a + 1 < Cooldown

Cooling(n) == \E a \in starts[n] : a < Cooldown

\* Mutant: the hourly ceiling is off by one.
DueOnceMore(n) ==
    /\ n \notin parked \cup sawLive \cup inFlight /\ n \in mail
    /\ ~Cooling(n)
    /\ Cardinality(starts[n]) <= MaxStarts
    /\ Cardinality(inFlight) < MaxConcurrent

\* Mutant: starts under way are not counted.
DueUncapped(n) ==
    /\ n \notin parked \cup sawLive \cup inFlight /\ n \in mail
    /\ ~Cooling(n)
    /\ Cardinality(starts[n]) < MaxStarts

\* decide: whether n is to be started now.
Due(n) ==
    /\ n \notin parked
    /\ n \notin sawLive
    /\ n \notin inFlight
    /\ n \in mail
    /\ ~Cooling(n)
    /\ Cardinality(starts[n]) < MaxStarts
    /\ Cardinality(inFlight) < MaxConcurrent

Visited ==
    /\ pc' = IF at = N THEN "asleep" ELSE "look"
    /\ at' = IF at = N THEN 1 ELSE at + 1
    /\ sawLive' = {}
    /\ UNCHANGED world

Skip(n) ==
    /\ pc = "decide" /\ at = n /\ ~Due(n)
    /\ Visited
    /\ UNCHANGED <<nickVars, history>>

\* _start: the child is spawned ...
Start(n) ==
    /\ pc = "decide" /\ at = n /\ Due(n)
    /\ starts' = [starts EXCEPT ![n] = @ \cup {0}]
    /\ inFlight' = inFlight \cup {n}
    /\ waited' = [waited EXCEPT ![n] = 0]
    /\ proc' = [proc EXCEPT ![n] = "running"]
    /\ since' = [since EXCEPT ![n] = 0]
    /\ tries' = [tries EXCEPT ![n] = @ + 1]
    /\ Visited
    /\ UNCHANGED <<failures, parked>>

\* ... or check_spec or the spawn itself fails, which is no start.
StartFails(n) ==
    /\ pc = "decide" /\ at = n /\ Due(n)
    /\ Failed(n)
    /\ Visited
    /\ UNCHANGED <<starts, proc, since>>

-----------------------------------------------------------------------------
(* The world: started runtimes, sessions opened by hand, and mail.         *)

ChildExits(n) ==
    /\ proc[n] = "running"
    /\ proc' = [proc EXCEPT ![n] = "exited"]
    /\ UNCHANGED <<starts, failures, inFlight, waited, parked, passVars, world, history>>

\* A session claims its presence.
SessionOpens(n) ==
    /\ n \notin live
    /\ live' = live \cup {n}
    /\ UNCHANGED <<nickVars, passVars, mail, history>>

\* The last session of n ends; what it had not read waits for the next.
SessionEnds(n) ==
    /\ n \in live
    /\ live' = live \ {n}
    /\ mail' \in {mail, mail \cup {n}}
    /\ UNCHANGED <<nickVars, passVars, history>>

MailArrives(n) ==
    /\ n \notin mail
    /\ mail' = mail \cup {n}
    /\ UNCHANGED <<nickVars, passVars, live, history>>

\* A live session has adopted it, or it has expired.
MailGone(n) ==
    /\ n \in mail
    /\ mail' = mail \ {n}
    /\ UNCHANGED <<nickVars, passVars, live, history>>

-----------------------------------------------------------------------------
Visit(n) == Look(n) \/ Resolve(n) \/ Skip(n) \/ Start(n) \/ StartFails(n)

World(n) ==
    ChildExits(n) \/ SessionOpens(n) \/ SessionEnds(n) \/ MailArrives(n) \/ MailGone(n)

Next ==
    \/ Wake \/ Oversleep \/ Restart
    \/ \E n \in Nicks : Visit(n) \/ World(n)

Spec == Init /\ [][Next]_vars

\* The loop of cmd_run goes on, and the daemon is not restarted for ever.
FairSpec ==
    /\ Spec
    /\ WF_vars(Wake)
    /\ WF_vars(\E n \in Nicks : Visit(n))
    /\ <>[][~Restart]_vars

-----------------------------------------------------------------------------
(* Properties.                                                             *)

\* "max_concurrent_starts caps how many nicks may be starting at once".
ConcurrencyCap == Cardinality(inFlight) <= MaxConcurrent

\* However much mail arrives and however runtimes behave, a nick is started at
\* most max_starts_per_hour times in an hour.
HourlyCeiling == \A n \in Nicks : Cardinality(starts[n]) <= MaxStarts

\* "a breaker that parks a nick after repeated failures": a runtime that never
\* comes up costs at most max_failures starts.
BreakerBounds == \A n \in Nicks : tries[n] <= MaxFailures

\* The pass under way has come to n and resolved what it was waiting for.
Seen(n) == pc # "asleep" /\ (n < at \/ (n = at /\ pc = "decide"))

\* A runtime that hangs does not keep its concurrent start: from where the pass
\* has come to it, a nick that still counts as starting is not overdue, so the
\* nicks after it are decided by starts that may yet succeed.
SlotsExpire == \A n \in inFlight : Seen(n) => waited[n] <= StartTimeout

NewStarts == inFlight' \ inFlight

\* "cooldown is the minimum gap between two starts of one nick".
CooldownKept == [][\A n \in NewStarts : since[n] >= Cooldown]_vars

\* Mail for a nick with nobody home is answered by a start unless the nick is
\* parked, also when a broken neighbour keeps taking the last concurrent start.
MailAnswered ==
    \A n \in Nicks :
        n \in mail \ (live \cup parked)
            ~> (n \in inFlight \cup live \cup parked \/ n \notin mail)

\* The inductive invariant behind the limits.
SupervisorInv ==
    /\ TypeOK
    /\ ConcurrencyCap
    /\ HourlyCeiling
    /\ SlotsExpire
    /\ pc = "asleep" => at = 1
    /\ parked \cap inFlight = {}
    /\ \A n \in Nicks :
         /\ failures[n] <= MaxFailures
         /\ n \notin parked => failures[n] < MaxFailures
         /\ n \in inFlight => tries[n] <= failures[n] + 1
         /\ n \notin inFlight => tries[n] <= failures[n]
         /\ since[n] < Cooldown => since[n] \in starts[n] \/ since[n] >= Window

=============================================================================
