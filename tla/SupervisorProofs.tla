-------------------------- MODULE SupervisorProofs --------------------------
(***************************************************************************)
(* The supervisor's limits, for any allowlist and any setting of them.     *)
(***************************************************************************)
EXTENDS Supervisor, FiniteSetTheorems, TLAPS

\* The limits are positive numbers.
LEMMA Limits ==
    /\ N \in Nat \ {0} /\ Window \in Nat \ {0} /\ Cooldown \in Nat \ {0}
    /\ StartTimeout \in Nat \ {0} /\ MaxFailures \in Nat \ {0}
    /\ MaxStarts \in Nat \ {0} /\ MaxConcurrent \in Nat \ {0}
<1> QED
  BY LimitsOK

\* The nicks starting are finitely many.
LEMMA FewNicks == ASSUME NEW S \in SUBSET Nicks PROVE IsFiniteSet(S)
<1>1. IsFiniteSet(1 .. N)
  BY Limits, FS_Interval
<1> QED
  BY <1>1, FS_Subset DEF Nicks

\* The starts remembered are finitely many.
LEMMA FewStarts == ASSUME NEW S \in SUBSET (0 .. Window - 1) PROVE IsFiniteSet(S)
<1>1. IsFiniteSet(0 .. Window - 1)
  BY Limits, FS_Interval
<1> QED
  BY <1>1, FS_Subset

\* One more element makes a set at most one larger.
LEMMA AddOne ==
    ASSUME NEW S, NEW x, IsFiniteSet(S)
    PROVE  /\ Cardinality(S) \in Nat /\ Cardinality(S \cup {x}) \in Nat
           /\ Cardinality(S \cup {x}) <= Cardinality(S) + 1
<1>1. Cardinality(S) \in Nat
  BY FS_CardinalityType
<1>2. CASE x \in S
  <2>1. S \cup {x} = S
    BY <1>2
  <2> QED
    BY <1>1, <2>1
<1>3. CASE x \notin S
  <2>1. Cardinality(S \cup {x}) = Cardinality(S) + 1
    BY <1>3, FS_AddElement
  <2> QED
    BY <1>1, <2>1
<1> QED
  BY <1>2, <1>3

\* Time adds no start to the window.
LEMMA ShiftCount ==
    ASSUME NEW S \in SUBSET (0 .. Window - 1)
    PROVE  LET T == {a + 1 : a \in S} \cap (0 .. Window - 1)
           IN  Cardinality(T) <= Cardinality(S)
<1> DEFINE T == {a + 1 : a \in S} \cap (0 .. Window - 1)
           f == [b \in T |-> b - 1]
<1>1. \A b \in T : b \in Int /\ b - 1 \in S
  OBVIOUS
<1>2. f \in [T -> S]
  BY <1>1
<1>3. \A b, c \in T : f[b] = f[c] => b = c
  BY <1>1
<1>4. f \in Injection(T, S)
  BY <1>2, <1>3 DEF Injection, IsInjective
<1> QED
  BY <1>4, FewStarts, FS_Injection

\* Every step keeps the variables in their types.
LEMMA SupervisorTypes == TypeOK /\ [Next]_vars => TypeOK'
<1> SUFFICES ASSUME TypeOK, [Next]_vars PROVE TypeOK'
  OBVIOUS
<1>a. 1 \in Nicks /\ \A n \in Nicks : n # N => n + 1 \in Nicks
  BY Limits DEF Nicks
<1>b. Visited => at' \in Nicks /\ pc' \in {"asleep", "look"} /\ sawLive' = {} /\ UNCHANGED <<live, mail>>
  BY <1>a DEF Visited, TypeOK, world
<1> USE Limits DEF TypeOK, Zero, world, history, nickVars, passVars
<1>c. Elapse =>
        /\ starts' \in [Nicks -> SUBSET (0 .. Window - 1)]
        /\ waited' \in [Nicks -> 0 .. StartTimeout + 1]
        /\ since' \in [Nicks -> 0 .. Cooldown]
  BY DEF Elapse
<1>1. CASE Wake
  BY <1>1, <1>c DEF Wake
<1>2. CASE Oversleep
  BY <1>2, <1>c DEF Oversleep
<1>3. CASE Restart
  BY <1>3, <1>a DEF Restart
<1>d. ASSUME NEW n \in Nicks, Failed(n) \/ Succeeded(n)
      PROVE  /\ inFlight' \subseteq Nicks /\ parked' \subseteq Nicks
             /\ waited' \in [Nicks -> 0 .. StartTimeout + 1]
             /\ failures' \in [Nicks -> Nat] /\ tries' \in [Nicks -> Nat]
  BY <1>d DEF Failed, Succeeded
<1>4. ASSUME NEW n \in Nicks, Look(n) PROVE TypeOK'
  BY <1>4 DEF Look
<1>5. ASSUME NEW n \in Nicks, Resolve(n) PROVE TypeOK'
  <2>1. CASE Failed(n) \/ Succeeded(n)
    BY <1>5, <2>1, <1>d DEF Resolve
  <2>2. CASE UNCHANGED <<inFlight, waited, failures, parked, tries>>
    BY <1>5, <2>2 DEF Resolve
  <2> QED
    BY <1>5, <2>1, <2>2 DEF Resolve, ResolveInFlight
<1>6. ASSUME NEW n \in Nicks, Skip(n) PROVE TypeOK'
  BY <1>6, <1>b DEF Skip
<1>7. ASSUME NEW n \in Nicks, Start(n) PROVE TypeOK'
  BY <1>7, <1>b DEF Start
<1>8. ASSUME NEW n \in Nicks, StartFails(n) PROVE TypeOK'
  BY <1>8, <1>b, <1>d DEF StartFails
<1>9. ASSUME NEW n \in Nicks, World(n) PROVE TypeOK'
  BY <1>9 DEF World, ChildExits, SessionOpens, SessionEnds, MailArrives, MailGone
<1>10. CASE UNCHANGED vars
  BY <1>10 DEF vars
<1> QED
  BY <1>1, <1>2, <1>3, <1>4, <1>5, <1>6, <1>7, <1>8, <1>9, <1>10 DEF Next, Visit

\* Removing a nick from those starting, or leaving them alone, keeps the cap.
LEMMA FewerInFlight ==
    ASSUME TypeOK, ConcurrencyCap, NEW S \in SUBSET inFlight
    PROVE  Cardinality(S) <= MaxConcurrent
<1>1. IsFiniteSet(inFlight)
  BY FewNicks DEF TypeOK
<1>2. Cardinality(S) <= Cardinality(inFlight) /\ Cardinality(S) \in Nat /\ Cardinality(inFlight) \in Nat
  BY <1>1, FS_Subset, FS_CardinalityType
<1> QED
  BY <1>2, Limits DEF ConcurrencyCap

\* Every step keeps the order of the pass, and what it has come to not overdue.
LEMMA SlotStep ==
    ASSUME TypeOK, SlotsExpire, pc = "asleep" => at = 1, [Next]_vars, TypeOK'
    PROVE  SlotsExpire' /\ (pc = "asleep" => at = 1)'
<1>0. /\ N \in Nat \ {0} /\ Nicks \subseteq Nat /\ at \in 1 .. N
      /\ inFlight \subseteq Nicks /\ waited \in [Nicks -> 0 .. StartTimeout + 1]
      /\ StartTimeout \in Nat
  <2>1. N \in Nat \ {0} /\ StartTimeout \in Nat
    BY Limits
  <2>2. Nicks \subseteq Nat
    BY <2>1 DEF Nicks
  <2> QED
    BY <2>1, <2>2 DEF TypeOK, Nicks
<1> USE DEF SlotsExpire, Seen
<1>1. CASE Wake \/ Oversleep
  <2>1. at' = 1 /\ pc' # "decide"
    BY <1>1 DEF Wake, Oversleep, passVars
  <2>2. \A n \in inFlight' : n >= 1 /\ n \in Nat
    BY DEF TypeOK, Nicks
  <2> QED
    BY <2>1, <2>2
<1>2. CASE Restart
  BY <1>2 DEF Restart
<1>3. ASSUME NEW n \in Nicks, Look(n)
      PROVE  SlotsExpire' /\ (pc = "asleep" => at = 1)'
  BY <1>0, <1>3 DEF Look, nickVars
<1>4. ASSUME NEW n \in Nicks, Resolve(n)
      PROVE  SlotsExpire' /\ (pc = "asleep" => at = 1)'
  <2>1. ASSUME NEW m \in inFlight', m # n
        PROVE  m \in inFlight /\ waited'[m] = waited[m]
    BY <1>0, <1>4, <2>1 DEF Resolve, ResolveInFlight, Succeeded, Failed
  <2>2. n \in inFlight' => waited'[n] <= StartTimeout
    BY <1>0, <1>4 DEF Resolve, ResolveInFlight, Succeeded, Failed
  <2> QED
    BY <1>0, <1>4, <2>1, <2>2 DEF Resolve
<1>5. ASSUME NEW n \in Nicks, Skip(n) \/ Start(n) \/ StartFails(n)
      PROVE  SlotsExpire' /\ (pc = "asleep" => at = 1)'
  <2>1. /\ pc = "decide"
        /\ pc' = (IF at = N THEN "asleep" ELSE "look")
        /\ at' = (IF at = N THEN 1 ELSE at + 1)
    BY <1>5 DEF Skip, Start, StartFails, Visited
  <2>2. ASSUME NEW m \in inFlight'
        PROVE  (m \in inFlight /\ waited'[m] = waited[m]) \/ waited'[m] = 0
    BY <1>0, <1>5, <2>2 DEF Skip, Start, StartFails, Failed, nickVars
  <2>3. \A m \in inFlight' : m \in 1 .. N
    BY DEF TypeOK, Nicks
  <2> QED
    BY <1>0, <2>1, <2>2, <2>3
<1>6. ASSUME NEW n \in Nicks, World(n)
      PROVE  SlotsExpire' /\ (pc = "asleep" => at = 1)'
  BY <1>6 DEF World, ChildExits, SessionOpens, SessionEnds, MailArrives, MailGone,
     nickVars, passVars
<1>7. CASE UNCHANGED vars
  BY <1>7 DEF vars, nickVars, passVars
<1> QED
  BY <1>1, <1>2, <1>3, <1>4, <1>5, <1>6, <1>7 DEF Next, Visit

\* SupervisorInv is inductive.
LEMMA SupervisorStep == SupervisorInv /\ [Next]_vars => SupervisorInv'
<1> SUFFICES ASSUME SupervisorInv, [Next]_vars PROVE SupervisorInv'
  OBVIOUS
<1>0. TypeOK' /\ SlotsExpire' /\ (pc = "asleep" => at = 1)'
  BY SupervisorTypes, SlotStep DEF SupervisorInv
<1> USE <1>0, Limits DEF SupervisorInv
<1>1. CASE Wake \/ Oversleep
  <2> USE DEF Elapse, world, passVars
  <2>1. HourlyCeiling'
    <3> SUFFICES ASSUME NEW n \in Nicks PROVE Cardinality(starts'[n]) <= MaxStarts
      BY DEF HourlyCeiling
    <3>1. starts[n] \in SUBSET (0 .. Window - 1)
      BY DEF TypeOK
    <3>2. starts'[n] = {a + 1 : a \in starts[n]} \cap (0 .. Window - 1)
      BY <1>1 DEF Wake, Oversleep
    <3>3. starts'[n] \in SUBSET (0 .. Window - 1)
      BY <3>2
    <3>4. Cardinality(starts[n]) \in Nat /\ Cardinality(starts'[n]) \in Nat
      BY <3>1, <3>3, FewStarts, FS_CardinalityType
    <3>5. Cardinality(starts'[n]) <= Cardinality(starts[n])
      BY <3>1, <3>2, ShiftCount
    <3> QED
      BY <3>4, <3>5 DEF HourlyCeiling
  <2>2. ConcurrencyCap'
    BY <1>1 DEF Wake, Oversleep, ConcurrencyCap
  <2>3. \A n \in Nicks : since'[n] < Cooldown => since'[n] \in starts'[n] \/ since'[n] >= Window
    BY <1>1 DEF Wake, Oversleep, TypeOK
  <2> QED
    BY <1>1, <2>1, <2>2, <2>3 DEF Wake, Oversleep, TypeOK
<1>2. CASE Restart
  BY <1>2, FS_EmptySet DEF Restart, ConcurrencyCap, HourlyCeiling, Zero
<1>3. ASSUME NEW n \in Nicks, Failed(n), n \notin parked,
             UNCHANGED <<starts, since>>
      PROVE  SupervisorInv'
  <2>1. ConcurrencyCap'
    BY <1>3, FewerInFlight DEF Failed, ConcurrencyCap
  <2>2. HourlyCeiling'
    BY <1>3 DEF HourlyCeiling
  <2> QED
    BY <1>3, <2>1, <2>2 DEF Failed, TypeOK
<1>4. ASSUME NEW n \in Nicks, Resolve(n) PROVE SupervisorInv'
  <2>1. CASE n \in inFlight /\ n \in sawLive
    <3>1. ConcurrencyCap'
      BY <1>4, <2>1, FewerInFlight DEF Resolve, ResolveInFlight, Succeeded, ConcurrencyCap
    <3>2. HourlyCeiling'
      BY <1>4 DEF Resolve, HourlyCeiling
    <3> QED
      BY <1>4, <2>1, <3>1, <3>2 DEF Resolve, ResolveInFlight, Succeeded, TypeOK
  <2>2. CASE n \in inFlight /\ n \notin sawLive /\ (proc[n] = "exited" \/ waited[n] > StartTimeout)
    BY <1>3, <1>4, <2>2 DEF Resolve, ResolveInFlight
  <2>3. CASE UNCHANGED <<inFlight, waited, failures, parked, tries>>
    BY <1>4, <2>3 DEF Resolve, ConcurrencyCap, HourlyCeiling
  <2> QED
    BY <1>4, <2>1, <2>2, <2>3 DEF Resolve, ResolveInFlight
<1>5. ASSUME NEW n \in Nicks, Start(n) PROVE SupervisorInv'
  <2>1. ConcurrencyCap'
    <3>1. IsFiniteSet(inFlight)
      BY FewNicks DEF TypeOK
    <3>2. /\ Cardinality(inFlight) \in Nat /\ Cardinality(inFlight \cup {n}) \in Nat
          /\ Cardinality(inFlight \cup {n}) <= Cardinality(inFlight) + 1
      BY <3>1, AddOne
    <3> QED
      BY <1>5, <3>2 DEF Start, Due, ConcurrencyCap
  <2>2. HourlyCeiling'
    <3>1. IsFiniteSet(starts[n])
      BY FewStarts DEF TypeOK
    <3>2. /\ Cardinality(starts[n]) \in Nat /\ Cardinality(starts[n] \cup {0}) \in Nat
          /\ Cardinality(starts[n] \cup {0}) <= Cardinality(starts[n]) + 1
      BY <3>1, AddOne
    <3>3. Cardinality(starts[n] \cup {0}) <= MaxStarts
      BY <1>5, <3>2 DEF Start, Due
    <3> QED
      BY <1>5, <3>3 DEF Start, HourlyCeiling, TypeOK
  <2> QED
    BY <1>5, <2>1, <2>2 DEF Start, Due, TypeOK
<1>6. ASSUME NEW n \in Nicks, StartFails(n) PROVE SupervisorInv'
  BY <1>3, <1>6 DEF StartFails, Due
<1>7. ASSUME NEW n \in Nicks, Look(n) \/ Skip(n) \/ World(n) PROVE SupervisorInv'
  BY <1>7 DEF Look, Skip, World, ChildExits, SessionOpens, SessionEnds, MailArrives, MailGone,
     nickVars, history, passVars, ConcurrencyCap, HourlyCeiling
<1>8. CASE UNCHANGED vars
  BY <1>8 DEF vars, nickVars, history, ConcurrencyCap, HourlyCeiling
<1> QED
  BY <1>1, <1>2, <1>4, <1>5, <1>6, <1>7, <1>8 DEF Next, Visit

\* SupervisorInv holds throughout.
LEMMA SupervisorInvariance == Spec => []SupervisorInv
<1>1. Init => SupervisorInv
  BY Limits, FS_EmptySet
  DEF Init, SupervisorInv, TypeOK, ConcurrencyCap, HourlyCeiling, SlotsExpire, Zero, Nicks
<1> QED
  BY <1>1, SupervisorStep, PTL DEF Spec

\* The daemon's variables keep their types, for any number of nicks.
THEOREM SupervisorKeepsTypes == Spec => []TypeOK
<1>1. SupervisorInv => TypeOK
  BY DEF SupervisorInv
<1> QED
  BY <1>1, SupervisorInvariance, PTL

\* The daemon never has more than max_concurrent_starts nicks starting, whatever
\* comes and goes while it works through its list.
THEOREM ConcurrencyIsCapped == Spec => []ConcurrencyCap
<1>1. SupervisorInv => ConcurrencyCap
  BY DEF SupervisorInv
<1> QED
  BY <1>1, SupervisorInvariance, PTL

\* No flood of mail makes the daemon start a nick more than max_starts_per_hour
\* times in an hour.
THEOREM StartsAreRationed == Spec => []HourlyCeiling
<1>1. SupervisorInv => HourlyCeiling
  BY DEF SupervisorInv
<1> QED
  BY <1>1, SupervisorInvariance, PTL

\* A runtime that hangs never holds up the nicks after it past start_timeout.
THEOREM HungStartsLapse == Spec => []SlotsExpire
<1>1. SupervisorInv => SlotsExpire
  BY DEF SupervisorInv
<1> QED
  BY <1>1, SupervisorInvariance, PTL

\* A runtime that never comes up is started at most max_failures times.
THEOREM FailuresAreBounded == Spec => []BreakerBounds
<1>1. SupervisorInv => BreakerBounds
  BY Limits DEF SupervisorInv, BreakerBounds, TypeOK
<1> QED
  BY <1>1, SupervisorInvariance, PTL

\* The cooldown is the least gap between two starts of a nick, provided it is no
\* longer than the window whose starts are remembered.
THEOREM CooldownIsKept == ASSUME Cooldown <= Window PROVE Spec => CooldownKept
<1>1. SupervisorInv /\ [Next]_vars => [\A n \in NewStarts : since[n] >= Cooldown]_vars
  <2> SUFFICES ASSUME SupervisorInv, [Next]_vars, NEW n \in NewStarts
               PROVE  since[n] >= Cooldown
    OBVIOUS
  <2>1. PICK m \in Nicks : Start(m)
    BY DEF NewStarts, Next, vars, nickVars, passVars, world, history, Wake, Oversleep, Restart,
       Visit, Look, Resolve, ResolveInFlight, Succeeded, Failed, Skip, StartFails, World,
       ChildExits, SessionOpens, SessionEnds, MailArrives, MailGone
  <2>2. m = n /\ n \in Nicks
    BY <2>1 DEF Start, NewStarts
  <2> QED
    BY <2>1, <2>2, Limits DEF Start, Due, Cooling, SupervisorInv, TypeOK
<1> QED
  BY <1>1, SupervisorInvariance, PTL DEF Spec, CooldownKept

=============================================================================
