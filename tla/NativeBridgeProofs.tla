------------------------- MODULE NativeBridgeProofs -------------------------
(***************************************************************************)
(* The native bridge's promises, for any number of nicks, messages, peers  *)
(* and daemons, and any number of faults.                                  *)
(***************************************************************************)
EXTENDS NativeBridge, TLAPS

-----------------------------------------------------------------------------
(* Types.                                                                  *)

\* What was lost is counted in the same range.
LEMMA LostType == ASSUME TypeOK, NEW gone PROVE CountLost(gone) \in [Ids -> Nat]
  BY DEF TypeOK, CountLost

\* Every step keeps the types.
LEMMA TypeStep == TypeOK /\ [Next]_vars => TypeOK'
<1> SUFFICES ASSUME TypeOK, [Next]_vars PROVE TypeOK'
  OBVIOUS
<1> USE ConstantsOK, LostType DEF TypeOK, MailStates, Steps, Procs, Ids, Sessions,
        netVars, ledgerVars, tickVars, history
<1>1. ASSUME NEW d \in Daemons, Build(d) PROVE TypeOK'
  BY <1>1 DEF Build, LoadLedger, Backlog, LocalMessages
<1>2. ASSUME NEW d \in Daemons, TakeLock(d) PROVE TypeOK'
  BY <1>2 DEF TakeLock
<1>3. ASSUME NEW d \in Daemons, RunOnce(d) PROVE TypeOK'
  BY <1>3 DEF RunOnce
<1>4. ASSUME NEW d \in Daemons, GiveUp(d) PROVE TypeOK'
  BY <1>4 DEF GiveUp
<1>5. ASSUME NEW d \in Daemons, Sample(d) PROVE TypeOK'
  BY <1>5 DEF Sample, NativeSessions
<1>6. ASSUME NEW d \in Daemons, NEW n \in Nicks, ListInbox(d, n) PROVE TypeOK'
  BY <1>6 DEF ListInbox
<1>7. ASSUME NEW d \in Daemons, NEW i \in Ids, PassOver(d, i) PROVE TypeOK'
  BY <1>7 DEF PassOver, Looking
<1>8. ASSUME NEW d \in Daemons, NEW i \in Ids, WriteOff(d, i) PROVE TypeOK'
  BY <1>8 DEF WriteOff, Looking
<1>9. ASSUME NEW d \in Daemons, NEW i \in Ids, NotYet(d, i) PROVE TypeOK'
  BY <1>9 DEF NotYet, Looking
<1>10. ASSUME NEW d \in Daemons, NEW i \in Ids, NEW e \in Inbound, Send(d, i, e) PROVE TypeOK'
  BY <1>10 DEF Send, Looking, NativeToLocal
<1>11. ASSUME NEW d \in Daemons, EndTick(d) PROVE TypeOK'
  <2>1. CASE touched
    <3>1. lost' \in [Ids -> Nat]
      BY <1>11, <2>1, LostType DEF EndTick
    <3>2. ledger' \in [Daemons -> SUBSET Ids] /\ disk' \subseteq Ids
      BY <1>11, <2>1 DEF EndTick
    <3>3. pc' \in [Procs -> Steps]
      BY <1>11 DEF EndTick, TickOver
    <3>4. snapUp' = {} /\ snapLive' = {} /\ unscanned' = {} /\ todo' = {} /\ touched' \in BOOLEAN
      BY <1>11 DEF EndTick, TickOver, ForgetTick
    <3> QED
      BY <1>11, <3>1, <3>2, <3>3, <3>4 DEF EndTick
  <2>2. CASE ~touched
    BY <1>11, <2>2 DEF EndTick, TickOver, ForgetTick
  <2> QED
    BY <2>1, <2>2
<1>12. ASSUME NEW d \in Daemons, TickFails(d) PROVE TypeOK'
  BY <1>12 DEF TickFails, TickOver, ForgetTick
<1>13. ASSUME StartRival PROVE TypeOK'
  BY <1>13 DEF StartRival
<1>14. ASSUME NEW p \in Procs, NEW unlinked \in {{}, lis[p]}, Leave(p, unlinked) PROVE TypeOK'
  <2>1. CASE lock = p
    <3>1. lost' \in [Ids -> Nat]
      BY <1>14, <2>1, LostType DEF Leave
    <3> QED
      BY <1>14, <2>1, <3>1 DEF Leave, ForgetTick
  <2>2. CASE lock # p
    BY <1>14, <2>2 DEF Leave
  <2> QED
    BY <2>1, <2>2
<1>15. ASSUME NEW p \in Procs, NEW n \in Nicks, Probe(p, n) PROVE TypeOK'
  BY <1>15 DEF Probe
<1>16. ASSUME NEW p \in Procs, NEW n \in Nicks, Bind(p, n) PROVE TypeOK'
  BY <1>16 DEF Bind
<1>17. ASSUME NEW p \in Procs, Started(p) PROVE TypeOK'
  BY <1>17 DEF Started
<1>18. ASSUME NEW i \in Ids, Arrive(i) PROVE TypeOK'
  BY <1>18 DEF Arrive
<1>19. ASSUME NEW i \in Ids, Deliver(i) PROVE TypeOK'
  BY <1>19 DEF Deliver, NativeToLocal
<1>20. ASSUME NEW i \in Ids, Age(i) PROVE TypeOK'
  BY <1>20 DEF Age
<1>21. ASSUME NEW i \in Ids, NEW state \in MailStates, LocalRead(i, state) PROVE TypeOK'
  BY <1>21 DEF LocalRead
<1>22. ASSUME NEW n \in Nicks, LocalSession(n) PROVE TypeOK'
  BY <1>22 DEF LocalSession
<1>23. ASSUME NEW p \in Peers, NativeSession(p) PROVE TypeOK'
  BY <1>23 DEF NativeSession
<1>24. CASE UNCHANGED vars
  BY <1>24 DEF vars, netVars, ledgerVars, tickVars, history
<1> HIDE DEF TypeOK
<1> QED
  BY <1>1, <1>2, <1>3, <1>4, <1>5, <1>6, <1>7, <1>8, <1>9, <1>10, <1>11, <1>12, <1>13,
     <1>14, <1>15, <1>16, <1>17, <1>18, <1>19, <1>20, <1>21, <1>22, <1>23, <1>24 DEF
     Next, Tick, Life, Stop, Crash, Refuse

\* The bridge's variables keep their types.
THEOREM NativeBridgeTypes == Spec => []TypeOK
<1>1. Init => TypeOK
  <2> SUFFICES ASSUME Init PROVE TypeOK
    OBVIOUS
  <2>1. enabled \in BOOLEAN /\ touched \in BOOLEAN
    BY Zenon DEF Init
  <2>2. /\ mail \in [Ids -> MailStates]
        /\ pc \in [Procs -> Steps]
        /\ lis \in [Procs -> SUBSET Nicks]
        /\ probed \in [Procs -> Nicks \cup {NoOne}]
        /\ owner \in [Nicks -> Procs \cup {NoOne}]
        /\ ledger \in [Daemons -> SUBSET Ids]
        /\ sends \in [Ids -> Nat]
        /\ lost \in [Ids -> Nat]
    BY DEF Init, MailStates, Steps
  <2> QED
    BY <2>1, <2>2 DEF Init, TypeOK
<1> QED
  BY <1>1, TypeStep, PTL DEF Spec

-----------------------------------------------------------------------------
(* What came in does not go out.                                           *)

LEMMA EchoStep == TypeOK /\ NoEcho /\ [Next]_vars => NoEcho'
<1> SUFFICES ASSUME TypeOK, NoEcho, [Next]_vars PROVE NoEcho'
  OBVIOUS
<1> USE ConstantsOK DEF TypeOK, NoEcho, Ids, netVars, ledgerVars, tickVars, history
<1>1. ASSUME NEW d \in Daemons, Build(d) PROVE NoEcho'
  BY <1>1 DEF Build
<1>2. ASSUME NEW d \in Daemons, TakeLock(d) PROVE NoEcho'
  BY <1>2 DEF TakeLock
<1>3. ASSUME NEW d \in Daemons, RunOnce(d) PROVE NoEcho'
  BY <1>3 DEF RunOnce
<1>4. ASSUME NEW d \in Daemons, GiveUp(d) PROVE NoEcho'
  BY <1>4 DEF GiveUp
<1>5. ASSUME NEW d \in Daemons, Sample(d) PROVE NoEcho'
  BY <1>5 DEF Sample
<1>6. ASSUME NEW d \in Daemons, NEW n \in Nicks, ListInbox(d, n) PROVE NoEcho'
  BY <1>6 DEF ListInbox
<1>7. ASSUME NEW d \in Daemons, NEW i \in Ids, PassOver(d, i) PROVE NoEcho'
  BY <1>7 DEF PassOver
<1>8. ASSUME NEW d \in Daemons, NEW i \in Ids, WriteOff(d, i) PROVE NoEcho'
  BY <1>8 DEF WriteOff
<1>9. ASSUME NEW d \in Daemons, NEW i \in Ids, NotYet(d, i) PROVE NoEcho'
  BY <1>9 DEF NotYet
<1>10. ASSUME NEW d \in Daemons, NEW i \in Ids, NEW e \in Inbound, Send(d, i, e) PROVE NoEcho'
  BY <1>10 DEF Send, Looking, LocalMessages
<1>11. ASSUME NEW d \in Daemons, EndTick(d) PROVE NoEcho'
  BY <1>11 DEF EndTick
<1>12. ASSUME NEW d \in Daemons, TickFails(d) PROVE NoEcho'
  BY <1>12 DEF TickFails
<1>13. ASSUME StartRival PROVE NoEcho'
  BY <1>13 DEF StartRival
<1>14. ASSUME NEW p \in Procs, NEW unlinked \in {{}, lis[p]}, Leave(p, unlinked) PROVE NoEcho'
  BY <1>14 DEF Leave
<1>15. ASSUME NEW p \in Procs, NEW n \in Nicks, Probe(p, n) PROVE NoEcho'
  BY <1>15 DEF Probe
<1>16. ASSUME NEW p \in Procs, NEW n \in Nicks, Bind(p, n) PROVE NoEcho'
  BY <1>16 DEF Bind
<1>17. ASSUME NEW p \in Procs, Started(p) PROVE NoEcho'
  BY <1>17 DEF Started
<1>18. ASSUME NEW i \in Ids, Arrive(i) PROVE NoEcho'
  BY <1>18 DEF Arrive
<1>19. ASSUME NEW i \in Ids, Deliver(i) PROVE NoEcho'
  BY <1>19 DEF Deliver
<1>20. ASSUME NEW i \in Ids, Age(i) PROVE NoEcho'
  BY <1>20 DEF Age
<1>21. ASSUME NEW i \in Ids, NEW state \in MailStates, LocalRead(i, state) PROVE NoEcho'
  BY <1>21 DEF LocalRead
<1>22. ASSUME NEW n \in Nicks, LocalSession(n) PROVE NoEcho'
  BY <1>22 DEF LocalSession
<1>23. ASSUME NEW p \in Peers, NativeSession(p) PROVE NoEcho'
  BY <1>23 DEF NativeSession
<1>24. CASE UNCHANGED vars
  BY <1>24 DEF vars, netVars, ledgerVars, tickVars, history
<1> QED
  BY <1>1, <1>2, <1>3, <1>4, <1>5, <1>6, <1>7, <1>8, <1>9, <1>10, <1>11, <1>12, <1>13,
     <1>14, <1>15, <1>16, <1>17, <1>18, <1>19, <1>20, <1>21, <1>22, <1>23, <1>24 DEF
     Next, Tick, Life, Stop, Crash, Refuse

\* What a listener took in over the native bus is never sent back to it.
THEOREM NothingEchoes == Spec => []NoEcho
<1>1. Init => NoEcho
  BY DEF Init, NoEcho, Ids
<1> QED
  BY <1>1, EchoStep, NativeBridgeTypes, PTL DEF Spec

-----------------------------------------------------------------------------
(* Before the bridge is enabled.                                           *)

\* Without a ledger file no daemon has been built and nothing is recorded.
NoFileInv ==
    ~enabled => disk = {} /\ \A d \in Daemons : ledger[d] = {} /\ pc[d] = "off"

LEMMA NoFileStep == TypeOK /\ NoFileInv /\ [Next]_vars => NoFileInv'
<1> SUFFICES ASSUME TypeOK, NoFileInv, [Next]_vars PROVE NoFileInv'
  OBVIOUS
<1> USE ConstantsOK DEF TypeOK, NoFileInv, Procs, Steps, netVars, ledgerVars, tickVars,
        history
<1>1. ASSUME NEW d \in Daemons, Build(d) PROVE NoFileInv'
  BY <1>1 DEF Build
<1>2. ASSUME NEW d \in Daemons, TakeLock(d) PROVE NoFileInv'
  BY <1>2 DEF TakeLock
<1>3. ASSUME NEW d \in Daemons, RunOnce(d) PROVE NoFileInv'
  BY <1>3 DEF RunOnce
<1>4. ASSUME NEW d \in Daemons, GiveUp(d) PROVE NoFileInv'
  BY <1>4 DEF GiveUp
<1>5. ASSUME NEW d \in Daemons, Sample(d) PROVE NoFileInv'
  BY <1>5 DEF Sample
<1>6. ASSUME NEW d \in Daemons, NEW n \in Nicks, ListInbox(d, n) PROVE NoFileInv'
  BY <1>6 DEF ListInbox
<1>7. ASSUME NEW d \in Daemons, NEW i \in Ids, PassOver(d, i) PROVE NoFileInv'
  BY <1>7 DEF PassOver
<1>8. ASSUME NEW d \in Daemons, NEW i \in Ids, WriteOff(d, i) PROVE NoFileInv'
  BY <1>8 DEF WriteOff, Looking
<1>9. ASSUME NEW d \in Daemons, NEW i \in Ids, NotYet(d, i) PROVE NoFileInv'
  BY <1>9 DEF NotYet
<1>10. ASSUME NEW d \in Daemons, NEW i \in Ids, NEW e \in Inbound, Send(d, i, e) PROVE NoFileInv'
  BY <1>10 DEF Send, Looking
<1>11. ASSUME NEW d \in Daemons, EndTick(d) PROVE NoFileInv'
  BY <1>11 DEF EndTick, TickOver
<1>12. ASSUME NEW d \in Daemons, TickFails(d) PROVE NoFileInv'
  BY <1>12 DEF TickFails, TickOver
<1>13. ASSUME StartRival PROVE NoFileInv'
  BY <1>13 DEF StartRival
<1>14. ASSUME NEW p \in Procs, NEW unlinked \in {{}, lis[p]}, Leave(p, unlinked) PROVE NoFileInv'
  BY <1>14 DEF Leave
<1>15. ASSUME NEW p \in Procs, NEW n \in Nicks, Probe(p, n) PROVE NoFileInv'
  BY <1>15 DEF Probe
<1>16. ASSUME NEW p \in Procs, NEW n \in Nicks, Bind(p, n) PROVE NoFileInv'
  BY <1>16 DEF Bind
<1>17. ASSUME NEW p \in Procs, Started(p) PROVE NoFileInv'
  BY <1>17 DEF Started
<1>18. ASSUME NEW i \in Ids, Arrive(i) PROVE NoFileInv'
  BY <1>18 DEF Arrive
<1>19. ASSUME NEW i \in Ids, Deliver(i) PROVE NoFileInv'
  BY <1>19 DEF Deliver
<1>20. ASSUME NEW i \in Ids, Age(i) PROVE NoFileInv'
  BY <1>20 DEF Age
<1>21. ASSUME NEW i \in Ids, NEW state \in MailStates, LocalRead(i, state) PROVE NoFileInv'
  BY <1>21 DEF LocalRead
<1>22. ASSUME NEW n \in Nicks, LocalSession(n) PROVE NoFileInv'
  BY <1>22 DEF LocalSession
<1>23. ASSUME NEW p \in Peers, NativeSession(p) PROVE NoFileInv'
  BY <1>23 DEF NativeSession
<1>24. CASE UNCHANGED vars
  BY <1>24 DEF vars, netVars, ledgerVars, tickVars, history
<1> QED
  BY <1>1, <1>2, <1>3, <1>4, <1>5, <1>6, <1>7, <1>8, <1>9, <1>10, <1>11, <1>12, <1>13,
     <1>14, <1>15, <1>16, <1>17, <1>18, <1>19, <1>20, <1>21, <1>22, <1>23, <1>24 DEF
     Next, Tick, Life, Stop, Crash, Refuse

-----------------------------------------------------------------------------
(* One sending, up to the ledger.                                          *)

\* The daemons that have the host lock are those that run, and it is one.
LockInv ==
    \A d \in Daemons :
        lock = d <=> pc[d] \in {"starting", "idle", "once", "scanning", "done"}

\* The ledger that decides: the lock holder's, or the file a next one will load.
Deciding == IF lock \in Daemons THEN ledger[lock] ELSE disk

\* What the deciding ledger has not got has been sent only as often as its entry
\* was lost.
SendsInv ==
    \A i \in Ids :
        /\ sends[i] <= lost[i] + 1
        /\ i \notin Deciding => sends[i] <= lost[i]

LEMMA LockStep == TypeOK /\ LockInv /\ [Next]_vars => LockInv'
<1> SUFFICES ASSUME TypeOK, LockInv, [Next]_vars PROVE LockInv'
  OBVIOUS
<1> USE ConstantsOK DEF TypeOK, LockInv, Procs, Steps, netVars, ledgerVars, tickVars,
        history
<1>1. ASSUME NEW d \in Daemons, Build(d) PROVE LockInv'
  BY <1>1 DEF Build
<1>2. ASSUME NEW d \in Daemons, TakeLock(d) PROVE LockInv'
  BY <1>2 DEF TakeLock
<1>3. ASSUME NEW d \in Daemons, RunOnce(d) PROVE LockInv'
  BY <1>3 DEF RunOnce
<1>4. ASSUME NEW d \in Daemons, GiveUp(d) PROVE LockInv'
  BY <1>4 DEF GiveUp
<1>5. ASSUME NEW d \in Daemons, Sample(d) PROVE LockInv'
  BY <1>5 DEF Sample
<1>6. ASSUME NEW d \in Daemons, NEW n \in Nicks, ListInbox(d, n) PROVE LockInv'
  BY <1>6 DEF ListInbox
<1>7. ASSUME NEW d \in Daemons, NEW i \in Ids, PassOver(d, i) PROVE LockInv'
  BY <1>7 DEF PassOver
<1>8. ASSUME NEW d \in Daemons, NEW i \in Ids, WriteOff(d, i) PROVE LockInv'
  BY <1>8 DEF WriteOff
<1>9. ASSUME NEW d \in Daemons, NEW i \in Ids, NotYet(d, i) PROVE LockInv'
  BY <1>9 DEF NotYet
<1>10. ASSUME NEW d \in Daemons, NEW i \in Ids, NEW e \in Inbound, Send(d, i, e) PROVE LockInv'
  BY <1>10 DEF Send
<1>11. ASSUME NEW d \in Daemons, EndTick(d) PROVE LockInv'
  BY <1>11 DEF EndTick, TickOver
<1>12. ASSUME NEW d \in Daemons, TickFails(d) PROVE LockInv'
  BY <1>12 DEF TickFails, TickOver
<1>13. ASSUME StartRival PROVE LockInv'
  BY <1>13 DEF StartRival
<1>14. ASSUME NEW p \in Procs, NEW unlinked \in {{}, lis[p]}, Leave(p, unlinked) PROVE LockInv'
  BY <1>14 DEF Leave
<1>15. ASSUME NEW p \in Procs, NEW n \in Nicks, Probe(p, n) PROVE LockInv'
  BY <1>15 DEF Probe
<1>16. ASSUME NEW p \in Procs, NEW n \in Nicks, Bind(p, n) PROVE LockInv'
  BY <1>16 DEF Bind
<1>17. ASSUME NEW p \in Procs, Started(p) PROVE LockInv'
  BY <1>17 DEF Started
<1>18. ASSUME NEW i \in Ids, Arrive(i) PROVE LockInv'
  BY <1>18 DEF Arrive
<1>19. ASSUME NEW i \in Ids, Deliver(i) PROVE LockInv'
  BY <1>19 DEF Deliver
<1>20. ASSUME NEW i \in Ids, Age(i) PROVE LockInv'
  BY <1>20 DEF Age
<1>21. ASSUME NEW i \in Ids, NEW state \in MailStates, LocalRead(i, state) PROVE LockInv'
  BY <1>21 DEF LocalRead
<1>22. ASSUME NEW n \in Nicks, LocalSession(n) PROVE LockInv'
  BY <1>22 DEF LocalSession
<1>23. ASSUME NEW p \in Peers, NativeSession(p) PROVE LockInv'
  BY <1>23 DEF NativeSession
<1>24. CASE UNCHANGED vars
  BY <1>24 DEF vars, netVars, ledgerVars, tickVars, history
<1> QED
  BY <1>1, <1>2, <1>3, <1>4, <1>5, <1>6, <1>7, <1>8, <1>9, <1>10, <1>11, <1>12, <1>13,
     <1>14, <1>15, <1>16, <1>17, <1>18, <1>19, <1>20, <1>21, <1>22, <1>23, <1>24 DEF
     Next, Tick, Life, Stop, Crash, Refuse

LEMMA SendsStep == TypeOK /\ NoFileInv /\ LockInv /\ SendsInv /\ [Next]_vars => SendsInv'
<1> SUFFICES ASSUME TypeOK, NoFileInv, LockInv, SendsInv, [Next]_vars PROVE SendsInv'
  OBVIOUS
<1> USE ConstantsOK DEF TypeOK, NoFileInv, LockInv, SendsInv, Deciding, Procs, Ids,
        netVars, ledgerVars, tickVars, history
<1>1. ASSUME NEW d \in Daemons, Build(d) PROVE SendsInv'
  BY <1>1 DEF Build, Backlog, LocalMessages
<1>2. ASSUME NEW d \in Daemons, TakeLock(d) PROVE SendsInv'
  BY <1>2 DEF TakeLock, CountLost
<1>3. ASSUME NEW d \in Daemons, RunOnce(d) PROVE SendsInv'
  BY <1>3 DEF RunOnce, CountLost
<1>4. ASSUME NEW d \in Daemons, GiveUp(d) PROVE SendsInv'
  BY <1>4 DEF GiveUp
<1>5. ASSUME NEW d \in Daemons, Sample(d) PROVE SendsInv'
  BY <1>5 DEF Sample
<1>6. ASSUME NEW d \in Daemons, NEW n \in Nicks, ListInbox(d, n) PROVE SendsInv'
  BY <1>6 DEF ListInbox
<1>7. ASSUME NEW d \in Daemons, NEW i \in Ids, PassOver(d, i) PROVE SendsInv'
  BY <1>7 DEF PassOver, Looking
<1>8. ASSUME NEW d \in Daemons, NEW i \in Ids, WriteOff(d, i) PROVE SendsInv'
  BY <1>8 DEF WriteOff, Looking
<1>9. ASSUME NEW d \in Daemons, NEW i \in Ids, NotYet(d, i) PROVE SendsInv'
  BY <1>9 DEF NotYet, Looking
<1>10. ASSUME NEW d \in Daemons, NEW i \in Ids, NEW e \in Inbound, Send(d, i, e) PROVE SendsInv'
  BY <1>10 DEF Send, Looking
<1>11. ASSUME NEW d \in Daemons, EndTick(d) PROVE SendsInv'
  BY <1>11 DEF EndTick, CountLost
<1>12. ASSUME NEW d \in Daemons, TickFails(d) PROVE SendsInv'
  BY <1>12 DEF TickFails
<1>13. ASSUME StartRival PROVE SendsInv'
  BY <1>13 DEF StartRival
<1>14. ASSUME NEW p \in Procs, NEW unlinked \in {{}, lis[p]}, Leave(p, unlinked) PROVE SendsInv'
  BY <1>14 DEF Leave, CountLost
<1>15. ASSUME NEW p \in Procs, NEW n \in Nicks, Probe(p, n) PROVE SendsInv'
  BY <1>15 DEF Probe
<1>16. ASSUME NEW p \in Procs, NEW n \in Nicks, Bind(p, n) PROVE SendsInv'
  BY <1>16 DEF Bind
<1>17. ASSUME NEW p \in Procs, Started(p) PROVE SendsInv'
  BY <1>17 DEF Started
<1>18. ASSUME NEW i \in Ids, Arrive(i) PROVE SendsInv'
  BY <1>18 DEF Arrive
<1>19. ASSUME NEW i \in Ids, Deliver(i) PROVE SendsInv'
  BY <1>19 DEF Deliver
<1>20. ASSUME NEW i \in Ids, Age(i) PROVE SendsInv'
  BY <1>20 DEF Age
<1>21. ASSUME NEW i \in Ids, NEW state \in MailStates, LocalRead(i, state) PROVE SendsInv'
  BY <1>21 DEF LocalRead
<1>22. ASSUME NEW n \in Nicks, LocalSession(n) PROVE SendsInv'
  BY <1>22 DEF LocalSession
<1>23. ASSUME NEW p \in Peers, NativeSession(p) PROVE SendsInv'
  BY <1>23 DEF NativeSession
<1>24. CASE UNCHANGED vars
  BY <1>24 DEF vars, netVars, ledgerVars, tickVars, history
<1> QED
  BY <1>1, <1>2, <1>3, <1>4, <1>5, <1>6, <1>7, <1>8, <1>9, <1>10, <1>11, <1>12, <1>13,
     <1>14, <1>15, <1>16, <1>17, <1>18, <1>19, <1>20, <1>21, <1>22, <1>23, <1>24 DEF
     Next, Tick, Life, Stop, Crash, Refuse

\* A message is sent once, and once more for each time its ledger entry was
\* lost, over any number of daemons, restarts, take-overs and failed saves.
THEOREM SendsAreAccounted == Spec => []SendsAccounted
<1>1. Init => NoFileInv /\ LockInv /\ SendsInv
  BY ConstantsOK DEF Init, NoFileInv, LockInv, SendsInv, Procs, Ids
<1>2. SendsInv => SendsAccounted
  BY DEF SendsInv, SendsAccounted
<1> QED
  BY <1>1, <1>2, NoFileStep, LockStep, SendsStep, NativeBridgeTypes, PTL DEF Spec

-----------------------------------------------------------------------------
(* What is written off.                                                    *)

\* Who is taken for live has been live; and the property itself.
SkipInv ==
    /\ live \subseteq everLive
    /\ snapLive \subseteq everLive
    /\ OnlyLocalIsSkipped

LEMMA SkipStep == TypeOK /\ NoFileInv /\ SkipInv /\ [Next]_vars => SkipInv'
<1> SUFFICES ASSUME TypeOK, NoFileInv, SkipInv, [Next]_vars PROVE SkipInv'
  OBVIOUS
<1> USE ConstantsOK DEF TypeOK, NoFileInv, SkipInv, OnlyLocalIsSkipped, Procs, Ids,
        netVars, ledgerVars, tickVars, history
<1>1. ASSUME NEW d \in Daemons, Build(d) PROVE SkipInv'
  BY <1>1 DEF Build, LoadLedger, Backlog
<1>2. ASSUME NEW d \in Daemons, TakeLock(d) PROVE SkipInv'
  BY <1>2 DEF TakeLock
<1>3. ASSUME NEW d \in Daemons, RunOnce(d) PROVE SkipInv'
  BY <1>3 DEF RunOnce
<1>4. ASSUME NEW d \in Daemons, GiveUp(d) PROVE SkipInv'
  BY <1>4 DEF GiveUp
<1>5. ASSUME NEW d \in Daemons, Sample(d) PROVE SkipInv'
  BY <1>5 DEF Sample
<1>6. ASSUME NEW d \in Daemons, NEW n \in Nicks, ListInbox(d, n) PROVE SkipInv'
  BY <1>6 DEF ListInbox
<1>7. ASSUME NEW d \in Daemons, NEW i \in Ids, PassOver(d, i) PROVE SkipInv'
  BY <1>7 DEF PassOver
<1>8. ASSUME NEW d \in Daemons, NEW i \in Ids, WriteOff(d, i) PROVE SkipInv'
  BY <1>8 DEF WriteOff, Looking, NotApplicable
<1>9. ASSUME NEW d \in Daemons, NEW i \in Ids, NotYet(d, i) PROVE SkipInv'
  BY <1>9 DEF NotYet
<1>10. ASSUME NEW d \in Daemons, NEW i \in Ids, NEW e \in Inbound, Send(d, i, e) PROVE SkipInv'
  BY <1>10 DEF Send, Looking
<1>11. ASSUME NEW d \in Daemons, EndTick(d) PROVE SkipInv'
  BY <1>11 DEF EndTick, TickOver, ForgetTick
<1>12. ASSUME NEW d \in Daemons, TickFails(d) PROVE SkipInv'
  BY <1>12 DEF TickFails, TickOver, ForgetTick
<1>13. ASSUME StartRival PROVE SkipInv'
  BY <1>13 DEF StartRival
<1>14. ASSUME NEW p \in Procs, NEW unlinked \in {{}, lis[p]}, Leave(p, unlinked) PROVE SkipInv'
  BY <1>14 DEF Leave, ForgetTick
<1>15. ASSUME NEW p \in Procs, NEW n \in Nicks, Probe(p, n) PROVE SkipInv'
  BY <1>15 DEF Probe
<1>16. ASSUME NEW p \in Procs, NEW n \in Nicks, Bind(p, n) PROVE SkipInv'
  BY <1>16 DEF Bind
<1>17. ASSUME NEW p \in Procs, Started(p) PROVE SkipInv'
  BY <1>17 DEF Started
<1>18. ASSUME NEW i \in Ids, Arrive(i) PROVE SkipInv'
  BY <1>18 DEF Arrive
<1>19. ASSUME NEW i \in Ids, Deliver(i) PROVE SkipInv'
  BY <1>19 DEF Deliver
<1>20. ASSUME NEW i \in Ids, Age(i) PROVE SkipInv'
  BY <1>20 DEF Age
<1>21. ASSUME NEW i \in Ids, NEW state \in MailStates, LocalRead(i, state) PROVE SkipInv'
  BY <1>21 DEF LocalRead
<1>22. ASSUME NEW n \in Nicks, LocalSession(n) PROVE SkipInv'
  BY <1>22 DEF LocalSession
<1>23. ASSUME NEW p \in Peers, NativeSession(p) PROVE SkipInv'
  BY <1>23 DEF NativeSession
<1>24. CASE UNCHANGED vars
  BY <1>24 DEF vars, netVars, ledgerVars, tickVars, history
<1> QED
  BY <1>1, <1>2, <1>3, <1>4, <1>5, <1>6, <1>7, <1>8, <1>9, <1>10, <1>11, <1>12, <1>13,
     <1>14, <1>15, <1>16, <1>17, <1>18, <1>19, <1>20, <1>21, <1>22, <1>23, <1>24 DEF
     Next, Tick, Life, Stop, Crash, Refuse

\* A direct message is given up unsent only if the nick has had a local session
\* or the message was there before the bridge.
THEOREM OnlyLocalMailIsSkipped == Spec => []OnlyLocalIsSkipped
<1>1. Init => NoFileInv /\ SkipInv
  <2>1. Init => NoFileInv
    BY DEF Init, NoFileInv, Procs
  <2>2. Init => SkipInv
    BY DEF Init, SkipInv, OnlyLocalIsSkipped, Ids
  <2> QED
    BY <2>1, <2>2
<1>2. SkipInv => OnlyLocalIsSkipped
  BY DEF SkipInv
<1> QED
  BY <1>1, <1>2, NoFileStep, SkipStep, NativeBridgeTypes, PTL DEF Spec

-----------------------------------------------------------------------------
(* Whose socket it is.                                                     *)

\* One process at a time is between its probe and its bind, and nobody listens
\* on the path it has found free.
NameInv ==
    /\ OwnsItsName
    /\ \A p, q \in Procs : probed[p] # NoOne /\ probed[q] # NoOne => p = q
    /\ \A p, q \in Procs : probed[p] \notin lis[q]

LEMMA NameStep == SerialStart /\ TypeOK /\ NameInv /\ [Next]_vars => NameInv'
<1> SUFFICES ASSUME SerialStart, TypeOK, NameInv, [Next]_vars PROVE NameInv'
  OBVIOUS
<1> USE ConstantsOK DEF TypeOK, NameInv, OwnsItsName, Answers, Sessions, netVars,
        ledgerVars, tickVars, history
<1>1. ASSUME NEW d \in Daemons, Build(d) PROVE NameInv'
  BY <1>1 DEF Build
<1>2. ASSUME NEW d \in Daemons, TakeLock(d) PROVE NameInv'
  BY <1>2 DEF TakeLock
<1>3. ASSUME NEW d \in Daemons, RunOnce(d) PROVE NameInv'
  BY <1>3 DEF RunOnce
<1>4. ASSUME NEW d \in Daemons, GiveUp(d) PROVE NameInv'
  BY <1>4 DEF GiveUp
<1>5. ASSUME NEW d \in Daemons, Sample(d) PROVE NameInv'
  BY <1>5 DEF Sample
<1>6. ASSUME NEW d \in Daemons, NEW n \in Nicks, ListInbox(d, n) PROVE NameInv'
  BY <1>6 DEF ListInbox
<1>7. ASSUME NEW d \in Daemons, NEW i \in Ids, PassOver(d, i) PROVE NameInv'
  BY <1>7 DEF PassOver
<1>8. ASSUME NEW d \in Daemons, NEW i \in Ids, WriteOff(d, i) PROVE NameInv'
  BY <1>8 DEF WriteOff
<1>9. ASSUME NEW d \in Daemons, NEW i \in Ids, NotYet(d, i) PROVE NameInv'
  BY <1>9 DEF NotYet
<1>10. ASSUME NEW d \in Daemons, NEW i \in Ids, NEW e \in Inbound, Send(d, i, e) PROVE NameInv'
  BY <1>10 DEF Send
<1>11. ASSUME NEW d \in Daemons, EndTick(d) PROVE NameInv'
  BY <1>11 DEF EndTick
<1>12. ASSUME NEW d \in Daemons, TickFails(d) PROVE NameInv'
  BY <1>12 DEF TickFails
<1>13. ASSUME StartRival PROVE NameInv'
  BY <1>13 DEF StartRival
<1>14. ASSUME NEW p \in Procs, NEW unlinked \in {{}, lis[p]}, Leave(p, unlinked) PROVE NameInv'
  BY <1>14 DEF Leave
<1>15. ASSUME NEW p \in Procs, NEW n \in Nicks, Probe(p, n) PROVE NameInv'
  BY <1>15 DEF Probe
<1>16. ASSUME NEW p \in Procs, NEW n \in Nicks, Bind(p, n) PROVE NameInv'
  BY <1>16 DEF Bind
<1>17. ASSUME NEW p \in Procs, Started(p) PROVE NameInv'
  BY <1>17 DEF Started
<1>18. ASSUME NEW i \in Ids, Arrive(i) PROVE NameInv'
  BY <1>18 DEF Arrive
<1>19. ASSUME NEW i \in Ids, Deliver(i) PROVE NameInv'
  BY <1>19 DEF Deliver
<1>20. ASSUME NEW i \in Ids, Age(i) PROVE NameInv'
  BY <1>20 DEF Age
<1>21. ASSUME NEW i \in Ids, NEW state \in MailStates, LocalRead(i, state) PROVE NameInv'
  BY <1>21 DEF LocalRead
<1>22. ASSUME NEW n \in Nicks, LocalSession(n) PROVE NameInv'
  BY <1>22 DEF LocalSession
<1>23. ASSUME NEW p \in Peers, NativeSession(p) PROVE NameInv'
  BY <1>23 DEF NativeSession
<1>24. CASE UNCHANGED vars
  BY <1>24 DEF vars, netVars, ledgerVars, tickVars, history
<1> QED
  BY <1>1, <1>2, <1>3, <1>4, <1>5, <1>6, <1>7, <1>8, <1>9, <1>10, <1>11, <1>12, <1>13,
     <1>14, <1>15, <1>16, <1>17, <1>18, <1>19, <1>20, <1>21, <1>22, <1>23, <1>24 DEF
     Next, Tick, Life, Stop, Crash, Refuse

\* A listener that started keeps its nick's socket, whoever starts, stops or
\* crashes around it, provided no two listeners start at the same time.
THEOREM ListenersKeepTheirNames == SerialStart => (Spec => []OwnsItsName)
<1> SUFFICES ASSUME SerialStart PROVE Spec => []OwnsItsName
  OBVIOUS
<1>1. Init => NameInv
  BY ConstantsOK DEF Init, NameInv, OwnsItsName, Procs, Sessions
<1>2. NameInv => OwnsItsName
  BY DEF NameInv
<1>3. TypeOK /\ NameInv /\ [Next]_vars => NameInv'
  BY NameStep
<1> QED
  BY <1>1, <1>2, <1>3, NativeBridgeTypes, PTL DEF Spec

=============================================================================
