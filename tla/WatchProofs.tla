----------------------------- MODULE WatchProofs -----------------------------
(***************************************************************************)
(* No session parks deaf, and the record of what was reported silences     *)
(* nothing unseen, for any messages, watches, policy and modes.            *)
(***************************************************************************)
EXTENDS Watch, TLAPS

\* Every step keeps the variables in their types.
LEMMA WatchTypes == TypeOK /\ [Next]_vars => TypeOK'
<1> SUFFICES ASSUME TypeOK, [Next]_vars PROVE TypeOK'
  OBVIOUS
<1> USE ConstantsOK DEF TypeOK, session, watch, Ended, Running, Pending, Hits, LoadReported,
        Nudge, Armed
<1>1. CASE Begin
  <2>1. faults' \in 0 .. MaxFaults
    BY <1>1 DEF Begin
  <2> QED
    BY <1>1, <2>1 DEF Begin
<1>2. CASE Claim
  <2>1. advised' \in BOOLEAN
    BY <1>2, Zenon DEF Claim
  <2>2. blocks' \in 0 .. MaxBlocks
    BY <1>2 DEF Claim
  <2> QED
    BY <1>2, <2>1, <2>2 DEF Claim
<1>3. CASE End
  BY <1>3 DEF End
<1>4. CASE StopUnresolved
  BY <1>4 DEF StopUnresolved
<1>5. CASE StopArmed
  BY <1>5 DEF StopArmed
<1>6. CASE StopBlocked
  BY <1>6 DEF StopBlocked
<1>7. CASE StopGivesUp
  BY <1>7 DEF StopGivesUp
<1>8. CASE Wake
  BY <1>8 DEF Wake
<1>9. CASE UserTurn
  BY <1>9 DEF UserTurn
<1>10. CASE ToolCall
  BY <1>10 DEF ToolCall
<1>11. CASE Subscribe
  BY <1>11 DEF Subscribe
<1>12. ASSUME NEW w \in Watches, TakeArmLock(w) PROVE TypeOK'
  BY <1>12 DEF TakeArmLock
<1>13. ASSUME NEW w \in Watches, Refused(w) PROVE TypeOK'
  BY <1>13 DEF Refused
<1>14. ASSUME NEW w \in Watches, StandDown(w) PROVE TypeOK'
  BY <1>14 DEF StandDown
<1>15. ASSUME NEW w \in Watches, RunUnlocked(w) PROVE TypeOK'
  BY <1>15 DEF RunUnlocked
<1>16. ASSUME NEW w \in Watches, FindNew(w) PROVE TypeOK'
  BY <1>16 DEF FindNew
<1>17. ASSUME NEW w \in Watches, Report(w) PROVE TypeOK'
  BY <1>17 DEF Report
<1>18. ASSUME NEW w \in Watches, Emit(w) PROVE TypeOK'
  BY <1>18 DEF Emit
<1>19. ASSUME NEW w \in Watches, Orphaned(w) PROVE TypeOK'
  BY <1>19 DEF Orphaned
<1>20. ASSUME NEW w \in Watches, Deadline(w) PROVE TypeOK'
  BY <1>20 DEF Deadline
<1>21. ASSUME NEW w \in Watches, Kill(w) PROVE TypeOK'
  BY <1>21 DEF Kill
<1>22. ASSUME NEW w \in Watches, NEW how \in Modes, Arm(w, how) PROVE TypeOK'
  BY <1>22 DEF Arm
<1>23. ASSUME NEW m \in Msgs, Arrive(m) PROVE TypeOK'
  BY <1>23 DEF Arrive
<1>24. ASSUME NEW m \in Msgs, Expire(m) PROVE TypeOK'
  BY <1>24 DEF Expire
<1>25. CASE UNCHANGED vars
  BY <1>25 DEF vars
<1>26. CASE ProbeLock \/ ProbeUnlock
  BY <1>26 DEF ProbeLock, ProbeUnlock
<1> HIDE DEF TypeOK
<1> QED
  BY <1>1, <1>2, <1>3, <1>4, <1>5, <1>6, <1>7, <1>8, <1>9, <1>10, <1>11, <1>12, <1>13,
     <1>14, <1>15, <1>16, <1>17, <1>18, <1>19, <1>20, <1>21, <1>22, <1>23, <1>24, <1>25,
     <1>26
  DEF Next, Stop, WatchStep

\* Every step keeps the lock with a watch at work, and idle watches empty.
LEMMA SaneStep == TypeOK /\ WatchesSane /\ [Next]_vars => WatchesSane'
<1> SUFFICES ASSUME TypeOK, WatchesSane, [Next]_vars PROVE WatchesSane'
  OBVIOUS
<1> USE ConstantsOK DEF TypeOK, WatchesSane, Armed, session, watch, Ended, Running
<1>1. CASE Begin
  BY <1>1 DEF Begin
<1>2. CASE Claim
  BY <1>2 DEF Claim
<1>3. CASE End
  BY <1>3 DEF End
<1>4. CASE StopUnresolved
  BY <1>4 DEF StopUnresolved
<1>5. CASE StopArmed
  BY <1>5 DEF StopArmed
<1>6. CASE StopBlocked
  BY <1>6 DEF StopBlocked
<1>7. CASE StopGivesUp
  BY <1>7 DEF StopGivesUp
<1>8. CASE Wake
  BY <1>8 DEF Wake
<1>9. CASE UserTurn
  BY <1>9 DEF UserTurn
<1>10. CASE ToolCall
  BY <1>10 DEF ToolCall
<1>11. CASE Subscribe
  BY <1>11 DEF Subscribe
<1>12. ASSUME NEW w \in Watches, TakeArmLock(w) PROVE WatchesSane'
  BY <1>12 DEF TakeArmLock
<1>13. ASSUME NEW w \in Watches, Refused(w) PROVE WatchesSane'
  BY <1>13 DEF Refused
<1>14. ASSUME NEW w \in Watches, StandDown(w) PROVE WatchesSane'
  BY <1>14 DEF StandDown
<1>15. ASSUME NEW w \in Watches, RunUnlocked(w) PROVE WatchesSane'
  BY <1>15 DEF RunUnlocked
<1>16. ASSUME NEW w \in Watches, FindNew(w) PROVE WatchesSane'
  BY <1>16 DEF FindNew
<1>17. ASSUME NEW w \in Watches, Report(w) PROVE WatchesSane'
  BY <1>17 DEF Report
<1>18. ASSUME NEW w \in Watches, Emit(w) PROVE WatchesSane'
  BY <1>18 DEF Emit
<1>19. ASSUME NEW w \in Watches, Orphaned(w) PROVE WatchesSane'
  BY <1>19 DEF Orphaned
<1>20. ASSUME NEW w \in Watches, Deadline(w) PROVE WatchesSane'
  BY <1>20 DEF Deadline
<1>21. ASSUME NEW w \in Watches, Kill(w) PROVE WatchesSane'
  BY <1>21 DEF Kill
<1>22. ASSUME NEW w \in Watches, NEW how \in Modes, Arm(w, how) PROVE WatchesSane'
  BY <1>22 DEF Arm
<1>23. ASSUME NEW m \in Msgs, Arrive(m) PROVE WatchesSane'
  BY <1>23 DEF Arrive
<1>24. ASSUME NEW m \in Msgs, Expire(m) PROVE WatchesSane'
  BY <1>24 DEF Expire
<1>25. CASE UNCHANGED vars
  BY <1>25 DEF vars
<1>26. CASE ProbeLock \/ ProbeUnlock
  BY <1>26 DEF ProbeLock, ProbeUnlock
<1> HIDE DEF WatchesSane
<1> QED
  BY <1>1, <1>2, <1>3, <1>4, <1>5, <1>6, <1>7, <1>8, <1>9, <1>10, <1>11, <1>12, <1>13,
     <1>14, <1>15, <1>16, <1>17, <1>18, <1>19, <1>20, <1>21, <1>22, <1>23, <1>24, <1>25,
     <1>26
  DEF Next, Stop, WatchStep

\* Every step keeps a session that has not claimed at work.
LEMMA BusyStep == TypeOK /\ StartsBusy /\ [Next]_vars => StartsBusy'
<1> SUFFICES ASSUME TypeOK, StartsBusy, [Next]_vars PROVE StartsBusy'
  OBVIOUS
<1> USE ConstantsOK DEF TypeOK, session, watch, Ended, Running, Armed, StartsBusy
<1>1. CASE Begin
  BY <1>1 DEF Begin
<1>2. CASE Claim
  BY <1>2 DEF Claim
<1>3. CASE End
  BY <1>3 DEF End
<1>4. CASE StopUnresolved
  BY <1>4 DEF StopUnresolved
<1>5. CASE StopArmed
  BY <1>5 DEF StopArmed
<1>6. CASE StopBlocked
  BY <1>6 DEF StopBlocked
<1>7. CASE StopGivesUp
  BY <1>7 DEF StopGivesUp
<1>8. CASE Wake
  BY <1>8 DEF Wake
<1>9. CASE UserTurn
  BY <1>9 DEF UserTurn
<1>10. CASE ToolCall
  BY <1>10 DEF ToolCall
<1>11. CASE Subscribe
  BY <1>11 DEF Subscribe
<1>12. ASSUME NEW w \in Watches, TakeArmLock(w) PROVE StartsBusy'
  BY <1>12 DEF TakeArmLock
<1>13. ASSUME NEW w \in Watches, Refused(w) PROVE StartsBusy'
  BY <1>13 DEF Refused
<1>14. ASSUME NEW w \in Watches, StandDown(w) PROVE StartsBusy'
  BY <1>14 DEF StandDown
<1>15. ASSUME NEW w \in Watches, RunUnlocked(w) PROVE StartsBusy'
  BY <1>15 DEF RunUnlocked
<1>16. ASSUME NEW w \in Watches, FindNew(w) PROVE StartsBusy'
  BY <1>16 DEF FindNew
<1>17. ASSUME NEW w \in Watches, Report(w) PROVE StartsBusy'
  BY <1>17 DEF Report
<1>18. ASSUME NEW w \in Watches, Emit(w) PROVE StartsBusy'
  BY <1>18 DEF Emit
<1>19. ASSUME NEW w \in Watches, Orphaned(w) PROVE StartsBusy'
  BY <1>19 DEF Orphaned
<1>20. ASSUME NEW w \in Watches, Deadline(w) PROVE StartsBusy'
  BY <1>20 DEF Deadline
<1>21. ASSUME NEW w \in Watches, Kill(w) PROVE StartsBusy'
  BY <1>21 DEF Kill
<1>22. ASSUME NEW w \in Watches, NEW how \in Modes, Arm(w, how) PROVE StartsBusy'
  BY <1>22 DEF Arm
<1>23. ASSUME NEW m \in Msgs, Arrive(m) PROVE StartsBusy'
  BY <1>23 DEF Arrive
<1>24. ASSUME NEW m \in Msgs, Expire(m) PROVE StartsBusy'
  BY <1>24 DEF Expire
<1>25. CASE UNCHANGED vars
  BY <1>25 DEF vars
<1>26. CASE ProbeLock \/ ProbeUnlock
  BY <1>26 DEF ProbeLock, ProbeUnlock
<1> HIDE DEF StartsBusy
<1> QED
  BY <1>1, <1>2, <1>3, <1>4, <1>5, <1>6, <1>7, <1>8, <1>9, <1>10, <1>11, <1>12, <1>13,
     <1>14, <1>15, <1>16, <1>17, <1>18, <1>19, <1>20, <1>21, <1>22, <1>23, <1>24, <1>25,
     <1>26
  DEF Next, Stop, WatchStep

\* Every step keeps the watches that outlive a session among the orphans.
LEMMA OrphanStep == TypeOK /\ StrayAreOrphans /\ [Next]_vars => StrayAreOrphans'
<1> SUFFICES ASSUME TypeOK, StrayAreOrphans, [Next]_vars PROVE StrayAreOrphans'
  OBVIOUS
<1> USE ConstantsOK DEF TypeOK, session, watch, Ended, Running, Armed, StrayAreOrphans
<1>1. CASE Begin
  BY <1>1 DEF Begin
<1>2. CASE Claim
  BY <1>2 DEF Claim
<1>3. CASE End
  BY <1>3 DEF End
<1>4. CASE StopUnresolved
  BY <1>4 DEF StopUnresolved
<1>5. CASE StopArmed
  BY <1>5 DEF StopArmed
<1>6. CASE StopBlocked
  BY <1>6 DEF StopBlocked
<1>7. CASE StopGivesUp
  BY <1>7 DEF StopGivesUp
<1>8. CASE Wake
  BY <1>8 DEF Wake
<1>9. CASE UserTurn
  BY <1>9 DEF UserTurn
<1>10. CASE ToolCall
  BY <1>10 DEF ToolCall
<1>11. CASE Subscribe
  BY <1>11 DEF Subscribe
<1>12. ASSUME NEW w \in Watches, TakeArmLock(w) PROVE StrayAreOrphans'
  BY <1>12 DEF TakeArmLock
<1>13. ASSUME NEW w \in Watches, Refused(w) PROVE StrayAreOrphans'
  BY <1>13 DEF Refused
<1>14. ASSUME NEW w \in Watches, StandDown(w) PROVE StrayAreOrphans'
  BY <1>14 DEF StandDown
<1>15. ASSUME NEW w \in Watches, RunUnlocked(w) PROVE StrayAreOrphans'
  BY <1>15 DEF RunUnlocked
<1>16. ASSUME NEW w \in Watches, FindNew(w) PROVE StrayAreOrphans'
  BY <1>16 DEF FindNew
<1>17. ASSUME NEW w \in Watches, Report(w) PROVE StrayAreOrphans'
  BY <1>17 DEF Report
<1>18. ASSUME NEW w \in Watches, Emit(w) PROVE StrayAreOrphans'
  BY <1>18 DEF Emit
<1>19. ASSUME NEW w \in Watches, Orphaned(w) PROVE StrayAreOrphans'
  BY <1>19 DEF Orphaned
<1>20. ASSUME NEW w \in Watches, Deadline(w) PROVE StrayAreOrphans'
  BY <1>20 DEF Deadline
<1>21. ASSUME NEW w \in Watches, Kill(w) PROVE StrayAreOrphans'
  BY <1>21 DEF Kill
<1>22. ASSUME NEW w \in Watches, NEW how \in Modes, Arm(w, how) PROVE StrayAreOrphans'
  BY <1>22 DEF Arm
<1>23. ASSUME NEW m \in Msgs, Arrive(m) PROVE StrayAreOrphans'
  BY <1>23 DEF Arrive
<1>24. ASSUME NEW m \in Msgs, Expire(m) PROVE StrayAreOrphans'
  BY <1>24 DEF Expire
<1>25. CASE UNCHANGED vars
  BY <1>25 DEF vars
<1>26. CASE ProbeLock \/ ProbeUnlock
  BY <1>26 DEF ProbeLock, ProbeUnlock
<1> HIDE DEF StrayAreOrphans
<1> QED
  BY <1>1, <1>2, <1>3, <1>4, <1>5, <1>6, <1>7, <1>8, <1>9, <1>10, <1>11, <1>12, <1>13,
     <1>14, <1>15, <1>16, <1>17, <1>18, <1>19, <1>20, <1>21, <1>22, <1>23, <1>24, <1>25,
     <1>26
  DEF Next, Stop, WatchStep

\* No step leaves output for a session without a wake.
LEMMA OutputStep == TypeOK /\ StrayAreOrphans /\ OutputWakes /\ [Next]_vars => OutputWakes'
<1> SUFFICES ASSUME TypeOK, StrayAreOrphans, OutputWakes, [Next]_vars PROVE OutputWakes'
  OBVIOUS
<1> USE ConstantsOK DEF TypeOK, session, watch, Ended, Running, Armed, StrayAreOrphans,
        OutputWakes
<1>1. CASE Begin
  BY <1>1 DEF Begin
<1>2. CASE Claim
  BY <1>2 DEF Claim
<1>3. CASE End
  BY <1>3 DEF End
<1>4. CASE StopUnresolved
  BY <1>4 DEF StopUnresolved
<1>5. CASE StopArmed
  BY <1>5 DEF StopArmed
<1>6. CASE StopBlocked
  BY <1>6 DEF StopBlocked
<1>7. CASE StopGivesUp
  BY <1>7 DEF StopGivesUp
<1>8. CASE Wake
  BY <1>8 DEF Wake
<1>9. CASE UserTurn
  BY <1>9 DEF UserTurn
<1>10. CASE ToolCall
  BY <1>10 DEF ToolCall
<1>11. CASE Subscribe
  BY <1>11 DEF Subscribe
<1>12. ASSUME NEW w \in Watches, TakeArmLock(w) PROVE OutputWakes'
  BY <1>12 DEF TakeArmLock
<1>13. ASSUME NEW w \in Watches, Refused(w) PROVE OutputWakes'
  BY <1>13 DEF Refused
<1>14. ASSUME NEW w \in Watches, StandDown(w) PROVE OutputWakes'
  BY <1>14 DEF StandDown
<1>15. ASSUME NEW w \in Watches, RunUnlocked(w) PROVE OutputWakes'
  BY <1>15 DEF RunUnlocked
<1>16. ASSUME NEW w \in Watches, FindNew(w) PROVE OutputWakes'
  BY <1>16 DEF FindNew
<1>17. ASSUME NEW w \in Watches, Report(w) PROVE OutputWakes'
  BY <1>17 DEF Report
<1>18. ASSUME NEW w \in Watches, Emit(w) PROVE OutputWakes'
  BY <1>18 DEF Emit
<1>19. ASSUME NEW w \in Watches, Orphaned(w) PROVE OutputWakes'
  BY <1>19 DEF Orphaned
<1>20. ASSUME NEW w \in Watches, Deadline(w) PROVE OutputWakes'
  BY <1>20 DEF Deadline
<1>21. ASSUME NEW w \in Watches, Kill(w) PROVE OutputWakes'
  BY <1>21 DEF Kill
<1>22. ASSUME NEW w \in Watches, NEW how \in Modes, Arm(w, how) PROVE OutputWakes'
  BY <1>22 DEF Arm
<1>23. ASSUME NEW m \in Msgs, Arrive(m) PROVE OutputWakes'
  BY <1>23 DEF Arrive
<1>24. ASSUME NEW m \in Msgs, Expire(m) PROVE OutputWakes'
  BY <1>24 DEF Expire
<1>25. CASE UNCHANGED vars
  BY <1>25 DEF vars
<1>26. CASE ProbeLock \/ ProbeUnlock
  BY <1>26 DEF ProbeLock, ProbeUnlock
<1> HIDE DEF OutputWakes
<1> QED
  BY <1>1, <1>2, <1>3, <1>4, <1>5, <1>6, <1>7, <1>8, <1>9, <1>10, <1>11, <1>12, <1>13,
     <1>14, <1>15, <1>16, <1>17, <1>18, <1>19, <1>20, <1>21, <1>22, <1>23, <1>24, <1>25,
     <1>26
  DEF Next, Stop, WatchStep

\* No step leaves the model parked without a watch of its own or a wake.
LEMMA ParkStep ==
  TypeOK /\ WatchesSane /\ StartsBusy /\ NeverParksDeaf /\ [Next]_vars
    => NeverParksDeaf'
<1> SUFFICES ASSUME TypeOK, WatchesSane, StartsBusy, NeverParksDeaf, [Next]_vars
             PROVE  NeverParksDeaf'
  OBVIOUS
<1> USE ConstantsOK DEF TypeOK, session, watch, Ended, Running, Armed, WatchesSane,
        StartsBusy, NeverParksDeaf, Own
<1>1. CASE Begin
  BY <1>1 DEF Begin
<1>2. CASE Claim
  BY <1>2 DEF Claim
<1>3. CASE End
  BY <1>3 DEF End
<1>4. CASE StopUnresolved
  BY <1>4 DEF StopUnresolved
<1>5. CASE StopArmed
  BY <1>5 DEF StopArmed
<1>6. CASE StopBlocked
  BY <1>6 DEF StopBlocked
<1>7. CASE StopGivesUp
  BY <1>7 DEF StopGivesUp
<1>8. CASE Wake
  BY <1>8 DEF Wake
<1>9. CASE UserTurn
  BY <1>9 DEF UserTurn
<1>10. CASE ToolCall
  BY <1>10 DEF ToolCall
<1>11. CASE Subscribe
  BY <1>11 DEF Subscribe
<1>12. ASSUME NEW w \in Watches, TakeArmLock(w) PROVE NeverParksDeaf'
  BY <1>12 DEF TakeArmLock
<1>13. ASSUME NEW w \in Watches, Refused(w) PROVE NeverParksDeaf'
  BY <1>13 DEF Refused
<1>14. ASSUME NEW w \in Watches, StandDown(w) PROVE NeverParksDeaf'
  BY <1>14 DEF StandDown
<1>15. ASSUME NEW w \in Watches, RunUnlocked(w) PROVE NeverParksDeaf'
  BY <1>15 DEF RunUnlocked
<1>16. ASSUME NEW w \in Watches, FindNew(w) PROVE NeverParksDeaf'
  BY <1>16 DEF FindNew
<1>17. ASSUME NEW w \in Watches, Report(w) PROVE NeverParksDeaf'
  BY <1>17 DEF Report
<1>18. ASSUME NEW w \in Watches, Emit(w) PROVE NeverParksDeaf'
  BY <1>18 DEF Emit
<1>19. ASSUME NEW w \in Watches, Orphaned(w) PROVE NeverParksDeaf'
  BY <1>19 DEF Orphaned
<1>20. ASSUME NEW w \in Watches, Deadline(w) PROVE NeverParksDeaf'
  BY <1>20 DEF Deadline
<1>21. ASSUME NEW w \in Watches, Kill(w) PROVE NeverParksDeaf'
  BY <1>21 DEF Kill
<1>22. ASSUME NEW w \in Watches, NEW how \in Modes, Arm(w, how) PROVE NeverParksDeaf'
  BY <1>22 DEF Arm
<1>23. ASSUME NEW m \in Msgs, Arrive(m) PROVE NeverParksDeaf'
  BY <1>23 DEF Arrive
<1>24. ASSUME NEW m \in Msgs, Expire(m) PROVE NeverParksDeaf'
  BY <1>24 DEF Expire
<1>25. CASE UNCHANGED vars
  BY <1>25 DEF vars
<1>26. CASE ProbeLock \/ ProbeUnlock
  BY <1>26 DEF ProbeLock, ProbeUnlock
<1> HIDE DEF NeverParksDeaf
<1> QED
  BY <1>1, <1>2, <1>3, <1>4, <1>5, <1>6, <1>7, <1>8, <1>9, <1>10, <1>11, <1>12, <1>13,
     <1>14, <1>15, <1>16, <1>17, <1>18, <1>19, <1>20, <1>21, <1>22, <1>23, <1>24, <1>25,
     <1>26
  DEF Next, Stop, WatchStep

\* No step silences a message that nobody accounts for.
LEMMA SilenceStep ==
  TypeOK /\ WatchesSane /\ StrayAreOrphans /\ SilencedIsAccounted /\ [Next]_vars
    => SilencedIsAccounted'
<1> SUFFICES ASSUME TypeOK, WatchesSane, StrayAreOrphans, SilencedIsAccounted, [Next]_vars
                    PROVE SilencedIsAccounted'
  OBVIOUS
<1> USE ConstantsOK DEF TypeOK, session, watch, Ended, Running, Armed, WatchesSane,
        StrayAreOrphans, SilencedIsAccounted, Silenced, Accounted, Pending, Hits,
        LoadReported
<1>1. CASE Begin
  BY <1>1 DEF Begin
<1>2. CASE Claim
  BY <1>2 DEF Claim
<1>3. CASE End
  BY <1>3 DEF End
<1>4. CASE StopUnresolved
  BY <1>4 DEF StopUnresolved
<1>5. CASE StopArmed
  BY <1>5 DEF StopArmed
<1>6. CASE StopBlocked
  BY <1>6 DEF StopBlocked
<1>7. CASE StopGivesUp
  BY <1>7 DEF StopGivesUp
<1>8. CASE Wake
  BY <1>8 DEF Wake
<1>9. CASE UserTurn
  BY <1>9 DEF UserTurn
<1>10. CASE ToolCall
  BY <1>10 DEF ToolCall
<1>11. CASE Subscribe
  BY <1>11 DEF Subscribe
<1>12. ASSUME NEW w \in Watches, TakeArmLock(w) PROVE SilencedIsAccounted'
  BY <1>12 DEF TakeArmLock
<1>13. ASSUME NEW w \in Watches, Refused(w) PROVE SilencedIsAccounted'
  BY <1>13 DEF Refused
<1>14. ASSUME NEW w \in Watches, StandDown(w) PROVE SilencedIsAccounted'
  BY <1>14 DEF StandDown
<1>15. ASSUME NEW w \in Watches, RunUnlocked(w) PROVE SilencedIsAccounted'
  BY <1>15 DEF RunUnlocked
<1>16. ASSUME NEW w \in Watches, FindNew(w) PROVE SilencedIsAccounted'
  BY <1>16 DEF FindNew
<1>17. ASSUME NEW w \in Watches, Report(w) PROVE SilencedIsAccounted'
  BY <1>17 DEF Report
<1>18. ASSUME NEW w \in Watches, Emit(w) PROVE SilencedIsAccounted'
  BY <1>18 DEF Emit
<1>19. ASSUME NEW w \in Watches, Orphaned(w) PROVE SilencedIsAccounted'
  BY <1>19 DEF Orphaned
<1>20. ASSUME NEW w \in Watches, Deadline(w) PROVE SilencedIsAccounted'
  BY <1>20 DEF Deadline
<1>21. ASSUME NEW w \in Watches, Kill(w) PROVE SilencedIsAccounted'
  BY <1>21 DEF Kill
<1>22. ASSUME NEW w \in Watches, NEW how \in Modes, Arm(w, how) PROVE SilencedIsAccounted'
  BY <1>22 DEF Arm
<1>23. ASSUME NEW m \in Msgs, Arrive(m) PROVE SilencedIsAccounted'
  BY <1>23 DEF Arrive
<1>24. ASSUME NEW m \in Msgs, Expire(m) PROVE SilencedIsAccounted'
  BY <1>24 DEF Expire
<1>25. CASE UNCHANGED vars
  BY <1>25 DEF vars
<1>26. CASE ProbeLock \/ ProbeUnlock
  BY <1>26 DEF ProbeLock, ProbeUnlock
<1> HIDE DEF SilencedIsAccounted
<1> QED
  BY <1>1, <1>2, <1>3, <1>4, <1>5, <1>6, <1>7, <1>8, <1>9, <1>10, <1>11, <1>12, <1>13,
     <1>14, <1>15, <1>16, <1>17, <1>18, <1>19, <1>20, <1>21, <1>22, <1>23, <1>24, <1>25,
     <1>26
  DEF Next, Stop, WatchStep

\* WatchInv is inductive.
LEMMA WatchStepInv == WatchInv /\ [Next]_vars => WatchInv'
  BY WatchTypes, SaneStep, BusyStep, OrphanStep, OutputStep, ParkStep, SilenceStep DEF WatchInv

\* WatchInv holds throughout.
LEMMA WatchInvariance == Spec => []WatchInv
<1>1. Init => TypeOK
  <2> SUFFICES ASSUME Init PROVE TypeOK
    OBVIOUS
  <2>1. blocks \in 0 .. MaxBlocks /\ faults \in 0 .. MaxFaults
    BY ConstantsOK DEF Init
  <2>2. subscribed \in BOOLEAN /\ advised \in BOOLEAN /\ wake \in BOOLEAN
    BY Zenon DEF Init
  <2>3. rep \in [Watches -> SUBSET Msgs] /\ out \in [Watches -> SUBSET Msgs]
    BY DEF Init
  <2> QED
    BY <2>1, <2>2, <2>3 DEF Init, TypeOK
<1>2. Init => WatchesSane /\ StartsBusy /\ StrayAreOrphans /\ OutputWakes /\ NeverParksDeaf
  BY ConstantsOK DEF Init, WatchesSane, StartsBusy, StrayAreOrphans, OutputWakes,
     NeverParksDeaf, Armed, Running
<1>3. Init => SilencedIsAccounted
  BY DEF Init, SilencedIsAccounted, Silenced
<1>4. Init => WatchInv
  BY <1>1, <1>2, <1>3 DEF WatchInv
<1> QED
  BY <1>4, WatchStepInv, PTL DEF Spec

\* The variables of a session and its watches keep their types.
THEOREM WatchKeepsTypes == Spec => []TypeOK
<1>1. WatchInv => TypeOK
  BY DEF WatchInv
<1> QED
  BY <1>1, WatchInvariance, PTL

\* However sessions, watches and wakes interleave, a session the Stop hook lets
\* park has a watch of its own or a wake on its way, but for the four causes
\* deaf names.
THEOREM NobodyParksDeaf == Spec => []NeverParksDeaf
<1>1. WatchInv => NeverParksDeaf
  BY DEF WatchInv
<1> QED
  BY <1>1, WatchInvariance, PTL

\* A parked session that has not been let park deaf is never stuck with mail it
\* has not heard of: the safety half of Heard, for any messages and watches.
THEOREM MailIsUnderWay == Spec => []NeverStuckUnheard
<1>1. WatchInv => NeverStuckUnheard
  <2> SUFFICES ASSUME WatchInv, life = "up", turn = "parked", deaf = "no", ~wake,
                      NEW m \in Hits \ (told \cup spent)
               PROVE  UnderWay(m)
    BY DEF NeverStuckUnheard, UnderWay
  <2>1. PICK w \in Watches : Own(w)
    BY DEF WatchInv, NeverParksDeaf
  <2>2. wst[w] \in {"starting", "refused", "waiting", "reporting"}
    BY <2>1 DEF WatchInv, TypeOK, Own, Running
  <2>3. CASE wst[w] = "waiting" /\ m \in rep[w]
    <3>1. Accounted(m)
      BY <2>1, <2>3 DEF WatchInv, SilencedIsAccounted, Silenced, Own, Hits, Pending
    <3>2. output = {}
      BY DEF WatchInv, OutputWakes
    <3>3. PICK v \in Watches : m \in out[v]
      BY <3>1, <3>2 DEF Accounted
    <3>4. wst[v] = "reporting"
      BY <3>3 DEF WatchInv, WatchesSane
    <3> QED
      BY <3>3, <3>4 DEF UnderWay
  <2> QED
    BY <2>1, <2>2, <2>3 DEF UnderWay
<1> QED
  BY <1>1, WatchInvariance, PTL

\* The wake record never silences a message the session has not heard of and is
\* not about to, unless its report was lost with a watch or a session.
THEOREM RecordSilencesNothing == Spec => []RecordIsTold
<1>1. WatchInv => RecordIsTold
  BY DEF WatchInv, TypeOK, SilencedIsAccounted, Silenced, Accounted, RecordIsTold, Pending
<1> QED
  BY <1>1, WatchInvariance, PTL

=============================================================================
