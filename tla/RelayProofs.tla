---------------------------- MODULE RelayProofs ----------------------------
(***************************************************************************)
(* Relay's safety properties for every set of sessions, nicks and          *)
(* messages.                                                               *)
(***************************************************************************)
EXTENDS Relay, TLAPS

\* Rewriting one file of one inbox.
LEMMA BoxUpdate ==
  ASSUME NEW b \in [Inboxes -> [Copies -> FileStates]], NEW b2,
         NEW d \in Inboxes, NEW c \in Copies, NEW f \in FileStates,
         b2 = [b EXCEPT ![d][c] = f]
  PROVE  /\ b2 \in [Inboxes -> [Copies -> FileStates]]
         /\ \A e \in Inboxes, k \in Copies :
              b2[e][k] = IF e = d /\ k = c THEN f ELSE b[e][k]
OBVIOUS

\* Moving one file from an inbox to another.
LEMMA BoxMove ==
  ASSUME NEW b \in [Inboxes -> [Copies -> FileStates]],
         NEW d \in Inboxes, NEW s \in Inboxes, NEW c \in Copies
  PROVE  [b EXCEPT ![d][c] = "none", ![s][c] = b[d][c]]
            \in [Inboxes -> [Copies -> FileStates]]
<1>1. "none" \in FileStates /\ b[d][c] \in FileStates
  BY DEF FileStates
<1> QED
  BY <1>1

\* Every step keeps the variables in their types.
LEMMA TypeStep == TypeOK /\ [Next]_vars => TypeOK'
<1> SUFFICES ASSUME TypeOK, [Next]_vars PROVE TypeOK'
  OBVIOUS
<1> USE ConstantsOK DEF TypeOK, Phases, FileStates, Stages, Fates, sendVars, sweepVars
<1>1. ASSUME NEW s \in Sessions, Startup(s) PROVE TypeOK'
  <2>1. CASE Reap(s)
    BY <2>1 DEF Reap
  <2>2. CASE MakeInbox(s)
    BY <2>2 DEF MakeInbox, Inboxes
  <2>3. CASE ClaimId(s)
    BY <2>3 DEF ClaimId, DonorFiles
  <2>4. CASE Serve(s)
    BY <2>4 DEF Serve
  <2> QED
    BY <1>1, <2>1, <2>2, <2>3, <2>4 DEF Startup
<1>2. ASSUME NEW s \in Sessions, Exit(s) PROVE TypeOK'
  BY <1>2 DEF Exit
<1>3. ASSUME NEW s \in Sessions, BeginSweep(s) PROVE TypeOK'
  BY <1>3 DEF BeginSweep, DonorFiles
<1>4. ASSUME NEW s \in Sessions, NEW d \in Inboxes, NEW c \in Copies, Adopt(s, d, c)
      PROVE  TypeOK'
  <2>1. CASE AdoptRename(s, d, c)
    <3>1. s \in Inboxes
      BY DEF Inboxes
    <3>2. box' = [box EXCEPT ![d][c] = "none", ![s][c] = box[d][c]]
      BY <2>1 DEF AdoptRename
    <3> HIDE DEF FileStates
    <3>3. box \in [Inboxes -> [Copies -> FileStates]]
      OBVIOUS
    <3> HIDE DEF TypeOK
    <3>4. [box EXCEPT ![d][c] = "none", ![s][c] = box[d][c]]
             \in [Inboxes -> [Copies -> FileStates]]
      BY <3>1, <3>3, BoxMove, Zenon
    <3> USE DEF TypeOK
    <3> QED
      BY <2>1, <3>4 DEF AdoptRename
  <2>2. CASE AdoptMiss(s, d, c)
    BY <2>2 DEF AdoptMiss
  <2> QED
    BY <1>4, <2>1, <2>2 DEF Adopt
<1>5. ASSUME NEW s \in Sessions, NEW c \in Copies, AdoptTag(s, c) PROVE TypeOK'
  <2>1. [box EXCEPT ![s][c] = "pending"] \in [Inboxes -> [Copies -> FileStates]]
    BY DEF Inboxes
  <2> QED
    BY <1>5, <2>1 DEF AdoptTag
<1>6. ASSUME NEW s \in Sessions, NEW A, NEW D, NEW S, ReadPass(s, A, D, S)
      PROVE  /\ box' \in [Inboxes -> [Copies -> FileStates]]
             /\ fate' \in [Copies -> Fates]
  BY <1>6 DEF ReadPass, CleanupExpired, MarkRead, Inboxes
<1>7. ASSUME NEW s \in Sessions, NEW D, NEW S, Peek(s, S, D) PROVE TypeOK'
  BY <1>6, <1>7 DEF Peek
<1>8. ASSUME NEW s \in Sessions, NEW D, NEW F \in SUBSET Files(s), Ack(s, F, D) PROVE TypeOK'
  BY <1>6, <1>8 DEF Ack
<1>9. ASSUME NEW m \in Msgs, Lapse(m) PROVE TypeOK'
  BY <1>9 DEF Lapse
<1>10. ASSUME NEW m \in Msgs, NEW by \in Sessions \cup {Cli},
              NEW target \in Inboxes \cup {Everyone}, SendResolve(m, by, target)
       PROVE  TypeOK'
  BY <1>10 DEF SendResolve, Recipients, ResolveRecipients, Nick, Live, LiveSessionsOf, Inboxes
<1>11. ASSUME NEW m \in Msgs, NEW t \in Inboxes,
              DeliverMkdir(m, t) \/ DeliverWrite(m, t) \/ DeliverFail(m, t)
       PROVE  TypeOK'
  <2>1. CASE DeliverMkdir(m, t)
    BY <2>1 DEF DeliverMkdir
  <2>2. CASE DeliverWrite(m, t)
    <3>1. <<m, t>> \in Copies
      BY DEF Copies
    <3>2. box' \in [Inboxes -> [Copies -> FileStates]]
      BY <2>2, <3>1, BoxUpdate DEF DeliverWrite
    <3> QED
      BY <2>2, <3>1, <3>2 DEF DeliverWrite
  <2>3. CASE DeliverFail(m, t)
    BY <2>3 DEF DeliverFail
  <2> QED
    BY <1>11, <2>1, <2>2, <2>3
<1>12. ASSUME NEW m \in Msgs, NEW D, SendDone(m, D) PROVE TypeOK'
  BY <1>6, <1>12 DEF SendDone
<1>13. ASSUME NEW m \in Msgs, CliDies(m) PROVE TypeOK'
  BY <1>13 DEF CliDies
<1>14. CASE UNCHANGED vars
  BY <1>14 DEF vars
<1> QED
  BY <1>1, <1>2, <1>3, <1>4, <1>5, <1>7, <1>8, <1>9, <1>10, <1>11, <1>12, <1>13, <1>14
  DEF Next

\* What an adoption's rename does to the files.
LEMMA RenameEffect ==
  ASSUME TypeOK, NEW s \in Sessions, NEW d \in Inboxes, NEW c \in Copies, d # s,
         AdoptRename(s, d, c)
  PROVE  \A e \in Inboxes, k \in Copies :
            box'[e][k] = IF k # c \/ e \notin {d, s} THEN box[e][k]
                         ELSE IF e = d THEN "none" ELSE box[d][c]
<1> SUFFICES ASSUME NEW e \in Inboxes, NEW k \in Copies
             PROVE  box'[e][k] = IF k # c \/ e \notin {d, s} THEN box[e][k]
                                 ELSE IF e = d THEN "none" ELSE box[d][c]
  OBVIOUS
<1> DEFINE moved == [box EXCEPT ![d][c] = "none", ![s][c] = box[d][c]]
<1>1. s \in Inboxes /\ box \in [Inboxes -> [Copies -> FileStates]] /\ box' = moved
  BY DEF TypeOK, Inboxes, AdoptRename
<1>2. moved[e][k] = IF k # c \/ e \notin {d, s} THEN box[e][k]
                    ELSE IF e = d THEN "none" ELSE box[d][c]
  BY <1>1
<1> QED
  BY <1>1, <1>2, Zenon

\* What a reading pass does to the caller's files and to their fates.
LEMMA ReadPassEffect ==
  ASSUME TypeOK, NEW s \in Sessions, NEW F \in SUBSET Copies, NEW D, NEW S,
         \A c \in F : box[s][c] # "none",
         ReadPass(s, F, D, S)
  PROVE  /\ \A e \in Inboxes, k \in Copies : e # s => box'[e][k] = box[e][k]
         /\ \A k \in Copies :
              /\ box[s][k] = "none" => box'[s][k] = "none" /\ fate'[k] = fate[k]
              /\ box'[s][k] = "none" /\ box[s][k] # "none" => fate'[k] \in {"acked", "lapsed"}
              /\ box'[s][k] = "none" /\ box[s][k] = "pending" => fate'[k] = "acked"
              /\ box'[s][k] # "none" => fate'[k] = fate[k]
              /\ box'[s][k] = "expired" => box[s][k] = "expired" \/ k[1] \in lapsed
              /\ fate'[k] = "lapsed" =>
                   fate[k] = "lapsed" \/ box[s][k] = "expired" \/ k[1] \in lapsed
BY DEF TypeOK, ReadPass, CleanupExpired, MarkRead, FileStates, Inboxes

\* RelayInv is inductive.
LEMMA RelayStep == RelayInv /\ [Next]_vars => RelayInv'
<1> SUFFICES ASSUME RelayInv, [Next]_vars PROVE RelayInv'
  OBVIOUS
<1>0. TypeOK'
  BY TypeStep DEF RelayInv
<1> USE ConstantsOK DEF RelayInv, TypeOK, Phases, sendVars, sweepVars, Inboxes
<1>1. ASSUME NEW s \in Sessions, Reap(s) PROVE RelayInv'
  <2>10. RemoteNeverRuns'
    BY <1>1 DEF Reap, RemoteNeverRuns
  <2>11. SendsInOrder'
    BY <1>1 DEF Reap, SendsInOrder, Claimed
  <2>12. SenderServes'
    BY <1>1 DEF Reap, SenderServes
  <2>13. FilesClaimed'
    BY <1>1 DEF Reap, FilesClaimed, Claimed
  <2>14. SweepDead'
    BY <1>1 DEF Reap, SweepDead, Live
  <2>15. TaggingExclusive'
    BY <1>1 DEF Reap, TaggingExclusive, Live
  <2>16. /\ UnwrittenNowhere'
         /\ LapsedNotMustRead'
         /\ AdoptedOnce'
         /\ NothingLost'
         /\ MailStaysWithNick'
         /\ MustReadSurvives'
    BY <1>1 DEF Reap, UnwrittenNowhere, LapsedNotMustRead, AdoptedOnce, NothingLost, MailStaysWithNick, MustReadSurvives, Claimed, Live, Empty
  <2> QED
    BY <1>0, <2>10, <2>11, <2>12, <2>13, <2>14, <2>15, <2>16
<1>2. ASSUME NEW s \in Sessions, MakeInbox(s) PROVE RelayInv'
  <2>10. RemoteNeverRuns'
    BY <1>2 DEF MakeInbox, RemoteNeverRuns
  <2>11. SendsInOrder'
    BY <1>2 DEF MakeInbox, SendsInOrder, Claimed
  <2>12. SenderServes'
    BY <1>2 DEF MakeInbox, SenderServes
  <2>13. FilesClaimed'
    BY <1>2 DEF MakeInbox, FilesClaimed, Claimed
  <2>14. SweepDead'
    BY <1>2 DEF MakeInbox, SweepDead, Live
  <2>15. TaggingExclusive'
    BY <1>2 DEF MakeInbox, TaggingExclusive, Live
  <2>16. /\ UnwrittenNowhere'
         /\ LapsedNotMustRead'
         /\ AdoptedOnce'
         /\ NothingLost'
         /\ MailStaysWithNick'
         /\ MustReadSurvives'
    BY <1>2 DEF MakeInbox, UnwrittenNowhere, LapsedNotMustRead, AdoptedOnce, NothingLost, MailStaysWithNick, MustReadSurvives, Claimed, Live, Empty
  <2> QED
    BY <1>0, <2>10, <2>11, <2>12, <2>13, <2>14, <2>15, <2>16
<1>3. ASSUME NEW s \in Sessions, ClaimId(s) PROVE RelayInv'
  <2>10. RemoteNeverRuns'
    BY <1>3 DEF ClaimId, RemoteNeverRuns
  <2>11. SendsInOrder'
    BY <1>3 DEF ClaimId, SendsInOrder, Claimed
  <2>12. SenderServes'
    BY <1>3 DEF ClaimId, SenderServes
  <2>13. FilesClaimed'
    BY <1>3 DEF ClaimId, FilesClaimed, Claimed
  <2>14. SweepDead'
    BY <1>3 DEF ClaimId, SweepDead, FilesClaimed, Claimed, DonorFiles, Donor, Live
  <2>15. TaggingExclusive'
    BY <1>3 DEF ClaimId, TaggingExclusive, Live
  <2>16. /\ UnwrittenNowhere'
         /\ LapsedNotMustRead'
         /\ AdoptedOnce'
         /\ NothingLost'
         /\ MailStaysWithNick'
         /\ MustReadSurvives'
    BY <1>3 DEF ClaimId, UnwrittenNowhere, LapsedNotMustRead, AdoptedOnce, NothingLost, MailStaysWithNick, MustReadSurvives, Claimed, Live, Empty
  <2> QED
    BY <1>0, <2>10, <2>11, <2>12, <2>13, <2>14, <2>15, <2>16
<1>4. ASSUME NEW s \in Sessions, Serve(s) PROVE RelayInv'
  <2>10. RemoteNeverRuns'
    BY <1>4 DEF Serve, RemoteNeverRuns
  <2>11. SendsInOrder'
    BY <1>4 DEF Serve, SendsInOrder, Claimed
  <2>12. SenderServes'
    BY <1>4 DEF Serve, SenderServes
  <2>13. FilesClaimed'
    BY <1>4 DEF Serve, FilesClaimed, Claimed
  <2>14. SweepDead'
    BY <1>4 DEF Serve, SweepDead, Live
  <2>15. TaggingExclusive'
    BY <1>4 DEF Serve, TaggingExclusive, Live
  <2>16. /\ UnwrittenNowhere'
         /\ LapsedNotMustRead'
         /\ AdoptedOnce'
         /\ NothingLost'
         /\ MailStaysWithNick'
         /\ MustReadSurvives'
    BY <1>4 DEF Serve, UnwrittenNowhere, LapsedNotMustRead, AdoptedOnce, NothingLost, MailStaysWithNick, MustReadSurvives, Claimed, Live, Empty
  <2> QED
    BY <1>0, <2>10, <2>11, <2>12, <2>13, <2>14, <2>15, <2>16
<1>5. ASSUME NEW s \in Sessions, Exit(s) PROVE RelayInv'
  <2>10. RemoteNeverRuns'
    BY <1>5 DEF Exit, RemoteNeverRuns
  <2>11. SendsInOrder'
    BY <1>5 DEF Exit, SendsInOrder, Claimed
  <2>12. SenderServes'
    BY <1>5 DEF Exit, SenderServes
  <2>13. FilesClaimed'
    BY <1>5 DEF Exit, FilesClaimed, Claimed
  <2>14. SweepDead'
    BY <1>5 DEF Exit, SweepDead, Live
  <2>15. TaggingExclusive'
    BY <1>5 DEF Exit, TaggingExclusive, Live
  <2>16. /\ UnwrittenNowhere'
         /\ LapsedNotMustRead'
         /\ AdoptedOnce'
         /\ NothingLost'
         /\ MailStaysWithNick'
         /\ MustReadSurvives'
    BY <1>5 DEF Exit, UnwrittenNowhere, LapsedNotMustRead, AdoptedOnce, NothingLost, MailStaysWithNick, MustReadSurvives, Claimed, Live, Empty
  <2> QED
    BY <1>0, <2>10, <2>11, <2>12, <2>13, <2>14, <2>15, <2>16
<1>6. ASSUME NEW s \in Sessions, BeginSweep(s) PROVE RelayInv'
  <2>10. SweepDead'
    BY <1>6 DEF BeginSweep, SweepDead, FilesClaimed, Claimed, DonorFiles, Donor, Live
  <2>11. /\ RemoteNeverRuns'
         /\ UnwrittenNowhere'
         /\ SendsInOrder'
         /\ SenderServes'
         /\ FilesClaimed'
         /\ TaggingExclusive'
         /\ LapsedNotMustRead'
         /\ AdoptedOnce'
         /\ NothingLost'
         /\ MailStaysWithNick'
         /\ MustReadSurvives'
    BY <1>6 DEF BeginSweep, RemoteNeverRuns, UnwrittenNowhere, SendsInOrder, SenderServes, FilesClaimed, TaggingExclusive, LapsedNotMustRead, AdoptedOnce, NothingLost, MailStaysWithNick, MustReadSurvives, Claimed, Live, Empty
  <2> QED
    BY <1>0, <2>10, <2>11
<1>7. ASSUME NEW s \in Sessions, NEW d \in Inboxes, NEW c \in Copies, AdoptRename(s, d, c)
      PROVE  RelayInv'
  <2>1. /\ <<d, c>> \in sweep[s] /\ s \in Live /\ d # s /\ NickOf[s] = Nick(d)
        /\ d \notin Remote /\ s \notin Remote /\ d \notin Live /\ box[d][c] = "pending"
    BY <1>7 DEF AdoptRename, SweepDead, Live, RemoteNeverRuns
  <2>2. \A e \in Inboxes, k \in Copies :
          box'[e][k] = IF k # c \/ e \notin {d, s} THEN box[e][k]
                       ELSE IF e = d THEN "none" ELSE "pending"
    BY <1>7, <2>1, RenameEffect
  <2>0. s \in Inboxes
    OBVIOUS
  <2>3. /\ tagging' = [tagging EXCEPT ![s] = {c}] /\ tagging[s] = {}
        /\ sweep' = [sweep EXCEPT ![s] = @ \ {<<d, c>>}]
        /\ UNCHANGED <<phase, dirs, known, stage, sender, todo, made, lapsed, fate>>
    BY <1>7 DEF AdoptRename
  <2> HIDE DEF TypeOK, Inboxes, Phases
  <2>4. \A e \in Inboxes : e # d => box[e][c] = "none"
    BY <2>1 DEF AdoptedOnce
  <2>5. \A r \in Sessions : c \notin tagging[r]
    BY <2>1 DEF TaggingExclusive
  <2>6. Belongs(s, c)
    BY <2>1 DEF MailStaysWithNick, Belongs, Nick
  <2>10. UnwrittenNowhere'
    BY <2>1, <2>2, <2>3 DEF UnwrittenNowhere
  <2>11. FilesClaimed'
    BY <2>1, <2>2, <2>3 DEF FilesClaimed, Claimed, Live
  <2>12. SweepDead'
    BY <2>1, <2>2, <2>3 DEF SweepDead, Live
  <2>13. TaggingExclusive'
    <3> SUFFICES ASSUME NEW r \in Sessions, NEW k \in Copies, k \in tagging'[r]
                 PROVE  /\ r \in Live'
                        /\ Belongs(r, k)
                        /\ \A e \in Inboxes : e # r => box'[e][k] = "none"
                        /\ \A q \in Sessions : k \in tagging'[q] => q = r
      BY DEF TaggingExclusive, Belongs
    <3>1. CASE r = s
      BY <3>1, <2>0, <2>1, <2>2, <2>3, <2>4, <2>5, <2>6 DEF Live
    <3>2. CASE r # s
      <4>1. k \in tagging[r] /\ k # c
        BY <3>2, <2>3, <2>5
      <4> QED
        BY <3>2, <4>1, <2>2, <2>3 DEF TaggingExclusive, Live
    <3> QED
      BY <3>1, <3>2
  <2>14. AdoptedOnce'
    BY <2>1, <2>2, <2>4 DEF AdoptedOnce
  <2>15. NothingLost'
    BY <2>0, <2>1, <2>2, <2>3 DEF NothingLost
  <2>16. MailStaysWithNick'
    BY <2>0, <2>1, <2>2, <2>3, <2>6 DEF MailStaysWithNick
  <2>17. MustReadSurvives'
    BY <2>1, <2>2, <2>3 DEF MustReadSurvives
  <2>18. RemoteNeverRuns' /\ SendsInOrder' /\ SenderServes' /\ LapsedNotMustRead'
    BY <2>3 DEF RemoteNeverRuns, SendsInOrder, SenderServes, LapsedNotMustRead, Claimed
  <2> QED
    BY <1>0, <2>10, <2>11, <2>12, <2>13, <2>14, <2>15, <2>16, <2>17, <2>18
<1>8. ASSUME NEW s \in Sessions, NEW d \in Inboxes, NEW c \in Copies,
             AdoptMiss(s, d, c)
      PROVE  RelayInv'
  <2>10. SweepDead'
    BY <1>8 DEF AdoptMiss, SweepDead, Live
  <2>11. /\ RemoteNeverRuns'
         /\ UnwrittenNowhere'
         /\ SendsInOrder'
         /\ SenderServes'
         /\ FilesClaimed'
         /\ TaggingExclusive'
         /\ LapsedNotMustRead'
         /\ AdoptedOnce'
         /\ NothingLost'
         /\ MailStaysWithNick'
         /\ MustReadSurvives'
    BY <1>8 DEF AdoptMiss, RemoteNeverRuns, UnwrittenNowhere, SendsInOrder, SenderServes, FilesClaimed, TaggingExclusive, LapsedNotMustRead, AdoptedOnce, NothingLost, MailStaysWithNick, MustReadSurvives, Claimed, Live, Empty
  <2> QED
    BY <1>0, <2>10, <2>11
<1>9. ASSUME NEW s \in Sessions, NEW c \in Copies, AdoptTag(s, c) PROVE RelayInv'
  <2>1. \/ \A e \in Inboxes, k \in Copies :
             box'[e][k] = IF e = s /\ k = c THEN "pending" ELSE box[e][k]
        \/ box' = box
    <3>1. "pending" \in FileStates
      BY DEF FileStates
    <3> QED
      BY <1>9, <3>1, BoxUpdate DEF AdoptTag
  <2>2. /\ c \in tagging[s] /\ s \in Live /\ Belongs(s, c)
        /\ \A d \in Inboxes : d # s => box[d][c] = "none"
    BY <1>9 DEF AdoptTag, TaggingExclusive
  <2>3. /\ tagging' = [tagging EXCEPT ![s] = {}]
        /\ \A r \in Sessions : sweep'[r] \subseteq sweep[r]
        /\ UNCHANGED <<phase, dirs, known, stage, sender, todo, made, lapsed, fate>>
    BY <1>9 DEF AdoptTag
  <2>4. s \in Inboxes
    OBVIOUS
  <2> HIDE DEF TypeOK, Inboxes, Phases
  <2>10. UnwrittenNowhere'
    BY <2>1, <2>2, <2>3 DEF UnwrittenNowhere
  <2>11. FilesClaimed'
    BY <2>1, <2>2, <2>3 DEF FilesClaimed, Claimed, Live
  <2>12. SweepDead'
    BY <2>1, <2>2, <2>3 DEF SweepDead, Live
  <2>13. TaggingExclusive'
    BY <2>1, <2>2, <2>3 DEF TaggingExclusive, Live
  <2>14. AdoptedOnce'
    BY <2>1, <2>2 DEF AdoptedOnce
  <2>15. NothingLost'
    BY <2>1, <2>3 DEF NothingLost
  <2>16. MailStaysWithNick'
    BY <2>1, <2>2 DEF MailStaysWithNick
  <2>17. MustReadSurvives'
    BY <2>1, <2>3 DEF MustReadSurvives
  <2>18. RemoteNeverRuns' /\ SendsInOrder' /\ SenderServes' /\ LapsedNotMustRead'
    BY <2>3 DEF RemoteNeverRuns, SendsInOrder, SenderServes, LapsedNotMustRead, Claimed
  <2> QED
    BY <1>0, <2>10, <2>11, <2>12, <2>13, <2>14, <2>15, <2>16, <2>17, <2>18
<1>10. ASSUME NEW s \in Sessions, NEW F \in SUBSET Copies, NEW D, NEW S,
              phase[s] = "serving", \A c \in F : box[s][c] # "none",
              ReadPass(s, F, D, S),
              UNCHANGED <<phase, dirs, known, sender, todo, made, sweepVars, lapsed>>,
              \A m \in Msgs : stage'[m] # stage[m] => stage'[m] = "sent" /\ stage[m] = "sending"
       PROVE  RelayInv'
  <2>0. s \in Inboxes /\ s \in Live
    BY <1>10 DEF Live
  <2>2. UNCHANGED <<phase, dirs, known, sender, todo, made, sweep, tagging, lapsed>>
    BY <1>10
  <2> HIDE DEF TypeOK, Inboxes, Phases, sweepVars
  <2>1. /\ \A e \in Inboxes, k \in Copies : e # s => box'[e][k] = box[e][k]
        /\ \A k \in Copies :
             /\ box[s][k] = "none" => box'[s][k] = "none" /\ fate'[k] = fate[k]
             /\ box'[s][k] = "none" /\ box[s][k] # "none" => fate'[k] \in {"acked", "lapsed"}
             /\ box'[s][k] # "none" => fate'[k] = fate[k]
             /\ box'[s][k] = "expired" => box[s][k] = "expired" \/ k[1] \in lapsed
             /\ fate'[k] = "lapsed" =>
                  fate[k] = "lapsed" \/ box[s][k] = "expired" \/ k[1] \in lapsed
    BY <1>10, ReadPassEffect
  <2>3. \A m \in Msgs, t \in Inboxes : <<m, t>> \in Copies
    BY DEF Copies
  <2>4. \A k \in Copies : fate[k] = "unwritten" => fate'[k] = "unwritten"
    BY <2>0, <2>1 DEF UnwrittenNowhere
  <2>10. UnwrittenNowhere'
    BY <2>0, <2>1, <2>2 DEF UnwrittenNowhere
  <2>11. SendsInOrder'
    BY <1>10, <2>2, <2>3, <2>4 DEF SendsInOrder, Claimed
  <2>12. SenderServes'
    BY <1>10, <2>2 DEF SenderServes
  <2>13. FilesClaimed'
    BY <2>0, <2>1, <2>2 DEF FilesClaimed, Claimed
  <2>14. SweepDead'
    BY <1>10, <2>0, <2>1, <2>2, ConstantsOK DEF SweepDead, Live, Inboxes
  <2>15. TaggingExclusive'
    BY <2>0, <2>1, <2>2 DEF TaggingExclusive, Live
  <2>16. AdoptedOnce'
    BY <2>0, <2>1 DEF AdoptedOnce
  <2>17. NothingLost'
    BY <2>0, <2>1 DEF NothingLost
  <2>18. MailStaysWithNick'
    BY <2>0, <2>1 DEF MailStaysWithNick
  <2>19. MustReadSurvives'
    BY <2>0, <2>1 DEF MustReadSurvives, LapsedNotMustRead
  <2>20. RemoteNeverRuns' /\ LapsedNotMustRead'
    BY <2>2 DEF RemoteNeverRuns, LapsedNotMustRead
  <2> QED
    BY <1>0, <2>10, <2>11, <2>12, <2>13, <2>14, <2>15, <2>16, <2>17, <2>18, <2>19, <2>20
<1>11. ASSUME NEW s \in Sessions, NEW S, NEW D, Peek(s, S, D) PROVE RelayInv'
  BY <1>10, <1>11 DEF Peek, Idle
<1>12. ASSUME NEW s \in Sessions, NEW F \in SUBSET Files(s), NEW D, Ack(s, F, D) PROVE RelayInv'
  <2>1. F \in SUBSET Copies /\ \A k \in F : box[s][k] # "none"
    BY <1>12 DEF Ack, Files
  <2> QED
    BY <1>10, <1>12, <2>1 DEF Ack, Idle
<1>13. ASSUME NEW m \in Msgs, NEW D, SendDone(m, D) PROVE RelayInv'
  <2>1. CASE sender[m] \in Sessions
    BY <1>10, <1>13, <2>1 DEF SendDone, SenderServes
  <2>2. CASE sender[m] \notin Sessions
    BY <1>0, <1>13, <2>2 DEF SendDone, RemoteNeverRuns, UnwrittenNowhere, SendsInOrder,
       SenderServes, FilesClaimed, SweepDead, TaggingExclusive, LapsedNotMustRead, AdoptedOnce,
       NothingLost, MailStaysWithNick, MustReadSurvives, Claimed, Live
  <2> QED
    BY <2>1, <2>2
<1>14. ASSUME NEW m \in Msgs, Lapse(m) PROVE RelayInv'
  <2>10. LapsedNotMustRead'
    BY <1>14 DEF Lapse, LapsedNotMustRead
  <2>11. SendsInOrder'
    BY <1>14 DEF Lapse, SendsInOrder, Claimed
  <2>12. /\ RemoteNeverRuns'
         /\ UnwrittenNowhere'
         /\ SenderServes'
         /\ FilesClaimed'
         /\ SweepDead'
         /\ TaggingExclusive'
         /\ AdoptedOnce'
         /\ NothingLost'
         /\ MailStaysWithNick'
         /\ MustReadSurvives'
    BY <1>14 DEF Lapse, RemoteNeverRuns, UnwrittenNowhere, SenderServes, FilesClaimed, SweepDead, TaggingExclusive, AdoptedOnce, NothingLost, MailStaysWithNick, MustReadSurvives, Claimed, Live, Empty
  <2> QED
    BY <1>0, <2>10, <2>11, <2>12
<1>15. ASSUME NEW m \in Msgs, NEW by \in Sessions \cup {Cli}, NEW target \in Inboxes \cup {Everyone},
             SendResolve(m, by, target)
      PROVE  RelayInv'
  <2>1. \A t \in Recipients(by, target) : t \in Inboxes /\ Claimed(t)
    BY DEF Recipients, ResolveRecipients, LiveSessionsOf, Live, Nick, Claimed
  <2>10. SendsInOrder'
    BY <1>15, <2>1 DEF SendResolve, SendsInOrder, Claimed
  <2>11. SenderServes'
    BY <1>15, <2>1 DEF SendResolve, SenderServes, Idle
  <2>12. /\ RemoteNeverRuns'
         /\ UnwrittenNowhere'
         /\ FilesClaimed'
         /\ SweepDead'
         /\ TaggingExclusive'
         /\ LapsedNotMustRead'
         /\ AdoptedOnce'
         /\ NothingLost'
         /\ MailStaysWithNick'
         /\ MustReadSurvives'
    BY <1>15, <2>1 DEF SendResolve, RemoteNeverRuns, UnwrittenNowhere, FilesClaimed, SweepDead, TaggingExclusive, LapsedNotMustRead, AdoptedOnce, NothingLost, MailStaysWithNick, MustReadSurvives, Claimed, Live, Empty
  <2> QED
    BY <1>0, <2>10, <2>11, <2>12
<1>16. ASSUME NEW m \in Msgs, NEW t \in Inboxes, DeliverMkdir(m, t) PROVE RelayInv'
  <2>10. SendsInOrder'
    BY <1>16 DEF DeliverMkdir, SendsInOrder, Claimed
  <2>11. /\ RemoteNeverRuns'
         /\ UnwrittenNowhere'
         /\ SenderServes'
         /\ FilesClaimed'
         /\ SweepDead'
         /\ TaggingExclusive'
         /\ LapsedNotMustRead'
         /\ AdoptedOnce'
         /\ NothingLost'
         /\ MailStaysWithNick'
         /\ MustReadSurvives'
    BY <1>16 DEF DeliverMkdir, RemoteNeverRuns, UnwrittenNowhere, SenderServes, FilesClaimed, SweepDead, TaggingExclusive, LapsedNotMustRead, AdoptedOnce, NothingLost, MailStaysWithNick, MustReadSurvives, Claimed, Live, Empty
  <2> QED
    BY <1>0, <2>10, <2>11
<1>17. ASSUME NEW m \in Msgs, NEW t \in Inboxes, DeliverFail(m, t) PROVE RelayInv'
  <2>10. SendsInOrder'
    BY <1>17 DEF DeliverFail, SendsInOrder, Claimed
  <2>11. SenderServes'
    BY <1>17 DEF DeliverFail, SenderServes
  <2>12. /\ RemoteNeverRuns'
         /\ UnwrittenNowhere'
         /\ FilesClaimed'
         /\ SweepDead'
         /\ TaggingExclusive'
         /\ LapsedNotMustRead'
         /\ AdoptedOnce'
         /\ NothingLost'
         /\ MailStaysWithNick'
         /\ MustReadSurvives'
    BY <1>17 DEF DeliverFail, RemoteNeverRuns, UnwrittenNowhere, FilesClaimed, SweepDead, TaggingExclusive, LapsedNotMustRead, AdoptedOnce, NothingLost, MailStaysWithNick, MustReadSurvives, Claimed, Live, Empty
  <2> QED
    BY <1>0, <2>10, <2>11, <2>12
<1>18. ASSUME NEW m \in Msgs, CliDies(m) PROVE RelayInv'
  <2>10. SendsInOrder'
    BY <1>18 DEF CliDies, SendsInOrder, Claimed
  <2>11. SenderServes'
    BY <1>18 DEF CliDies, SenderServes
  <2>12. /\ RemoteNeverRuns'
         /\ UnwrittenNowhere'
         /\ FilesClaimed'
         /\ SweepDead'
         /\ TaggingExclusive'
         /\ LapsedNotMustRead'
         /\ AdoptedOnce'
         /\ NothingLost'
         /\ MailStaysWithNick'
         /\ MustReadSurvives'
    BY <1>18 DEF CliDies, RemoteNeverRuns, UnwrittenNowhere, FilesClaimed, SweepDead, TaggingExclusive, LapsedNotMustRead, AdoptedOnce, NothingLost, MailStaysWithNick, MustReadSurvives, Claimed, Live, Empty
  <2> QED
    BY <1>0, <2>10, <2>11, <2>12
<1>19. ASSUME NEW m \in Msgs, NEW t \in Inboxes, DeliverWrite(m, t) PROVE RelayInv'
  <2> DEFINE c == <<m, t>>
  <2>1. \A n \in Msgs, u \in Inboxes : <<n, u>> \in Copies
    BY DEF Copies
  <2>2. /\ \A e \in Inboxes, k \in Copies :
             box'[e][k] = IF e = t /\ k = c THEN "pending" ELSE box[e][k]
    <3>1. "pending" \in FileStates
      BY DEF FileStates
    <3> QED
      BY <1>19, <2>1, <3>1, BoxUpdate DEF DeliverWrite
  <2>3. /\ fate' = [fate EXCEPT ![c] = "held"] /\ fate \in [Copies -> Fates]
        /\ todo' = [todo EXCEPT ![m] = @ \ {t}] /\ todo \in [Msgs -> SUBSET Inboxes]
        /\ made' = [made EXCEPT ![m] = {}] /\ made \in [Msgs -> SUBSET Inboxes]
        /\ UNCHANGED <<phase, dirs, known, stage, sender, sweep, tagging, lapsed>>
    BY <1>19 DEF DeliverWrite
  <2>4. /\ t \in todo[m] /\ stage[m] # "new" /\ fate[c] = "unwritten" /\ Claimed(t)
        /\ \A d \in Inboxes : box[d][c] = "none"
        /\ \A s \in Sessions : c \notin tagging[s]
    BY <1>19, <2>1 DEF DeliverWrite, SendsInOrder, UnwrittenNowhere
  <2>5. c \in Copies /\ c[1] = m /\ c[2] = t /\ \A n \in Msgs, u \in Inboxes :
           <<n, u>> = c => n = m /\ u = t
    BY <2>1
  <2> HIDE DEF c, TypeOK, Inboxes, Phases
  <2>10. UnwrittenNowhere'
    BY <2>2, <2>3, <2>4, <2>5 DEF UnwrittenNowhere
  <2>11. SendsInOrder'
    <3> SUFFICES ASSUME NEW n \in Msgs, NEW u \in Inboxes
                 PROVE  /\ stage'[n] = "new" => fate'[<<n, u>>] = "unwritten" /\ u \notin todo'[n]
                        /\ u \in todo'[n] => fate'[<<n, u>>] = "unwritten" /\ Claimed(u)
                        /\ u \in made'[n] => u \in todo'[n]
      BY <2>3 DEF SendsInOrder, Claimed
    <3>1. u \in todo'[n] => u \in todo[n] /\ <<n, u>> # c
      BY <2>3, <2>5
    <3>2. <<n, u>> # c => fate'[<<n, u>>] = fate[<<n, u>>]
      BY <2>1, <2>3
    <3>3. stage[n] = "new" => <<n, u>> # c
      BY <2>4, <2>5
    <3>4. u \in made'[n] => u \in made[n] /\ n # m
      BY <2>3
    <3>5. n # m => todo'[n] = todo[n]
      BY <2>3
    <3> QED
      BY <2>3, <3>1, <3>2, <3>3, <3>4, <3>5 DEF SendsInOrder
  <2>13. FilesClaimed'
    BY <2>2, <2>3, <2>4 DEF FilesClaimed, Claimed
  <2>14. SweepDead'
    BY <2>2, <2>3 DEF SweepDead, Live
  <2>15. TaggingExclusive'
    BY <2>2, <2>3, <2>4 DEF TaggingExclusive, Live
  <2>16. AdoptedOnce'
    BY <2>2, <2>4 DEF AdoptedOnce
  <2>17. NothingLost'
    BY <2>2, <2>3, <2>5 DEF NothingLost
  <2>18. MailStaysWithNick'
    BY <2>2, <2>5 DEF MailStaysWithNick, Belongs
  <2>19. MustReadSurvives'
    BY <2>2, <2>3 DEF MustReadSurvives
  <2>20. RemoteNeverRuns' /\ SenderServes' /\ LapsedNotMustRead'
    BY <2>3 DEF RemoteNeverRuns, SenderServes, LapsedNotMustRead
  <2> QED
    BY <1>0, <2>10, <2>11, <2>13, <2>14, <2>15, <2>16, <2>17, <2>18, <2>19, <2>20
<1>20. CASE UNCHANGED vars
  BY <1>0, <1>20 DEF vars, RemoteNeverRuns, UnwrittenNowhere, SendsInOrder, SenderServes,
     FilesClaimed, SweepDead, TaggingExclusive, LapsedNotMustRead, AdoptedOnce, NothingLost,
     MailStaysWithNick, MustReadSurvives, Claimed, Live
<1> QED
  BY <1>1, <1>2, <1>3, <1>4, <1>5, <1>6, <1>7, <1>8, <1>9, <1>11, <1>12, <1>13, <1>14, <1>15,
     <1>16, <1>17, <1>18, <1>19, <1>20
  DEF Next, Startup, Adopt

\* RelayInv holds of the empty relay.
LEMMA RelayStart == Init => RelayInv
BY ConstantsOK DEF Init, RelayInv, TypeOK, Phases, FileStates, Stages, Fates, RemoteNeverRuns,
   UnwrittenNowhere, SendsInOrder, SenderServes, FilesClaimed, SweepDead, TaggingExclusive,
   LapsedNotMustRead, AdoptedOnce, NothingLost, MailStaysWithNick, MustReadSurvives, Claimed, Live,
   Copies

\* RelayInv holds throughout.
LEMMA RelayInvariance == Spec => []RelayInv
BY RelayStart, RelayStep, PTL DEF Spec

\* The relay's variables keep their types in every behaviour.
THEOREM RelayTypes == Spec => []TypeOK
<1>1. RelayInv => TypeOK
  BY DEF RelayInv
<1> QED
  BY <1>1, RelayInvariance, PTL

\* However many heirs race for however many corpses, no file is ever in two
\* inboxes: server._inherit_orphan_inbox adopts each one exactly once.
THEOREM AdoptionIsExclusive == Spec => []AdoptedOnce
<1>1. RelayInv => AdoptedOnce
  BY DEF RelayInv
<1> QED
  BY <1>1, RelayInvariance, PTL

\* A written message is on disk until it is acked or has expired, through any
\* crashes, reaps, failed sends and adoptions.
THEOREM MailIsNeverLost == Spec => []NothingLost
<1>1. RelayInv => NothingLost
  BY DEF RelayInv
<1> QED
  BY <1>1, RelayInvariance, PTL

\* Mail never crosses to another nick, nor from another host's session.
THEOREM AdoptionIsNarrow == Spec => []MailStaysWithNick
<1>1. RelayInv => MailStaysWithNick
  BY DEF RelayInv
<1> QED
  BY <1>1, RelayInvariance, PTL

\* What a step may do to the files: only unread mail moves, and unread mail
\* leaves a live session's inbox only by its own ack.
LEMMA FilesStep ==
  ASSUME RelayInv, [Next]_vars
  PROVE  /\ \A s \in Sessions, c \in Copies :
              s \in Live /\ s \in Live' /\ box[s][c] = "pending" /\ box'[s][c] = "none"
                 => fate'[c] = "acked"
         /\ \A d, e \in Inboxes, c \in Copies :
              d # e /\ box[d][c] \in {"read", "expired"} => box'[e][c] = "none"
<1> DEFINE Kept == \A s \in Sessions, c \in Copies :
                      s \in Live /\ s \in Live' /\ box[s][c] = "pending" /\ box'[s][c] = "none"
                         => fate'[c] = "acked"
           Stays == \A d, e \in Inboxes, c \in Copies :
                       d # e /\ box[d][c] \in {"read", "expired"} => box'[e][c] = "none"
<1> USE DEF RelayInv
<1>0. Sessions \subseteq Inboxes
  BY DEF Inboxes
<1>1. ASSUME UNCHANGED box PROVE Kept /\ Stays
  BY <1>0, <1>1 DEF AdoptedOnce
<1>2. ASSUME NEW s \in Sessions, NEW F \in SUBSET Copies, NEW D, NEW S,
             \A c \in F : box[s][c] # "none", ReadPass(s, F, D, S)
      PROVE  Kept /\ Stays
  <2>1. /\ \A e \in Inboxes, k \in Copies : e # s => box'[e][k] = box[e][k]
        /\ \A k \in Copies :
             /\ box[s][k] = "none" => box'[s][k] = "none"
             /\ box'[s][k] = "none" /\ box[s][k] = "pending" => fate'[k] = "acked"
    BY <1>2, ReadPassEffect
  <2> QED
    BY <1>0, <2>1 DEF AdoptedOnce
<1>3. ASSUME NEW s \in Sessions, NEW d \in Inboxes, NEW c \in Copies, AdoptRename(s, d, c)
      PROVE  Kept /\ Stays
  <2>1. <<d, c>> \in sweep[s] /\ box[d][c] # "none" /\ phase' = phase
    BY <1>3 DEF AdoptRename
  <2>2. s \in Live /\ (d \in Nicks \/ phase[d] = "gone") /\ box[d][c] = "pending"
    BY <2>1 DEF SweepDead
  <2>3. d \notin Live /\ d # s
    BY <2>2, ConstantsOK DEF Live
  <2>4. \A e \in Inboxes, k \in Copies :
          box'[e][k] = IF k # c \/ e \notin {d, s} THEN box[e][k]
                       ELSE IF e = d THEN "none" ELSE "pending"
    BY <1>3, <2>2, <2>3, RenameEffect
  <2> QED
    BY <1>0, <2>2, <2>3, <2>4 DEF AdoptedOnce
<1>4. ASSUME NEW s \in Sessions, NEW c \in Copies, AdoptTag(s, c) PROVE Kept /\ Stays
  <2>1. c \in tagging[s] /\ (box' = [box EXCEPT ![s][c] = "pending"] \/ box' = box)
    BY <1>4 DEF AdoptTag
  <2>2. \A d \in Inboxes : d # s => box[d][c] = "none"
    BY <2>1 DEF TaggingExclusive
  <2>3. "pending" \in FileStates /\ box \in [Inboxes -> [Copies -> FileStates]] /\ s \in Inboxes
    BY <1>0 DEF FileStates, TypeOK
  <2>4. CASE box' = [box EXCEPT ![s][c] = "pending"]
    <3>1. \A e \in Inboxes, k \in Copies :
             box'[e][k] = IF e = s /\ k = c THEN "pending" ELSE box[e][k]
      BY <2>3, <2>4, BoxUpdate
    <3> QED
      BY <1>0, <2>2, <3>1 DEF AdoptedOnce
  <2> QED
    BY <1>1, <2>1, <2>4
<1>5. ASSUME NEW m \in Msgs, NEW t \in Inboxes, DeliverWrite(m, t) PROVE Kept /\ Stays
  <2>1. <<m, t>> \in Copies /\ t \in todo[m] /\ box' = [box EXCEPT ![t][<<m, t>>] = "pending"]
    BY <1>5 DEF DeliverWrite, SendsInOrder, Copies
  <2>2. \A d \in Inboxes : box[d][<<m, t>>] = "none"
    BY <2>1 DEF SendsInOrder, UnwrittenNowhere
  <2>3. "pending" \in FileStates /\ box \in [Inboxes -> [Copies -> FileStates]]
    BY DEF FileStates, TypeOK
  <2>4. \A e \in Inboxes, k \in Copies :
          box'[e][k] = IF e = t /\ k = <<m, t>> THEN "pending" ELSE box[e][k]
    BY <2>1, <2>3, BoxUpdate
  <2> QED
    BY <1>0, <2>2, <2>4 DEF AdoptedOnce
<1>6. ASSUME NEW s \in Sessions, NEW F \in SUBSET Files(s), NEW D, Ack(s, F, D) PROVE Kept /\ Stays
  <2>1. F \in SUBSET Copies /\ \A k \in F : box[s][k] # "none"
    BY <1>6 DEF Ack, Files
  <2> QED
    BY <1>2, <1>6, <2>1 DEF Ack
<1>7. ASSUME NEW s \in Sessions, NEW S, NEW D, Peek(s, S, D) PROVE Kept /\ Stays
  <2> HIDE DEF Kept, Stays
  <2>1. {} \in SUBSET Copies /\ ReadPass(s, {}, D, S)
    BY <1>7 DEF Peek
  <2> QED
    BY <1>2, <2>1
<1>8. ASSUME NEW m \in Msgs, NEW D, SendDone(m, D) PROVE Kept /\ Stays
  BY <1>1, <1>2, <1>8 DEF SendDone
<1> QED
  <2> HIDE DEF Kept, Stays
  <2>1. Kept /\ Stays
    BY <1>1, <1>3, <1>4, <1>5, <1>6, <1>7, <1>8
    DEF Next, Startup, Reap, MakeInbox, ClaimId, Serve, Exit, BeginSweep, Adopt, AdoptMiss,
        Lapse, SendResolve, DeliverMkdir, DeliverFail, CliDies, vars
  <2> QED
    BY <2>1 DEF Kept, Stays

\* No sibling's adoption pass takes mail from a session that is alive.
THEOREM LiveMailIsSafe == Spec => LiveMailStays
<1>1. RelayInv /\ [Next]_vars =>
        [\A s \in Sessions, c \in Copies :
            s \in Live /\ s \in Live' /\ box[s][c] = "pending" /\ box'[s][c] = "none"
               => fate'[c] = "acked"]_vars
  BY FilesStep
<1> QED
  BY <1>1, RelayInvariance, PTL DEF Spec, LiveMailStays

\* An heir is never handed mail its predecessor had read or let expire.
THEOREM ReadMailIsNotInherited == Spec => OnlyUnreadInherited
<1>1. RelayInv /\ [Next]_vars =>
        [\A d, e \in Inboxes, c \in Copies :
            d # e /\ box[d][c] \in {"read", "expired"} => box'[e][c] = "none"]_vars
  BY FilesStep
<1> QED
  BY <1>1, RelayInvariance, PTL DEF Spec, OnlyUnreadInherited

-----------------------------------------------------------------------------
(* The refinement of Mailbox.                                              *)

\* A copy that has a file is where the file is, and its life is the file's state.
LEMMA LifeOfFile ==
  ASSUME NEW b \in [Inboxes -> [Copies -> FileStates]], NEW f,
         NEW c \in Copies, NEW d \in Inboxes, b[d][c] # "none",
         \A e \in Inboxes : b[e][c] # "none" => e = d
  PROVE  /\ Whereabouts(b)[c] = {d}
         /\ Lives(b, f)[c] = IF b[d][c] = "pending" THEN "unread"
                             ELSE IF b[d][c] = "read" THEN "seen" ELSE "buried"
<1>1. b[d][c] \in {"pending", "read", "expired"}
  BY DEF FileStates
<1>2. \A e \in Inboxes : e # d => b[e][c] = "none"
  OBVIOUS
<1>3. Whereabouts(b)[c] = {d}
  BY DEF Whereabouts
<1> QED
  BY <1>1, <1>2, <1>3 DEF Lives

\* A copy without a file is nowhere.
LEMMA LifeOfNoFile ==
  ASSUME NEW b \in [Inboxes -> [Copies -> FileStates]], NEW f,
         NEW c \in Copies, \A e \in Inboxes : b[e][c] = "none"
  PROVE  /\ Whereabouts(b)[c] = {}
         /\ Lives(b, f)[c] = IF f[c] = "unwritten" THEN "unsent"
                             ELSE IF f[c] = "lapsed" THEN "expired"
                             ELSE IF f[c] = "acked" THEN "acked" ELSE "lost"
BY DEF Whereabouts, Lives

\* The lives of copies whose files and histories are the same are the same.
LEMMA SameLife ==
  ASSUME NEW b, NEW b2, NEW f, NEW f2, NEW c \in Copies,
         \A e \in Inboxes : b2[e][c] = b[e][c],
         f2[c] = f[c]
  PROVE  Whereabouts(b2)[c] = Whereabouts(b)[c] /\ Lives(b2, f2)[c] = Lives(b, f)[c]
BY DEF Whereabouts, Lives

\* A reading pass never makes a file newer than it was.
LEMMA ReadPassAges ==
  ASSUME TypeOK, NEW s \in Sessions, NEW F \in SUBSET Copies, NEW D, NEW S,
         ReadPass(s, F, D, S), NEW k \in Copies
  PROVE  /\ box'[s][k] = "pending" => box[s][k] = "pending"
         /\ box'[s][k] = "read" => box[s][k] \in {"pending", "read"}
         /\ box'[s][k] = "expired" => box[s][k] \in {"pending", "expired"}
BY DEF TypeOK, ReadPass, CleanupExpired, MarkRead, FileStates, Inboxes

\* A reading pass is what Mailbox calls attending to one's inbox.
LEMMA ReadPassAttends ==
  ASSUME RelayInv, RelayInv', NEW s \in Sessions, s \in Live,
         NEW F \in SUBSET Copies, NEW D, NEW S,
         \A c \in F : box[s][c] # "none",
         ReadPass(s, F, D, S), UNCHANGED <<phase, tagging>>
  PROVE  Mail!Attend(s)
<1>1. /\ s \in Inboxes
      /\ box \in [Inboxes -> [Copies -> FileStates]] /\ box' \in [Inboxes -> [Copies -> FileStates]]
  BY DEF RelayInv, TypeOK, Inboxes
<1>2. ASSUME NEW c \in Copies
      PROVE  \/ /\ Lives(box', fate')[c] = Lives(box, fate)[c]
                /\ Whereabouts(box')[c] = Whereabouts(box)[c]
             \/ /\ Whereabouts(box)[c] = {s}
                /\ Mail!Turns(c, Lives(box, fate)[c], Lives(box', fate')[c])
                /\ Whereabouts(box')[c] =
                     IF Lives(box', fate')[c] \in {"acked", "expired"} THEN {} ELSE {s}
  <2>1. \A e \in Inboxes : e # s => box'[e][c] = box[e][c]
    BY ReadPassEffect DEF RelayInv
  <2>2. CASE box[s][c] = "none"
    <3>1. box'[s][c] = "none" /\ fate'[c] = fate[c]
      BY <2>2, ReadPassEffect DEF RelayInv
    <3>2. \A e \in Inboxes : box'[e][c] = box[e][c]
      BY <2>1, <2>2, <3>1
    <3>3. /\ Whereabouts(box')[c] = Whereabouts(box)[c]
          /\ Lives(box', fate')[c] = Lives(box, fate)[c]
      BY <3>1, <3>2, SameLife
    <3> QED
      BY <3>3
  <2>3. CASE box[s][c] # "none" /\ box'[s][c] = box[s][c]
    <3>1. fate'[c] = fate[c]
      BY <2>3, ReadPassEffect DEF RelayInv
    <3>2. \A e \in Inboxes : box'[e][c] = box[e][c]
      BY <2>1, <2>3
    <3>3. /\ Whereabouts(box')[c] = Whereabouts(box)[c]
          /\ Lives(box', fate')[c] = Lives(box, fate)[c]
      BY <3>1, <3>2, SameLife
    <3> QED
      BY <3>3
  <2>4. CASE box[s][c] # "none" /\ box'[s][c] # box[s][c]
    <3>1. \A e \in Inboxes : box[e][c] # "none" => e = s
      BY <1>1, <2>4 DEF RelayInv, AdoptedOnce
    <3>7. \A e \in Inboxes : box'[e][c] # "none" => e = s
      BY <2>1, <3>1
    <3>2. /\ Whereabouts(box)[c] = {s}
          /\ Lives(box, fate)[c] = IF box[s][c] = "pending" THEN "unread"
                                   ELSE IF box[s][c] = "read" THEN "seen" ELSE "buried"
      <4>1. box[s][c] # "none"
        BY <2>4
      <4>2. s \in Inboxes /\ box \in [Inboxes -> [Copies -> FileStates]]
        BY <1>1
      <4> QED
        BY <3>1, <4>1, <4>2, LifeOfFile
    <3>3. c[1] \in MustRead => fate'[c] # "lapsed" /\ box'[s][c] # "expired"
      BY <1>1 DEF RelayInv, MustReadSurvives
    <3>4. box[s][c] \in {"pending", "read", "expired"} /\ box'[s][c] \in FileStates
      BY <1>1, <2>4 DEF FileStates
    <3>5. CASE box'[s][c] = "none"
      <4>1. /\ Whereabouts(box')[c] = {}
            /\ Lives(box', fate')[c] = IF fate'[c] = "unwritten" THEN "unsent"
                                       ELSE IF fate'[c] = "lapsed" THEN "expired"
                                       ELSE IF fate'[c] = "acked" THEN "acked" ELSE "lost"
        <5>1. \A e \in Inboxes : box'[e][c] = "none"
          BY <3>5, <3>7
        <5> QED
          BY <1>1, <5>1, LifeOfNoFile
      <4>2. fate'[c] \in {"acked", "lapsed"} /\ (box[s][c] = "pending" => fate'[c] = "acked")
        BY <2>4, <3>5, ReadPassEffect DEF RelayInv
      <4> QED
        BY <3>2, <3>3, <3>4, <4>1, <4>2 DEF Mail!Turns
    <3>6. CASE box'[s][c] # "none"
      <4>1. /\ Whereabouts(box')[c] = {s}
            /\ Lives(box', fate')[c] = IF box'[s][c] = "pending" THEN "unread"
                                       ELSE IF box'[s][c] = "read" THEN "seen" ELSE "buried"
        BY <1>1, <3>6, <3>7, LifeOfFile
      <4>2. box[s][c] = "pending" /\ box'[s][c] \in {"read", "expired"}
        BY <2>4, <3>4, <3>6, ReadPassAges DEF RelayInv, FileStates
      <4> QED
        BY <3>2, <3>3, <4>1, <4>2 DEF Mail!Turns
    <3> QED
      BY <3>5, <3>6
  <2> QED
    BY <2>2, <2>3, <2>4
<1>3. Live' = Live
  BY DEF Live
<1>4. DOMAIN Lives(box', fate') = Copies /\ DOMAIN Whereabouts(box') = Copies
  BY DEF Lives, Whereabouts
<1> QED
  BY <1>2, <1>3, <1>4 DEF Mail!Attend

\* A step that leaves files and fates alone leaves every life as it is.
LEMMA LivesUnchanged ==
  ASSUME UNCHANGED <<box, fate>>
  PROVE  /\ Whereabouts(box') = Whereabouts(box)
         /\ Lives(box', fate') = Lives(box, fate)
OBVIOUS

\* Writing a file into an inbox is sending the copy.
LEMMA WriteSends ==
  ASSUME RelayInv, RelayInv', NEW m \in Msgs, NEW t \in Inboxes, DeliverWrite(m, t)
  PROVE  Mail!Send(<<m, t>>)
<1> DEFINE k == <<m, t>>
<1>1. k \in Copies /\ k[2] = t /\ t \in todo[m] /\ box' = [box EXCEPT ![t][k] = "pending"]
  BY DEF DeliverWrite, SendsInOrder, Copies, RelayInv
<1>2. fate[k] = "unwritten" /\ \A d \in Inboxes : box[d][k] = "none"
  BY <1>1 DEF SendsInOrder, UnwrittenNowhere, RelayInv
<1>3. /\ box \in [Inboxes -> [Copies -> FileStates]] /\ fate \in [Copies -> Fates]
      /\ box' \in [Inboxes -> [Copies -> FileStates]] /\ "pending" \in FileStates
  BY DEF FileStates, TypeOK, RelayInv
<1>4. \A e \in Inboxes, c \in Copies :
        box'[e][c] = IF e = t /\ c = k THEN "pending" ELSE box[e][c]
  BY <1>1, <1>3, BoxUpdate
<1>5. Lives(box, fate)[k] = "unsent"
  BY <1>1, <1>2, <1>3, LifeOfNoFile
<1>6. Whereabouts(box')[k] = {t} /\ Lives(box', fate')[k] = "unread"
  <2>1. box'[t][k] = "pending" /\ \A e \in Inboxes : box'[e][k] # "none" => e = t
    BY <1>1, <1>2, <1>4
  <2>2. box'[t][k] # "none"
    BY <2>1
  <2> QED
    BY <1>1, <1>3, <2>1, <2>2, LifeOfFile
<1>7. ASSUME NEW c \in Copies, c # k
      PROVE  Whereabouts(box')[c] = Whereabouts(box)[c] /\ Lives(box', fate')[c] = Lives(box, fate)[c]
  <2>1. \A e \in Inboxes : box'[e][c] = box[e][c]
    BY <1>4, <1>7
  <2>2. fate'[c] = fate[c]
    BY <1>1, <1>3, <1>7 DEF DeliverWrite
  <2> QED
    BY <2>1, <2>2, SameLife
<1>8. Lives(box', fate') = [Lives(box, fate) EXCEPT ![k] = "unread"]
  BY <1>1, <1>6, <1>7 DEF Lives
<1>9. Whereabouts(box') = [Whereabouts(box) EXCEPT ![k] = {[c \in Copies |-> c[2]][k]}]
  BY <1>1, <1>6, <1>7 DEF Whereabouts
<1>10. Live' = Live /\ tagging' = tagging
  BY DEF DeliverWrite, Live, sweepVars
<1> QED
  BY <1>5, <1>8, <1>9, <1>10 DEF Mail!Send

\* The rename of an adoption is an inheritance.
LEMMA RenameInherits ==
  ASSUME RelayInv, RelayInv', NEW s \in Sessions, NEW d \in Inboxes, NEW k \in Copies,
         AdoptRename(s, d, k)
  PROVE  Mail!Inherit(s, k)
<1>1. /\ s \in Live /\ d \notin Live /\ d # s
      /\ Nick(d) = NickOf[s] /\ d \notin Remote
      /\ box[d][k] = "pending"
  BY ConstantsOK DEF AdoptRename, RelayInv, SweepDead, Live
<1>2. \A e \in Inboxes, c \in Copies :
        box'[e][c] = IF c # k \/ e \notin {d, s} THEN box[e][c]
                     ELSE IF e = d THEN "none" ELSE box[d][k]
  BY <1>1, RenameEffect DEF RelayInv
<1>3. /\ box \in [Inboxes -> [Copies -> FileStates]] /\ s \in Inboxes
      /\ box' \in [Inboxes -> [Copies -> FileStates]]
  BY DEF TypeOK, RelayInv, Inboxes
<1>4. \A e \in Inboxes : box[e][k] # "none" => e = d
  BY <1>1 DEF RelayInv, AdoptedOnce
<1>5. Whereabouts(box)[k] = {d} /\ Lives(box, fate)[k] = "unread"
  <2>1. box[d][k] # "none"
    BY <1>1
  <2> QED
    BY <1>1, <1>3, <1>4, <2>1, LifeOfFile
<1>6. Whereabouts(box')[k] = {s} /\ Lives(box', fate')[k] = "unread"
  <2>1. box'[s][k] = "pending" /\ \A e \in Inboxes : box'[e][k] # "none" => e = s
    BY <1>1, <1>2, <1>3, <1>4
  <2>2. box'[s][k] # "none"
    BY <2>1
  <2> QED
    BY <1>3, <2>1, <2>2, LifeOfFile
<1>7. ASSUME NEW c \in Copies, c # k
      PROVE  Whereabouts(box')[c] = Whereabouts(box)[c] /\ Lives(box', fate')[c] = Lives(box, fate)[c]
  <2>1. \A e \in Inboxes : box'[e][c] = box[e][c]
    BY <1>2, <1>7
  <2>2. fate'[c] = fate[c]
    BY DEF AdoptRename
  <2> QED
    BY <2>1, <2>2, SameLife
<1>8. Lives(box', fate') = Lives(box, fate)
  BY <1>5, <1>6, <1>7 DEF Lives
<1>9. Whereabouts(box') = [Whereabouts(box) EXCEPT ![k] = {s}]
  BY <1>6, <1>7 DEF Whereabouts
<1>10. Live' = Live /\ tagging' = [tagging EXCEPT ![s] = {k}]
  BY DEF AdoptRename, Live
<1>11. d \in Inboxes \ Live /\ <<d, s>> \in Bequests
  BY <1>1 DEF Bequests
<1> QED
  BY <1>1, <1>5, <1>8, <1>9, <1>10, <1>11 DEF Mail!Inherit

\* The rewrite that ends an adoption settles it.
LEMMA TagSettles ==
  ASSUME RelayInv, RelayInv', NEW s \in Sessions, NEW k \in Copies, AdoptTag(s, k)
  PROVE  Mail!Settle(s, k)
<1>1. s \in Live /\ k \in tagging[s] /\ \A d \in Inboxes : d # s => box[d][k] = "none"
  BY DEF AdoptTag, RelayInv, TaggingExclusive
<1>2. Live' = Live /\ tagging' = [tagging EXCEPT ![s] = {}] /\ fate' = fate
  BY DEF AdoptTag, Live
<1>3. CASE s \notin dirs
  BY <1>1, <1>2, <1>3, LivesUnchanged DEF AdoptTag, Mail!Settle
<1>4. CASE s \in dirs
  <2>1. /\ box \in [Inboxes -> [Copies -> FileStates]] /\ s \in Inboxes /\ "pending" \in FileStates
        /\ box' \in [Inboxes -> [Copies -> FileStates]]
        /\ box' = [box EXCEPT ![s][k] = "pending"]
    BY <1>4 DEF TypeOK, RelayInv, Inboxes, FileStates, AdoptTag
  <2>2. \A e \in Inboxes, c \in Copies :
          box'[e][c] = IF e = s /\ c = k THEN "pending" ELSE box[e][c]
    BY <2>1, BoxUpdate
  <2>3. Whereabouts(box')[k] = {s} /\ Lives(box', fate')[k] = "unread"
    <3>1. box'[s][k] = "pending" /\ \A e \in Inboxes : box'[e][k] # "none" => e = s
      BY <1>1, <2>1, <2>2
    <3>2. box'[s][k] # "none"
      BY <3>1
    <3> QED
      BY <2>1, <3>1, <3>2, LifeOfFile
  <2>4. ASSUME NEW c \in Copies, c # k
        PROVE  Whereabouts(box')[c] = Whereabouts(box)[c] /\ Lives(box', fate')[c] = Lives(box, fate)[c]
    <3>1. \A e \in Inboxes : box'[e][c] = box[e][c]
      BY <2>2, <2>4
    <3>2. fate'[c] = fate[c]
      BY <1>2
    <3> QED
      BY <3>1, <3>2, SameLife
  <2>5. Lives(box', fate') = [Lives(box, fate) EXCEPT ![k] = "unread"]
    BY <2>3, <2>4 DEF Lives
  <2>6. Whereabouts(box') = [Whereabouts(box) EXCEPT ![k] = {s}]
    BY <2>3, <2>4 DEF Whereabouts
  <2> QED
    BY <1>1, <1>2, <2>5, <2>6 DEF Mail!Settle
<1> QED
  BY <1>3, <1>4

\* Every step of the relay is a step of Mailbox or changes nothing it sees.
LEMMA MailStep ==
  ASSUME RelayInv, RelayInv', [Next]_vars
  PROVE  [Mail!Next]_(Mail!vars)
<1> USE DEF sendVars, sweepVars
<1>1. ASSUME UNCHANGED <<box, fate, tagging>>, Live' = Live PROVE UNCHANGED Mail!vars
  BY <1>1, LivesUnchanged DEF Mail!vars
<1>2. ASSUME NEW s \in Sessions, Startup(s) PROVE [Mail!Next]_(Mail!vars)
  <2>1. UNCHANGED <<box, fate, tagging>>
    BY <1>2 DEF Startup, Reap, MakeInbox, ClaimId, Serve
  <2>2. CASE ClaimId(s)
    <3>1. Live' = Live \cup {s}
      BY <2>2 DEF ClaimId, Live, RelayInv, TypeOK
    <3>2. Mail!Start(s)
      BY <2>1, <3>1, LivesUnchanged DEF Mail!Start
    <3> QED
      BY <3>2 DEF Mail!Next
  <2>3. CASE Reap(s) \/ MakeInbox(s) \/ Serve(s)
    <3>1. Live' = Live
      BY <2>3 DEF Reap, MakeInbox, Serve, Live, RelayInv, TypeOK
    <3> QED
      BY <1>1, <2>1, <3>1
  <2> QED
    BY <1>2, <2>2, <2>3 DEF Startup
<1>3. ASSUME NEW s \in Sessions, Exit(s) PROVE [Mail!Next]_(Mail!vars)
  <2>1. UNCHANGED <<box, fate>> /\ tagging' = [tagging EXCEPT ![s] = {}]
    BY <1>3 DEF Exit
  <2>2. Live' = Live \ {s}
    BY <1>3 DEF Exit, Live, RelayInv, TypeOK
  <2>3. Mail!End(s)
    BY <2>1, <2>2, LivesUnchanged DEF Mail!End
  <2> QED
    BY <2>3 DEF Mail!Next
<1>4. ASSUME NEW s \in Sessions, NEW F \in SUBSET Copies, NEW D, NEW S, phase[s] = "serving",
             \A c \in F : box[s][c] # "none",
             ReadPass(s, F, D, S), UNCHANGED <<phase, tagging>>
      PROVE  [Mail!Next]_(Mail!vars)
  <2>1. s \in Live
    BY <1>4 DEF Live
  <2>2. Mail!Attend(s)
    BY <1>4, <2>1, ReadPassAttends
  <2> QED
    BY <2>2 DEF Mail!Next
<1>5. ASSUME NEW s \in Sessions, NEW F \in SUBSET Files(s), NEW D, Ack(s, F, D)
      PROVE  [Mail!Next]_(Mail!vars)
  <2>1. F \in SUBSET Copies /\ \A k \in F : box[s][k] # "none"
    BY <1>5 DEF Ack, Files
  <2>2. phase[s] = "serving" /\ ReadPass(s, F, D, Msgs) /\ UNCHANGED <<phase, tagging>>
    BY <1>5 DEF Ack, Idle
  <2> QED
    BY <1>4, <2>1, <2>2
<1>6. ASSUME NEW s \in Sessions, NEW S, NEW D, Peek(s, S, D) PROVE [Mail!Next]_(Mail!vars)
  <2>1. {} \in SUBSET Copies /\ \A k \in {} : box[s][k] # "none"
    OBVIOUS
  <2>2. phase[s] = "serving" /\ ReadPass(s, {}, D, S) /\ UNCHANGED <<phase, tagging>>
    BY <1>6 DEF Peek, Idle
  <2> QED
    BY <1>4, <2>1, <2>2
<1>7. ASSUME NEW m \in Msgs, NEW D, SendDone(m, D) PROVE [Mail!Next]_(Mail!vars)
  <2>1. UNCHANGED <<phase, tagging>>
    BY <1>7 DEF SendDone
  <2>2. CASE sender[m] \in Sessions
    <3>1. {} \in SUBSET Copies /\ \A k \in {} : box[sender[m]][k] # "none"
      OBVIOUS
    <3>2. phase[sender[m]] = "serving" /\ ReadPass(sender[m], {}, D, Msgs)
      BY <1>7, <2>2 DEF SendDone, RelayInv, SenderServes
    <3> QED
      BY <1>4, <2>1, <2>2, <3>1, <3>2
  <2>3. CASE sender[m] \notin Sessions
    <3>1. UNCHANGED <<box, fate>>
      BY <1>7, <2>3 DEF SendDone
    <3>2. Live' = Live
      BY <2>1 DEF Live
    <3> QED
      BY <1>1, <2>1, <3>1, <3>2
  <2> QED
    BY <2>2, <2>3
<1>8. ASSUME NEW m \in Msgs, NEW t \in Inboxes, DeliverWrite(m, t) PROVE [Mail!Next]_(Mail!vars)
  <2>1. <<m, t>> \in Copies /\ Mail!Send(<<m, t>>)
    BY <1>8, WriteSends DEF Copies
  <2> QED
    BY <2>1 DEF Mail!Next
<1>9. ASSUME NEW s \in Sessions, NEW d \in Inboxes, NEW c \in Copies, AdoptRename(s, d, c)
      PROVE  [Mail!Next]_(Mail!vars)
  BY <1>9, RenameInherits DEF Mail!Next
<1>10. ASSUME NEW s \in Sessions, NEW c \in Copies, AdoptTag(s, c) PROVE [Mail!Next]_(Mail!vars)
  BY <1>10, TagSettles DEF Mail!Next
<1>11. ASSUME UNCHANGED <<phase, box, fate, tagging>> PROVE [Mail!Next]_(Mail!vars)
  <2>1. Live' = Live
    BY <1>11 DEF Live
  <2> QED
    BY <1>1, <1>11, <2>1
<1> QED
  BY <1>2, <1>3, <1>5, <1>6, <1>7, <1>8, <1>9, <1>10, <1>11
  DEF Next, BeginSweep, Adopt, AdoptMiss, Lapse, SendResolve, DeliverMkdir, DeliverFail, CliDies, vars

\* The relay implements Mailbox, for any number of sessions, nicks and messages:
\* crashes, reaps and racing heirs show only as the steps Mailbox allows.
THEOREM RelayImplementsMailbox == Spec => ImplementsMailbox
<1>1. Init => Mail!Init
  <2> SUFFICES ASSUME Init PROVE Mail!Init
    OBVIOUS
  <2>1. Live = {} /\ tagging = [s \in Sessions |-> {}]
    BY DEF Init, Live
  <2>2. Whereabouts(box) = [c \in Copies |-> {}]
    BY DEF Init, Whereabouts
  <2>3. Lives(box, fate) = [c \in Copies |-> "unsent"]
    BY DEF Init, Lives
  <2> QED
    BY <2>1, <2>2, <2>3 DEF Mail!Init
<1>2. RelayInv /\ RelayInv' /\ [Next]_vars => [Mail!Next]_(Mail!vars)
  BY MailStep
<1> QED
  BY <1>1, <1>2, RelayInvariance, PTL DEF Spec, ImplementsMailbox, Mail!Spec

=============================================================================
