-------------------------- MODULE GitBridgeProofs --------------------------
(***************************************************************************)
(* The bridge neither echoes, nor skips, nor doubles a message, for any    *)
(* number of hosts, daemons and messages.                                  *)
(***************************************************************************)
EXTENDS GitBridge, TLAPS

\* An element of a sequence.
LEMMA ElementType == ASSUME NEW S, NEW s \in Seq(S), NEW i \in DOMAIN s PROVE s[i] \in S
OBVIOUS

\* Append keeps what is there and adds one element.
LEMMA AppendEffect ==
    ASSUME NEW S, NEW s \in Seq(S), NEW e \in S
    PROVE  /\ Len(s) <= Len(Append(s, e))
           /\ \A i \in DOMAIN s : i \in DOMAIN Append(s, e) /\ Append(s, e)[i] = s[i]
           /\ \A i \in DOMAIN Append(s, e) : i \in DOMAIN s \/ Append(s, e)[i] = e
<1>1. Len(s) \in Nat /\ Len(Append(s, e)) = Len(s) + 1
  OBVIOUS
<1>2. DOMAIN s = 1 .. Len(s) /\ DOMAIN Append(s, e) = 1 .. Len(s) + 1
  BY <1>1
<1>3. \A i \in 1 .. Len(s) + 1 : Append(s, e)[i] = IF i = Len(s) + 1 THEN e ELSE s[i]
  BY <1>1
<1> QED
  BY <1>1, <1>2, <1>3

\* A clone takes over what the shared repository has.
LEMMA PullEffect ==
    ASSUME TypeOK, Prefixes, NEW h \in Hosts, seen' = [seen EXCEPT ![h] = pushed]
    PROVE  /\ seen' \in [Hosts -> [Hosts -> Nat]]
           /\ \A f, g \in Hosts : seen[f][g] <= seen'[f][g] /\ seen'[f][g] <= pushed[g]
<1>1. \A f, g \in Hosts : seen'[f][g] = IF f = h THEN pushed[g] ELSE seen[f][g]
  BY DEF TypeOK
<1>2. \A f, g \in Hosts : seen[f][g] \in Nat /\ pushed[g] \in Nat /\ seen[f][g] <= pushed[g]
  BY DEF TypeOK, Prefixes
<1>3. seen' \in [Hosts -> [Hosts -> Nat]]
  BY DEF TypeOK
<1>4. ASSUME NEW f \in Hosts, NEW g \in Hosts
      PROVE  seen[f][g] <= seen'[f][g] /\ seen'[f][g] <= pushed[g]
  BY <1>1, <1>2
<1> QED
  BY <1>3, <1>4

\* What a push, successful or not, may change.
LEMMA PushEffect ==
    ASSUME TypeOK, Prefixes, NEW h \in Hosts, PushOk(h) \/ PushFails(h)
    PROVE  /\ lane' = lane
           /\ pushed' \in [Hosts -> Nat] /\ seen' \in [Hosts -> [Hosts -> Nat]]
           /\ Prefixes'
           /\ \A f, g \in Hosts : seen[f][g] <= seen'[f][g]
<1>1. lane' = lane
  BY DEF PushOk, PushFails
<1>2. seen' = seen \/ seen' = [seen EXCEPT ![h] = pushed]
  BY DEF PushOk, PushFails
<1>3. /\ seen' \in [Hosts -> [Hosts -> Nat]]
      /\ \A f, g \in Hosts : seen[f][g] <= seen'[f][g] /\ seen'[f][g] <= pushed[g]
  <2>1. CASE seen' = seen
    BY <2>1 DEF TypeOK, Prefixes
  <2> QED
    BY <1>2, <2>1, PullEffect
<1>4. \A g \in Hosts : Len(lane[g]) \in Nat /\ pushed[g] \in Nat /\ pushed[g] <= Len(lane[g])
  BY DEF TypeOK, Prefixes
<1>5. /\ pushed' \in [Hosts -> Nat]
      /\ \A g \in Hosts : pushed[g] <= pushed'[g] /\ pushed'[g] <= Len(lane[g])
  <2>1. pushed' = pushed \/ pushed' = [pushed EXCEPT ![h] = Len(lane[h])]
    BY DEF PushOk, PushFails
  <2>2. CASE pushed' = pushed
    BY <1>4, <2>2 DEF TypeOK
  <2>3. CASE pushed' = [pushed EXCEPT ![h] = Len(lane[h])]
    <3>1. pushed \in [Hosts -> Nat]
      BY DEF TypeOK
    <3>2. \A g \in Hosts : pushed'[g] = IF g = h THEN Len(lane[g]) ELSE pushed[g]
      BY <2>3, <3>1
    <3>3. pushed' \in [Hosts -> Nat]
      BY <1>4, <2>3, <3>1
    <3>4. ASSUME NEW g \in Hosts PROVE pushed[g] <= pushed'[g] /\ pushed'[g] <= Len(lane[g])
      BY <1>4, <3>2
    <3> QED
      BY <3>3, <3>4
  <2> QED
    BY <2>1, <2>2, <2>3
<1>6. Prefixes'
  <2> SUFFICES ASSUME NEW g \in Hosts
               PROVE  pushed'[g] <= Len(lane[g]) /\ \A f \in Hosts : seen'[f][g] <= pushed'[g]
    BY <1>1 DEF Prefixes
  <2>1. pushed[g] \in Nat /\ pushed'[g] \in Nat /\ pushed[g] <= pushed'[g]
    BY <1>4, <1>5
  <2>2. ASSUME NEW f \in Hosts PROVE seen'[f][g] <= pushed'[g]
    <3>1. seen'[f][g] \in Nat /\ seen'[f][g] <= pushed[g]
      BY <1>3
    <3> QED
      BY <2>1, <3>1
  <2> QED
    BY <1>5, <2>2
<1> QED
  BY <1>1, <1>3, <1>5, <1>6

\* What a file is made of, and the messages of some files.
LEMMA FileParts ==
    ASSUME TypeOK, NEW h \in Hosts
    PROVE  /\ \A f \in inbox[h] \cup other[h] :
                /\ f = <<f[1], f[2], f[3]>>
                /\ f[1] \in Msgs /\ f[2] \in Kinds /\ f[3] \in Records
           /\ InboxIds(h) \subseteq Msgs /\ LocalMessages(h) \subseteq Msgs
<1>1. \A f \in inbox[h] \cup other[h] : f \in Files
  BY DEF TypeOK
<1>2. \A f \in Files : f = <<f[1], f[2], f[3]>> /\ f[1] \in Msgs /\ f[2] \in Kinds /\ f[3] \in Records
  BY DEF Files
<1> QED
  BY <1>1, <1>2 DEF InboxIds, LocalMessages

\* Every step keeps the variables in their types.
LEMMA BridgeTypes == TypeOK /\ Prefixes /\ BatchKnown /\ [Next]_vars => TypeOK'
<1> SUFFICES ASSUME TypeOK, Prefixes, BatchKnown, [Next]_vars PROVE TypeOK'
  OBVIOUS
<1> USE BridgeOK DEF TypeOK, Serving, InPass, Goto, relay, git, state, memory, history
<1>1. ASSUME NEW m \in Msgs, Send(m) PROVE TypeOK'
  <2>1. Original(m) \in Files
    BY DEF Original, Files, Kinds, Records
  <2>2. inbox' \in [Hosts -> SUBSET Files]
    BY <1>1, <2>1 DEF Send
  <2> QED
    BY <1>1, <2>2 DEF Send
<1>2. ASSUME NEW h \in Hosts, NEW f \in inbox[h] \cup other[h], Adopt(h, f) PROVE TypeOK'
  <2>1. inbox' \in [Hosts -> SUBSET Files] /\ other' \in [Hosts -> SUBSET Files]
    BY <1>2 DEF Adopt
  <2> QED
    BY <1>2, <2>1 DEF Adopt
<1>3. ASSUME NEW h \in Hosts, NEW f \in inbox[h] \cup other[h], Lapse(h, f) PROVE TypeOK'
  <2>1. f \in Files /\ inbox' = [inbox EXCEPT ![h] = (@ \ {f}) \cup {<<f[1], "tombstone", f[3]>>}]
    BY <1>3 DEF Lapse
  <2>2. <<f[1], "tombstone", f[3]>> \in Files
    BY <2>1 DEF Files, Kinds
  <2>3. inbox' \in [Hosts -> SUBSET Files]
    BY <2>1, <2>2
  <2> QED
    BY <1>3, <2>3 DEF Lapse
<1>4. ASSUME NEW h \in Hosts, NEW f \in inbox[h] \cup other[h], Remove(h, f) PROVE TypeOK'
  <2>1. inbox' \in [Hosts -> SUBSET Files] /\ other' \in [Hosts -> SUBSET Files]
    BY <1>4 DEF Remove
  <2> QED
    BY <1>4, <2>1 DEF Remove
<1>5. ASSUME NEW d \in Daemons, Boot(d) PROVE TypeOK'
  <2>1. Backlog(HostOf[d]) \subseteq Msgs
    BY FileParts DEF Backlog
  <2>2. /\ once' \subseteq Daemons
        /\ ledger' = [ledger EXCEPT ![d] = ledgerFile[HostOf[d]] \cup Backlog(HostOf[d])]
        /\ ledgerFile' = [ledgerFile EXCEPT ![HostOf[d]] = @ \cup Backlog(HostOf[d])]
        /\ latched' = latched \cup {HostOf[d]}
        /\ cursor' = [cursor EXCEPT ![d] = cursorFile[HostOf[d]]]
        /\ pc' = [pc EXCEPT ![d] = "flush"]
    BY <1>5 DEF Boot
  <2>3. /\ ledger' \in [Daemons -> SUBSET Msgs]
        /\ ledgerFile' \in [Hosts -> SUBSET Msgs]
        /\ latched' \subseteq Hosts
        /\ cursor' \in [Daemons -> [Hosts -> Nat]]
        /\ pc' \in [Daemons -> {"unborn", "flush", "waiting", "done", "dead"} \cup Serving]
    BY <2>1, <2>2
  <2> QED
    BY <1>5, <2>3 DEF Boot
<1>6. ASSUME NEW d \in Daemons, FlushPending(d) PROVE TypeOK'
  <2>1. pushed' \in [Hosts -> Nat] /\ seen' \in [Hosts -> [Hosts -> Nat]] /\ lane' = lane
    BY <1>6, PushEffect DEF FlushPending
  <2> QED
    BY <1>6, <2>1 DEF FlushPending
<1>7. ASSUME NEW d \in Daemons, TakeLock(d) PROVE TypeOK'
  BY <1>7 DEF TakeLock
<1>8. ASSUME NEW d \in Daemons, Die(d) PROVE TypeOK'
  BY <1>8 DEF Die, NoLines
<1>9. ASSUME NEW d \in Daemons, Scan(d) PROVE TypeOK'
  <2>1. LocalMessages(HostOf[d]) \ ledger[d] \subseteq Msgs
    BY FileParts
  <2> QED
    BY <1>9, <2>1 DEF Scan
<1>10. ASSUME NEW d \in Daemons, NEW m \in Msgs, Missed(d, m) \/ Withhold(d, m) PROVE TypeOK'
  <2>1. CASE Missed(d, m)
    BY <2>1 DEF Missed, Reach
  <2>2. CASE Withhold(d, m)
    BY <2>2 DEF Withhold, Reach
  <2> QED
    BY <1>10, <2>1, <2>2
<1>11. ASSUME NEW d \in Daemons, NEW m \in Msgs, Publish(d, m) PROVE TypeOK'
  <2>1. lane' \in [Hosts -> Seq(Msgs)]
    BY <1>11 DEF Publish
  <2> QED
    BY <1>11, <2>1 DEF Publish, Reach
<1>12. ASSUME NEW d \in Daemons, Scanned(d) PROVE TypeOK'
  BY <1>12 DEF Scanned, SaveLedger
<1>13. ASSUME NEW d \in Daemons, Push(d) \/ PushRaises(d) PROVE TypeOK'
  <2>1. pushed' \in [Hosts -> Nat] /\ seen' \in [Hosts -> [Hosts -> Nat]] /\ lane' = lane
    BY <1>13, PushEffect DEF Push, PushRaises
  <2> QED
    BY <1>13, <2>1 DEF Push, PushRaises, EndPass
<1>14. ASSUME NEW d \in Daemons, NotDue(d) \/ Delivered(d) PROVE TypeOK'
  BY <1>14 DEF NotDue, Delivered, EndPass
<1>15. ASSUME NEW d \in Daemons, NEW up \in BOOLEAN, Drain(d, up) PROVE TypeOK'
  <2> DEFINE h == HostOf[d]
             ends == [g \in Hosts |-> EndOf(h, g)]
             new == UNION {{g} \X (cursor[d][g] + 1 .. EndOf(h, g)) : g \in Hosts}
  <2>1. seen' \in [Hosts -> [Hosts -> Nat]] /\ lane' = lane /\ pushed' = pushed
    BY <1>15 DEF Drain, Fetch
  <2>2. \A g \in Hosts : EndOf(h, g) \in Nat
    BY <2>1 DEF EndOf
  <2>3. ends \in [Hosts -> Nat]
    BY <2>2
  <2>4. new \subseteq Records
    BY <2>2 DEF Records
  <2>5. /\ batch' = [batch EXCEPT ![d] = new]
        /\ cursor' = [cursor EXCEPT ![d] = ends]
        /\ cursorFile' = [cursorFile EXCEPT ![h] = cursor'[d]]
    BY <1>15 DEF Drain
  <2> HIDE DEF new, ends
  <2>6. /\ batch' \in [Daemons -> SUBSET Records]
        /\ cursor' \in [Daemons -> [Hosts -> Nat]]
        /\ cursorFile' \in [Hosts -> [Hosts -> Nat]]
    BY <2>3, <2>4, <2>5
  <2>7. rewound' \subseteq Hosts
    BY <1>15 DEF Drain, Rewind
  <2> QED
    BY <1>15, <2>1, <2>6, <2>7 DEF Drain
<1>16. ASSUME NEW d \in Daemons, Look(d) PROVE TypeOK'
  <2>1. InboxIds(HostOf[d]) \subseteq Msgs
    BY FileParts
  <2>2. together' \subseteq Hosts
    BY <1>16 DEF Look
  <2>3. present' \in [Daemons -> SUBSET Msgs]
    BY <1>16, <2>1 DEF Look
  <2> QED
    BY <1>16, <2>2, <2>3 DEF Look
<1>17. ASSUME NEW d \in Daemons, NEW r \in batch[d], Deliver(d, r) PROVE TypeOK'
  <2> DEFINE m == lane[r[1]][r[2]]
  <2>1. r[1] \in Hosts /\ r[2] \in DOMAIN lane[r[1]]
    BY DEF BatchKnown, Records
  <2>2. m \in Msgs
    <3>1. lane[r[1]] \in Seq(Msgs)
      BY <2>1
    <3> QED
      BY <2>1, <3>1, ElementType
  <2>3. <<m, "git", r>> \in Files
    BY <2>2 DEF Kinds, Files
  <2>4. /\ batch' = [batch EXCEPT ![d] = @ \ {r}]
        /\ handled' = [handled EXCEPT ![HostOf[d]] = @ \cup {r}]
        /\ present' = [present EXCEPT ![d] = @ \cup {m}]
        /\ \/ inbox' = inbox
           \/ inbox' = [inbox EXCEPT ![HostOf[d]] = @ \cup {<<m, "git", r>>}]
    BY <1>17 DEF Deliver
  <2> HIDE DEF m
  <2>5. inbox' \in [Hosts -> SUBSET Files]
    <3>1. CASE inbox' = inbox
      BY <3>1
    <3>2. CASE inbox' = [inbox EXCEPT ![HostOf[d]] = @ \cup {<<m, "git", r>>}]
      BY <2>3, <3>2
    <3> QED
      BY <2>4, <3>1, <3>2
  <2>6. /\ batch' \in [Daemons -> SUBSET Records]
        /\ handled' \in [Hosts -> SUBSET Records]
        /\ present' \in [Daemons -> SUBSET Msgs]
    BY <2>2, <2>4
  <2> QED
    BY <1>17, <2>5, <2>6 DEF Deliver
<1>19. ASSUME NEW d \in Daemons, DeliverFails(d) PROVE TypeOK'
  BY <1>19 DEF DeliverFails, EndPass
<1>18. CASE UNCHANGED vars
  BY <1>18 DEF vars
<1> QED
  BY <1>1, <1>2, <1>3, <1>4, <1>5, <1>6, <1>7, <1>8, <1>9, <1>10, <1>11, <1>12, <1>13, <1>14,
     <1>15, <1>16, <1>17, <1>18, <1>19
     DEF Next, Relays, Pass, Outbound, Inbound

\* Which steps change what, apart from pc and the scan.
Changes ==
    /\ \/ UNCHANGED <<sent, inbox, other, late>>
       \/ \E m \in Msgs : Send(m)
       \/ \E h \in Hosts : \E f \in inbox[h] \cup other[h] :
            Adopt(h, f) \/ Lapse(h, f) \/ Remove(h, f)
       \/ \E d \in Daemons : \E r \in batch[d] : Deliver(d, r)
    /\ \/ lane' = lane
       \/ \E d \in Daemons, m \in Msgs : Publish(d, m)
    /\ \/ ledgerFile' = ledgerFile
       \/ \E d \in Daemons : Boot(d) \/ Scanned(d)
    /\ \/ ledger' = ledger /\ withheld' = withheld
       \/ \E d \in Daemons : Boot(d) \/ Die(d)
       \/ \E d \in Daemons, m \in Msgs : Publish(d, m) \/ Withhold(d, m)
    /\ \/ latched' = latched
       \/ \E d \in Daemons : Boot(d)
    /\ \/ pushed' = pushed /\ seen' = seen
       \/ \E d \in Daemons : PushOk(HostOf[d]) \/ PushFails(HostOf[d])
       \/ \E d \in Daemons, up \in BOOLEAN : Drain(d, up)
    /\ \/ UNCHANGED <<batch, cursor, cursorFile, present, handled>>
       \/ \E d \in Daemons : Boot(d) \/ Die(d) \/ Look(d) \/ DeliverFails(d)
       \/ \E d \in Daemons, up \in BOOLEAN : Drain(d, up)
       \/ \E d \in Daemons : \E r \in batch[d] : Deliver(d, r)
    /\ \/ dropped' = dropped
       \/ \E d \in Daemons : Die(d) \/ DeliverFails(d)
    /\ \/ once' = once
       \/ \E d \in Daemons : Boot(d)
    /\ \/ together' = together
       \/ \E d \in Daemons : Look(d)
    /\ \/ rewound' = rewound
       \/ \E d \in Daemons, up \in BOOLEAN : Drain(d, up)

\* Every step changes only what is listed for it.
LEMMA StepChanges == [Next]_vars => Changes
<1> SUFFICES ASSUME [Next]_vars PROVE Changes
  OBVIOUS
<1> USE DEF Changes, relay, git, state, memory, history
<1>1. CASE Relays
  BY <1>1 DEF Relays, Send, Adopt, Lapse, Remove
<1>2. ASSUME NEW d \in Daemons, Boot(d) PROVE Changes
  BY <1>2 DEF Boot
<1>3. ASSUME NEW d \in Daemons, FlushPending(d) \/ TakeLock(d) PROVE Changes
  BY <1>3 DEF FlushPending, TakeLock, PushOk, PushFails
<1>4. ASSUME NEW d \in Daemons, Die(d) PROVE Changes
  BY <1>4 DEF Die
<1>5. ASSUME NEW d \in Daemons, Scan(d) \/ Scanned(d) PROVE Changes
  BY <1>5 DEF Scan, Scanned
<1>6. ASSUME NEW d \in Daemons, Push(d) \/ PushRaises(d) PROVE Changes
  BY <1>6 DEF Push, PushRaises, PushOk, PushFails
<1>7. ASSUME NEW d \in Daemons, NEW m \in Msgs, Missed(d, m) \/ Publish(d, m) \/ Withhold(d, m)
      PROVE  Changes
  BY <1>7 DEF Missed, Publish, Withhold, Reach
<1>8. ASSUME NEW d \in Daemons, NotDue(d) \/ Look(d) \/ Delivered(d) PROVE Changes
  BY <1>8 DEF NotDue, Look, Delivered
<1>9. ASSUME NEW d \in Daemons, NEW up \in BOOLEAN, Drain(d, up) PROVE Changes
  BY <1>9 DEF Drain, Fetch
<1>10. ASSUME NEW d \in Daemons, NEW r \in batch[d], Deliver(d, r) PROVE Changes
  BY <1>10 DEF Deliver
<1>11. CASE UNCHANGED vars
  BY <1>11 DEF vars
<1>12. ASSUME NEW d \in Daemons, DeliverFails(d) PROVE Changes
  BY <1>12 DEF DeliverFails
<1> HIDE DEF Changes
<1> QED
  BY <1>1, <1>2, <1>3, <1>4, <1>5, <1>6, <1>7, <1>8, <1>9, <1>10, <1>11, <1>12
     DEF Next, Pass, Outbound, Inbound

\* How a daemon gets from one place to another.
Moves ==
    \A d \in Daemons :
        /\ pc'[d] # "unborn" => pc[d] # "unborn" \/ Boot(d)
        /\ pc'[d] \in Serving => pc[d] \in Serving \/ TakeLock(d) \/ d \in once
        /\ d \in once => d \in once'
        /\ pc[d] = "look" => pc'[d] = "look" \/ Look(d) \/ Die(d)
        /\ pc[d] = "deliver" => pc'[d] = "deliver" \/ Delivered(d) \/ DeliverFails(d) \/ Die(d)
        /\ pc'[d] = "deliver" => pc[d] = "deliver" \/ Look(d)

\* Every step moves daemons only in these ways.
LEMMA StepMoves == TypeOK /\ [Next]_vars => Moves
<1> SUFFICES ASSUME TypeOK, [Next]_vars PROVE Moves
  OBVIOUS
<1> USE DEF Moves, Goto, EndPass, Serving, InPass
<1>0. pc \in [Daemons -> {"unborn", "flush", "waiting", "done", "dead"} \cup Serving]
  BY DEF TypeOK
<1>1. CASE Relays
  BY <1>1 DEF Relays, Send, Adopt, Lapse, Remove
<1>2. ASSUME NEW d \in Daemons, Boot(d) \/ FlushPending(d) PROVE Moves
  BY <1>0, <1>2 DEF Boot, FlushPending
<1>3. ASSUME NEW d \in Daemons, TakeLock(d) \/ Die(d) PROVE Moves
  BY <1>0, <1>3 DEF TakeLock, Die
<1>4. ASSUME NEW d \in Daemons, Scan(d) \/ Scanned(d) PROVE Moves
  BY <1>0, <1>4 DEF Scan, Scanned
<1>5. ASSUME NEW d \in Daemons, Push(d) \/ PushRaises(d) PROVE Moves
  BY <1>0, <1>5 DEF Push, PushRaises
<1>6. ASSUME NEW d \in Daemons, NEW m \in Msgs, Missed(d, m) \/ Publish(d, m) \/ Withhold(d, m)
      PROVE  Moves
  BY <1>6 DEF Missed, Publish, Withhold, Reach
<1>7. ASSUME NEW d \in Daemons, NotDue(d) \/ Look(d) \/ Delivered(d) PROVE Moves
  BY <1>0, <1>7 DEF NotDue, Look, Delivered
<1>8. ASSUME NEW d \in Daemons, NEW up \in BOOLEAN, Drain(d, up) PROVE Moves
  BY <1>0, <1>8 DEF Drain
<1>9. ASSUME NEW d \in Daemons, NEW r \in batch[d], Deliver(d, r) PROVE Moves
  BY <1>9 DEF Deliver
<1>10. CASE UNCHANGED vars
  BY <1>10 DEF vars
<1>11. ASSUME NEW d \in Daemons, DeliverFails(d) PROVE Moves
  BY <1>0, <1>11 DEF DeliverFails
<1> HIDE DEF Moves
<1> QED
  BY <1>1, <1>2, <1>3, <1>4, <1>5, <1>6, <1>7, <1>8, <1>9, <1>10, <1>11
     DEF Next, Pass, Outbound, Inbound

\* A record stays where it is; a publication adds its message.
LEMMA LaneGrows ==
    ASSUME TypeOK, [Next]_vars
    PROVE  /\ \A h \in Hosts : InLane(h) \subseteq InLane(h)'
           /\ \A h \in Hosts, i \in Nat :
                i \in DOMAIN lane[h] => i \in DOMAIN lane'[h] /\ lane'[h][i] = lane[h][i]
           /\ \A h \in Hosts : Len(lane[h]) <= Len(lane'[h])
           /\ \A h \in Hosts : \A m \in InLane(h)' \ InLane(h) :
                \E d \in Daemons : Publish(d, m) /\ HostOf[d] = h
<1>1. CASE lane' = lane
  BY <1>1 DEF InLane, TypeOK
<1>2. ASSUME NEW d \in Daemons, NEW m \in Msgs, Publish(d, m)
      PROVE  /\ \A h \in Hosts : InLane(h) \subseteq InLane(h)'
             /\ \A h \in Hosts, i \in Nat :
                  i \in DOMAIN lane[h] => i \in DOMAIN lane'[h] /\ lane'[h][i] = lane[h][i]
             /\ \A h \in Hosts : Len(lane[h]) <= Len(lane'[h])
             /\ \A h \in Hosts : \A n \in InLane(h)' \ InLane(h) : n = m /\ HostOf[d] = h
  <2>1. HostOf[d] \in Hosts /\ lane[HostOf[d]] \in Seq(Msgs)
    BY BridgeOK DEF TypeOK
  <2>2. \A h \in Hosts : lane'[h] = IF h = HostOf[d] THEN Append(lane[h], m) ELSE lane[h]
    BY <1>2, <2>1 DEF Publish, TypeOK
  <2>3. ASSUME NEW h \in Hosts
        PROVE  /\ \A i \in DOMAIN lane[h] : i \in DOMAIN lane'[h] /\ lane'[h][i] = lane[h][i]
               /\ Len(lane[h]) <= Len(lane'[h])
               /\ \A i \in DOMAIN lane'[h] :
                    i \in DOMAIN lane[h] \/ (lane'[h][i] = m /\ HostOf[d] = h)
    <3>1. lane[h] \in Seq(Msgs)
      BY DEF TypeOK
    <3>2. CASE h = HostOf[d]
      <4>1. lane'[h] = Append(lane[h], m)
        BY <2>2, <3>2
      <4>2. /\ Len(lane[h]) <= Len(Append(lane[h], m))
            /\ \A i \in DOMAIN lane[h] :
                 i \in DOMAIN Append(lane[h], m) /\ Append(lane[h], m)[i] = lane[h][i]
            /\ \A i \in DOMAIN Append(lane[h], m) :
                 i \in DOMAIN lane[h] \/ Append(lane[h], m)[i] = m
        BY <3>1, AppendEffect
      <4> QED
        BY <3>2, <4>1, <4>2, Zenon
    <3>3. CASE h # HostOf[d]
      BY <2>2, <3>1, <3>3
    <3> QED
      BY <3>2, <3>3
  <2> QED
    BY <2>3 DEF InLane
<1> QED
  BY <1>1, <1>2, StepChanges DEF Changes


\* A published message is in the lane.
LEMMA PublishAdds ==
    ASSUME TypeOK, NEW d \in Daemons, NEW m \in Msgs, Publish(d, m)
    PROVE  m \in InLane(HostOf[d])'
<1>1. HostOf[d] \in Hosts /\ lane[HostOf[d]] \in Seq(Msgs)
  BY BridgeOK DEF TypeOK
<1>2. lane'[HostOf[d]] = Append(lane[HostOf[d]], m)
  BY <1>1 DEF Publish, TypeOK
<1>3. /\ Len(lane[HostOf[d]]) + 1 \in DOMAIN lane'[HostOf[d]]
      /\ lane'[HostOf[d]][Len(lane[HostOf[d]]) + 1] = m
  BY <1>1, <1>2
<1> QED
  BY <1>3 DEF InLane

\* Where a file can come from: an original from a new message, any other from a
\* record that was not recognised.
FilesExplained ==
    /\ sent \subseteq sent'
    /\ \A h \in Hosts : \A m \in LocalMessages(h)' :
         m \in LocalMessages(h) \/ (m \notin sent /\ m \in sent' /\ Origin[m] = h)
    /\ \A h \in Hosts : \A m \in InboxIds(h)' :
         \/ m \in InboxIds(h)
         \/ m \notin sent /\ m \in sent'
         \/ \E d \in Daemons : \E r \in batch[d] :
              Deliver(d, r) /\ HostOf[d] = h /\ m = lane[r[1]][r[2]] /\ m \notin present[d]

\* Every step explains the files it makes.
LEMMA FilesStep == TypeOK /\ [Next]_vars => FilesExplained
<1> SUFFICES ASSUME TypeOK, [Next]_vars PROVE FilesExplained
  OBVIOUS
<1> USE BridgeOK DEF TypeOK, relay, git, state, memory, history
<1>1. CASE UNCHANGED <<sent, inbox, other, late>>
  BY <1>1 DEF FilesExplained, LocalMessages, InboxIds
<1>2. ASSUME NEW m \in Msgs, Send(m) PROVE FilesExplained
  <2>1. /\ m \notin sent /\ sent' = sent \cup {m} /\ other' = other
        /\ \A h \in Hosts : inbox'[h] = IF h = Origin[m] THEN inbox[h] \cup {Original(m)}
                                                         ELSE inbox[h]
    BY <1>2 DEF Send
  <2>2. \A h \in Hosts : \A f \in inbox'[h] : f \in inbox[h] \/ (f = Original(m) /\ h = Origin[m])
    BY <2>1
  <2>3. Original(m)[1] = m
    BY DEF Original
  <2> HIDE DEF TypeOK
  <2>4. ASSUME NEW h \in Hosts, NEW n \in LocalMessages(h)'
        PROVE  n \in LocalMessages(h) \/ (n = m /\ h = Origin[m])
    <3>1. PICK f \in inbox'[h] \cup other[h] : f[2] = "local" /\ n = f[1]
      BY <2>1 DEF LocalMessages
    <3> QED
      BY <2>2, <2>3, <3>1 DEF LocalMessages
  <2>5. ASSUME NEW h \in Hosts, NEW n \in InboxIds(h)' PROVE n \in InboxIds(h) \/ n = m
    <3>1. PICK f \in inbox'[h] : n = f[1]
      BY DEF InboxIds
    <3> QED
      BY <2>2, <2>3, <3>1 DEF InboxIds
  <2> QED
    BY <2>1, <2>4, <2>5 DEF FilesExplained
<1>3. ASSUME NEW h \in Hosts, NEW f \in inbox[h] \cup other[h], Adopt(h, f) \/ Remove(h, f)
      PROVE  FilesExplained
  <2>1. inbox' = [inbox EXCEPT ![h] = @ \ {f}]
    BY <1>3 DEF Adopt, Remove
  <2>2. \A k \in Hosts : other'[k] \subseteq inbox[k] \cup other[k]
    <3>1. CASE f \in inbox[h] /\ other' = [other EXCEPT ![h] = @ \cup {f}]
      BY <3>1
    <3>2. CASE other' = [other EXCEPT ![h] = @ \ {f}]
      BY <3>2
    <3> QED
      BY <1>3, <3>1, <3>2 DEF Adopt, Remove
  <2>4. \A k \in Hosts : inbox'[k] \subseteq inbox[k]
    BY <2>1
  <2>3. sent' = sent
    BY <1>3 DEF Adopt, Remove
  <2> HIDE DEF TypeOK
  <2> QED
    BY <2>2, <2>3, <2>4 DEF FilesExplained, LocalMessages, InboxIds
<1>4. ASSUME NEW h \in Hosts, NEW f \in inbox[h] \cup other[h], Lapse(h, f) PROVE FilesExplained
  <2> DEFINE grave == <<f[1], "tombstone", f[3]>>
  <2>1. /\ \A k \in Hosts : \A g \in inbox'[k] : g \in inbox[k] \/ (k = h /\ g = grave)
        /\ f \in inbox[h] /\ other' = other /\ sent' = sent
    BY <1>4 DEF Lapse
  <2>2. grave[1] = f[1] /\ grave[2] = "tombstone"
    OBVIOUS
  <2> HIDE DEF TypeOK, grave
  <2>3. ASSUME NEW k \in Hosts, NEW n \in LocalMessages(k)' PROVE n \in LocalMessages(k)
    <3>1. PICK g \in inbox'[k] \cup other[k] : g[2] = "local" /\ n = g[1]
      BY <2>1 DEF LocalMessages
    <3>2. g # grave
      BY <2>2, <3>1
    <3> QED
      BY <2>1, <3>1, <3>2 DEF LocalMessages
  <2>4. ASSUME NEW k \in Hosts, NEW n \in InboxIds(k)' PROVE n \in InboxIds(k)
    <3>1. PICK g \in inbox'[k] : n = g[1]
      BY DEF InboxIds
    <3> QED
      BY <2>1, <2>2, <3>1 DEF InboxIds
  <2> QED
    BY <2>1, <2>3, <2>4 DEF FilesExplained
<1>6. ASSUME NEW d \in Daemons, NEW r \in batch[d], Deliver(d, r) PROVE FilesExplained
  <2> DEFINE m == lane[r[1]][r[2]]
             copy == <<m, "git", r>>
  <2>0. sent' = sent /\ other' = other
    BY <1>6 DEF Deliver
  <2>1. CASE inbox' = inbox
    BY <2>0, <2>1 DEF FilesExplained, LocalMessages, InboxIds
  <2>2. CASE m \notin present[d] /\ inbox' = [inbox EXCEPT ![HostOf[d]] = @ \cup {copy}]
    <3>1. \A h \in Hosts : \A f \in inbox'[h] : f \in inbox[h] \/ (h = HostOf[d] /\ f = copy)
      BY <2>2
    <3>2. copy[1] = m /\ copy[2] = "git"
      OBVIOUS
    <3> HIDE DEF TypeOK, m, copy
    <3>3. ASSUME NEW h \in Hosts, NEW n \in LocalMessages(h)' PROVE n \in LocalMessages(h)
      <4>1. PICK f \in inbox'[h] \cup other[h] : f[2] = "local" /\ n = f[1]
        BY <2>0 DEF LocalMessages
      <4>2. f # copy
        BY <3>2, <4>1
      <4> QED
        BY <3>1, <4>1, <4>2 DEF LocalMessages
    <3>4. ASSUME NEW h \in Hosts, NEW n \in InboxIds(h)'
          PROVE  n \in InboxIds(h) \/ (h = HostOf[d] /\ n = m)
      <4>1. PICK f \in inbox'[h] : n = f[1]
        BY DEF InboxIds
      <4> QED
        BY <3>1, <3>2, <4>1 DEF InboxIds
    <3> QED
      BY <1>6, <2>0, <2>2, <3>3, <3>4 DEF FilesExplained, m
  <2> QED
    BY <1>6, <2>1, <2>2 DEF Deliver
<1> QED
  BY <1>1, <1>2, <1>3, <1>4, <1>6, StepChanges DEF Changes


\* Every step keeps messages where they belong, and lanes to their hosts.
LEMMA ProvenanceStep ==
    ASSUME BridgeInv, [Next]_vars, TypeOK'
    PROVE  Provenance' /\ NoEcho'
<1>0. TypeOK /\ Provenance /\ NoEcho /\ BatchKnown /\ FilesExplained
  BY FilesStep DEF BridgeInv
<1>1. sent \subseteq sent'
  BY <1>0 DEF FilesExplained
<1>2. ASSUME NEW h \in Hosts, NEW m \in LocalMessages(h)' PROVE m \in sent' /\ Origin[m] = h
  BY <1>0 DEF FilesExplained, Provenance
<1>3. ASSUME NEW h \in Hosts, NEW m \in InboxIds(h)' PROVE m \in sent'
  <2>1. CASE m \in InboxIds(h) \/ m \in sent'
    BY <1>0, <1>1, <2>1 DEF Provenance
  <2>2. ASSUME NEW d \in Daemons, NEW r \in batch[d], m = lane[r[1]][r[2]] PROVE m \in sent'
    <3>1. r[1] \in Hosts /\ r[2] \in DOMAIN lane[r[1]]
      BY <1>0 DEF BatchKnown, TypeOK, Records
    <3>2. m \in InLane(r[1])
      BY <2>2, <3>1 DEF InLane
    <3> QED
      BY <1>0, <1>1, <3>1, <3>2 DEF Provenance
  <2> QED
    BY <1>0, <2>1, <2>2 DEF FilesExplained
<1>4. ASSUME NEW h \in Hosts, NEW m \in InLane(h)', m \notin InLane(h)
      PROVE  m \in sent /\ Origin[m] = h
  <2>1. PICK d \in Daemons : Publish(d, m) /\ HostOf[d] = h
    BY <1>0, <1>4, LaneGrows
  <2>2. m \in LocalMessages(h)
    BY <2>1 DEF Publish
  <2> QED
    BY <1>0, <2>2 DEF Provenance
<1>5. ASSUME NEW h \in Hosts, NEW m \in ledgerFile'[h] PROVE m \in sent'
  <2> USE <1>0, <1>1, BridgeOK
  <2>1. CASE ledgerFile' = ledgerFile
    BY <2>1 DEF Provenance
  <2>2. ASSUME NEW d \in Daemons, Boot(d) PROVE m \in sent'
    <3>1. m \in ledgerFile[h] \/ (h = HostOf[d] /\ m \in Backlog(h))
      BY <2>2 DEF Boot, TypeOK
    <3> QED
      BY <3>1 DEF Provenance, Backlog
  <2>3. ASSUME NEW d \in Daemons, Scanned(d) PROVE m \in sent'
    <3>1. m \in ledgerFile[h] \/ m \in ledger[d]
      BY <2>3 DEF Scanned, SaveLedger, TypeOK
    <3> QED
      BY <3>1 DEF Provenance, LedgersHonest, BridgeInv
  <2> QED
    BY <2>1, <2>2, <2>3, StepChanges DEF Changes
<1> QED
  BY <1>0, <1>1, <1>2, <1>3, <1>4, <1>5 DEF Provenance, NoEcho

\* Every step keeps the ledgers honest.
LEMMA LedgerStep ==
    ASSUME BridgeInv, [Next]_vars, TypeOK'
    PROVE  LedgersHonest' /\ NoSilentDrop'
<1>0. /\ TypeOK /\ Provenance /\ LedgersHonest /\ NoSilentDrop
      /\ FilesExplained /\ Changes /\ HostOf \in [Daemons -> Hosts]
  BY FilesStep, StepChanges, BridgeOK DEF BridgeInv
<1>1. sent \subseteq sent'
  BY <1>0 DEF FilesExplained
<1>2. \A h \in Hosts : InLane(h) \subseteq InLane(h)'
  BY <1>0, LaneGrows
<1>3. latched \subseteq latched' /\ withheld \subseteq withheld'
  <2>1. ASSUME NEW d \in Daemons, Boot(d) \/ Die(d) PROVE latched \subseteq latched' /\ withheld' = withheld
    BY <2>1 DEF Boot, Die, state, history
  <2>2. ASSUME NEW d \in Daemons, NEW m \in Msgs, Publish(d, m) \/ Withhold(d, m)
        PROVE  withheld \subseteq withheld'
    BY <2>2 DEF Publish, Withhold
  <2> QED
    BY <1>0, <2>1, <2>2 DEF Changes
<1>4. ASSUME NEW m \in late'
      PROVE  m \in sent' /\ Origin[m] \in latched' /\ (m \in late \/ m \notin sent)
  <2>1. CASE m \in late
    BY <1>0, <1>1, <1>3, <2>1 DEF LedgersHonest
  <2>2. ASSUME NEW n \in Msgs, Send(n), m \notin late
        PROVE  m \in sent' /\ m \notin sent /\ Origin[m] \in latched'
    BY <1>0, <1>3, <2>2 DEF Send, LedgersHonest
  <2>3. ASSUME NEW h \in Hosts, NEW n, Adopt(h, n) \/ Lapse(h, n) \/ Remove(h, n)
        PROVE  late' = late
    BY <2>3 DEF Adopt, Lapse, Remove, history
  <2>4. ASSUME NEW d \in Daemons, NEW r \in batch[d], Deliver(d, r) PROVE late' = late
    BY <2>4 DEF Deliver
  <2> QED
    BY <1>0, <2>1, <2>2, <2>3, <2>4 DEF Changes
<1>5. ASSUME NEW d \in Daemons, pc'[d] # "unborn" PROVE HostOf[d] \in latched'
  <2>1. CASE Boot(d)
    BY <2>1 DEF Boot
  <2>2. CASE pc[d] # "unborn"
    BY <1>0, <1>3, <2>2 DEF LedgersHonest
  <2> QED
    BY <1>0, <1>5, <2>1, <2>2, StepMoves DEF Moves
<1>6. ASSUME NEW h \in Hosts, NEW m \in Backlog(h), m \in late' PROVE FALSE
  <2>1. m \in sent /\ Origin[m] = h /\ h \notin latched
    BY <1>0, <1>6 DEF Backlog, Provenance
  <2> QED
    BY <1>0, <1>4, <1>6, <2>1 DEF LedgersHonest
<1>7. ASSUME NEW h \in Hosts, NEW m \in ledgerFile[h] \cup Backlog(h)
      PROVE  m \in sent /\ (m \in late' => m \in InLane(h)' \cup withheld')
  <2>1. m \in sent
    BY <1>0, <1>7 DEF Provenance, Backlog
  <2> QED
    BY <1>0, <1>2, <1>3, <1>4, <1>6, <1>7, <2>1 DEF NoSilentDrop
<1>8. ASSUME NEW d \in Daemons, NEW m \in ledger[d]
      PROVE  m \in sent /\ (m \in late' => m \in InLane(HostOf[d])' \cup withheld')
  BY <1>0, <1>2, <1>3, <1>4 DEF LedgersHonest
<1>9. ASSUME NEW d \in Daemons, NEW m \in ledger'[d]
      PROVE  m \in sent /\ (m \in late' => m \in InLane(HostOf[d])' \cup withheld')
  <2>1. ASSUME NEW e \in Daemons, Boot(e)
        PROVE  m \in ledger[d] \/ m \in ledgerFile[HostOf[d]] \cup Backlog(HostOf[d])
    BY <1>0, <2>1 DEF Boot, TypeOK
  <2>2. ASSUME NEW e \in Daemons, Die(e) PROVE m \in ledger[d]
    BY <1>0, <2>2 DEF Die, TypeOK
  <2>3. ASSUME NEW e \in Daemons, NEW n \in Msgs, Publish(e, n) \/ Withhold(e, n)
        PROVE  m \in ledger[d] \/ (m \in sent /\ m \in InLane(HostOf[d])' \cup withheld')
    <3>1. m \in ledger[d] \/ (e = d /\ m = n)
      <4>1. ledger' = [ledger EXCEPT ![e] = @ \cup {n}]
        BY <2>3 DEF Publish, Withhold
      <4>2. ledger \in [Daemons -> SUBSET Msgs]
        BY <1>0 DEF TypeOK
      <4> QED
        BY <4>1, <4>2
    <3>2. n \in sent
      BY <1>0, <2>3 DEF Publish, Withhold, Provenance
    <3>3. CASE Withhold(e, n)
      BY <3>1, <3>2, <3>3 DEF Withhold
    <3>4. CASE Publish(e, n)
      <4>1. n \in InLane(HostOf[e])'
        BY <1>0, <3>4, PublishAdds
      <4> QED
        BY <3>1, <3>2, <4>1
    <3> QED
      BY <2>3, <3>3, <3>4
  <2> QED
    BY <1>0, <1>7, <1>8, <2>1, <2>2, <2>3 DEF Changes
<1>10. ASSUME NEW h \in Hosts, NEW m \in ledgerFile'[h], m \in late'
       PROVE  m \in InLane(h)' \cup withheld'
  <2>1. ASSUME NEW d \in Daemons, Boot(d) PROVE m \in ledgerFile[h] \cup Backlog(h)
    BY <1>0, <2>1 DEF Boot, TypeOK
  <2>2. ASSUME NEW d \in Daemons, Scanned(d)
        PROVE  m \in ledgerFile[h] \/ (h = HostOf[d] /\ m \in ledger[d])
    BY <1>0, <2>2 DEF Scanned, SaveLedger, TypeOK
  <2> QED
    BY <1>0, <1>7, <1>8, <1>10, <2>1, <2>2 DEF Changes
<1> QED
  BY <1>1, <1>4, <1>5, <1>9, <1>10 DEF LedgersHonest, NoSilentDrop


\* What the fetch of a drain may change.
LEMMA FetchEffect ==
    ASSUME TypeOK, Prefixes, NEW h \in Hosts, NEW up, Fetch(h, up)
    PROVE  /\ lane' = lane /\ pushed' = pushed
           /\ \A f, g \in Hosts : seen'[f][g] \in Nat
           /\ \A f, g \in Hosts : seen[f][g] <= seen'[f][g] /\ seen'[f][g] <= pushed[g]
<1>1. lane' = lane /\ pushed' = pushed
  BY DEF Fetch
<1>2. CASE seen' = seen
  <2>1. \A f, g \in Hosts : seen[f][g] \in Nat /\ seen[f][g] <= pushed[g]
    BY DEF TypeOK, Prefixes
  <2> QED
    BY <1>1, <1>2, <2>1
<1>3. CASE seen' = [seen EXCEPT ![h] = pushed]
  BY <1>1, <1>3, PullEffect
<1> QED
  BY <1>2, <1>3 DEF Fetch

\* Every step keeps lanes ahead of their copies.
LEMMA PrefixStep ==
    ASSUME TypeOK, Prefixes, [Next]_vars, TypeOK'
    PROVE  Prefixes' /\ \A f, g \in Hosts : seen[f][g] <= seen'[f][g]
<1>0. HostOf \in [Daemons -> Hosts]
  BY BridgeOK
<1>1. CASE pushed' = pushed /\ seen' = seen
  <2>1. \A g \in Hosts : /\ pushed[g] \in Nat /\ Len(lane[g]) \in Nat /\ Len(lane'[g]) \in Nat
                         /\ \A h \in Hosts : seen[h][g] \in Nat
    BY DEF TypeOK
  <2>2. \A g \in Hosts : Len(lane[g]) <= Len(lane'[g])
    BY LaneGrows
  <2>3. \A g \in Hosts : pushed'[g] <= Len(lane'[g])
    BY <1>1, <2>1, <2>2 DEF Prefixes
  <2> QED
    BY <1>1, <2>1, <2>3 DEF Prefixes
<1>2. ASSUME NEW d \in Daemons, PushOk(HostOf[d]) \/ PushFails(HostOf[d])
      PROVE  Prefixes' /\ \A f, g \in Hosts : seen[f][g] <= seen'[f][g]
  BY <1>0, <1>2, PushEffect
<1>3. ASSUME NEW d \in Daemons, NEW up \in BOOLEAN, Drain(d, up)
      PROVE  Prefixes' /\ \A f, g \in Hosts : seen[f][g] <= seen'[f][g]
  <2>1. Fetch(HostOf[d], up)
    BY <1>3 DEF Drain
  <2> QED
    BY <1>0, <2>1, FetchEffect DEF Prefixes
<1> QED
  BY <1>1, <1>2, <1>3, StepChanges DEF Changes

\* Every step keeps the host lock exclusive, and notes who delivers together.
LEMMA LockStep ==
    ASSUME TypeOK, OneServes, [Next]_vars
    PROVE  /\ OneServes'
           /\ together \subseteq together' /\ once \subseteq once'
           /\ \A h \in together' \ together : \E d \in once : HostOf[d] = h
<1>0. TypeOK /\ Moves /\ Changes /\ once \subseteq once'
  BY StepMoves, StepChanges DEF Moves, TypeOK
<1>1. ASSUME NEW d \in Daemons, Look(d)
      PROVE  /\ together \subseteq together'
             /\ \A c \in Daemons : c # d => pc'[c] = pc[c]
             /\ pc[d] = "look"
             /\ \A h \in together' \ together :
                  h = HostOf[d] /\ \E c \in Daemons : HostOf[c] = h /\ pc[c] = "deliver"
             /\ \A c \in Daemons :
                  HostOf[c] = HostOf[d] /\ pc[c] = "deliver" => HostOf[d] \in together'
  BY <1>0, <1>1 DEF Look, Goto, TypeOK
<1>2. together \subseteq together'
  BY <1>0, <1>1 DEF Changes
<1>3. ASSUME NEW h \in together' \ together PROVE \E d \in once : HostOf[d] = h
  <2>1. PICK d \in Daemons : Look(d)
    BY <1>0, <1>3 DEF Changes
  <2>2. PICK c \in Daemons : HostOf[c] = h /\ HostOf[d] = h /\ pc[c] = "deliver" /\ pc[d] = "look"
    BY <1>1, <1>3, <2>1
  <2> QED
    BY <2>2 DEF OneServes, Serving, InPass
<1>4. ASSUME NEW c \in Daemons \ once', NEW d \in Daemons \ once',
             pc'[c] \in Serving, pc'[d] \in Serving, HostOf[c] = HostOf[d]
      PROVE  c = d
  <2>1. c \notin once /\ d \notin once
    BY <1>0
  <2>2. ASSUME NEW e \in Daemons, TakeLock(e)
        PROVE  /\ \A b \in Daemons \ once : HostOf[b] = HostOf[e] => pc[b] \notin Serving
               /\ \A b \in Daemons : b # e => pc'[b] = pc[b]
    BY <1>0, <2>2 DEF TakeLock, Goto, TypeOK
  <2>3. CASE TakeLock(c) \/ TakeLock(d)
    BY <1>4, <2>1, <2>2, <2>3
  <2>4. CASE ~TakeLock(c) /\ ~TakeLock(d)
    BY <1>0, <1>4, <2>1, <2>4 DEF Moves, OneServes
  <2> QED
    BY <2>3, <2>4
<1>5. ASSUME NEW c \in Daemons, NEW d \in Daemons,
             pc'[c] = "deliver", pc'[d] = "deliver", HostOf[c] = HostOf[d], c # d
      PROVE  HostOf[d] \in together'
  <2>1. CASE Look(c) \/ Look(d)
    BY <1>1, <1>5, <2>1
  <2>2. CASE ~Look(c) /\ ~Look(d)
    BY <1>0, <1>2, <1>5, <2>2 DEF Moves, OneServes
  <2> QED
    BY <2>1, <2>2
<1> QED
  BY <1>0, <1>2, <1>3, <1>4, <1>5 DEF OneServes

\* Every step keeps what is known of the inbox up to date for the delivery.
LEMMA BatchStep == ASSUME BridgeInv, [Next]_vars, TypeOK' PROVE BatchKnown'
<1>0. /\ TypeOK /\ Provenance /\ Prefixes /\ OneServes /\ BatchKnown
      /\ FilesExplained /\ Changes /\ Moves /\ HostOf \in [Daemons -> Hosts]
      /\ together \subseteq together'
  BY FilesStep, StepChanges, StepMoves, LockStep, BridgeOK DEF BridgeInv
<1>1. ASSUME NEW d \in Daemons, NEW r \in batch[d]
      PROVE  /\ r[1] \in Hosts /\ r[2] \in Nat
             /\ r[2] \in DOMAIN lane[r[1]]
             /\ r[2] \in DOMAIN lane'[r[1]] /\ lane'[r[1]][r[2]] = lane[r[1]][r[2]]
             /\ lane[r[1]][r[2]] \in sent
  <2>1. r[1] \in Hosts /\ r[2] \in Nat /\ r[2] \in DOMAIN lane[r[1]]
    BY <1>0 DEF TypeOK, Records, BatchKnown
  <2>2. lane[r[1]][r[2]] \in InLane(r[1])
    BY <2>1 DEF InLane
  <2> QED
    BY <1>0, <2>1, <2>2, LaneGrows DEF Provenance
<1>2. ASSUME NEW d \in Daemons, NEW up \in BOOLEAN, Drain(d, up), NEW r \in batch'[d]
      PROVE  pc'[d] = "look" /\ r[2] \in DOMAIN lane'[r[1]]
  <2> DEFINE h == HostOf[d]
  <2>1. Fetch(h, up) /\ h \in Hosts
    BY <1>0, <1>2 DEF Drain
  <2>2. pc'[d] = "look"
    BY <1>0, <1>2 DEF Drain, Goto, TypeOK
  <2>3. batch'[d] = UNION {{g} \X (cursor[d][g] + 1 .. EndOf(h, g)) : g \in Hosts}
    BY <1>0, <1>2 DEF Drain, TypeOK
  <2>4. PICK g \in Hosts : r \in {g} \X (cursor[d][g] + 1 .. EndOf(h, g))
    BY <1>2, <2>3
  <2>5. r[1] = g /\ r[2] \in cursor[d][g] + 1 .. EndOf(h, g)
    BY <2>4
  <2>6. /\ lane' = lane /\ cursor[d][g] \in Nat /\ Len(lane[g]) \in Nat /\ pushed[g] \in Nat
        /\ seen'[h][g] \in Nat /\ seen'[h][g] <= pushed[g] /\ pushed[g] <= Len(lane[g])
    <3>1. lane' = lane /\ seen'[h][g] \in Nat /\ seen'[h][g] <= pushed[g]
      BY <1>0, <2>1, FetchEffect
    <3>2. cursor[d][g] \in Nat /\ Len(lane[g]) \in Nat /\ pushed[g] \in Nat
      BY <1>0 DEF TypeOK
    <3> QED
      BY <1>0, <3>1, <3>2 DEF Prefixes
  <2>7. EndOf(h, g) \in Nat /\ EndOf(h, g) <= Len(lane[g])
    BY <2>6 DEF EndOf
  <2>8. r[2] \in 1 .. Len(lane[g])
    BY <2>5, <2>6, <2>7
  <2>9. lane[g] \in Seq(Msgs)
    BY <1>0 DEF TypeOK
  <2> QED
    BY <2>2, <2>5, <2>6, <2>8, <2>9
<1>3. ASSUME NEW d \in Daemons, NEW r \in batch'[d]
      PROVE  r \in batch[d] \/ \E up \in BOOLEAN : Drain(d, up)
  <2>0. batch \in [Daemons -> SUBSET Records]
    BY <1>0 DEF TypeOK
  <2>1. ASSUME NEW e \in Daemons, Boot(e) \/ Look(e) PROVE batch' = batch
    BY <2>1 DEF Boot, Look
  <2>2. ASSUME NEW e \in Daemons, Die(e) \/ DeliverFails(e) PROVE r \in batch[d]
    BY <1>3, <2>0, <2>2 DEF Die, DeliverFails
  <2>3. ASSUME NEW e \in Daemons, NEW up \in BOOLEAN, Drain(e, up), e # d PROVE r \in batch[d]
    BY <1>3, <2>0, <2>3 DEF Drain
  <2>4. ASSUME NEW e \in Daemons, NEW q \in batch[e], Deliver(e, q) PROVE r \in batch[d]
    BY <1>3, <2>0, <2>4 DEF Deliver
  <2> QED
    BY <1>0, <1>3, <2>1, <2>2, <2>3, <2>4 DEF Changes
<1>4. ASSUME NEW d \in Daemons, NEW r \in batch[d], r \in batch'[d]
      PROVE  pc'[d] \in {"look", "deliver"}
  <2>1. pc[d] \in {"look", "deliver"}
    BY <1>0 DEF BatchKnown
  <2>2. ~Die(d) /\ ~DeliverFails(d)
    BY <1>0, <1>4 DEF Die, DeliverFails, TypeOK
  <2>3. ~Delivered(d)
    BY DEF Delivered
  <2>4. Look(d) => pc'[d] = "deliver"
    BY <1>0 DEF Look, Goto, TypeOK
  <2> QED
    BY <1>0, <2>1, <2>2, <2>3, <2>4 DEF Moves
<1>5. ASSUME NEW d \in Daemons, NEW r \in batch[d], pc'[d] = "deliver",
             HostOf[d] \notin together', lane[r[1]][r[2]] \in InboxIds(HostOf[d])'
      PROVE  lane[r[1]][r[2]] \in present'[d]
  <2> DEFINE m == lane[r[1]][r[2]]
  <2>1. CASE Look(d)
    <3>1. present'[d] = InboxIds(HostOf[d]) /\ inbox' = inbox
      BY <1>0, <2>1 DEF Look, TypeOK, relay
    <3> QED
      BY <1>5, <3>1 DEF InboxIds
  <2>2. CASE pc[d] = "deliver" /\ ~Look(d)
    <3>1. m \in present[d] => m \in present'[d]
      <4>1. ASSUME NEW e \in Daemons, Boot(e) \/ DeliverFails(e) PROVE present' = present
        BY <4>1 DEF Boot, DeliverFails
      <4>2. ASSUME NEW e \in Daemons, Die(e) \/ Look(e) PROVE present'[d] = present[d]
        <5>1. e # d
          BY <1>0, <1>5, <2>2, <4>2 DEF Die, Goto, TypeOK
        <5> QED
          BY <1>0, <4>2, <5>1 DEF Die, Look, TypeOK
      <4>3. ASSUME NEW e \in Daemons, NEW up \in BOOLEAN, Drain(e, up) PROVE present' = present
        BY <4>3 DEF Drain
      <4>4. ASSUME NEW e \in Daemons, NEW q \in batch[e], Deliver(e, q)
            PROVE  present[d] \subseteq present'[d]
        BY <1>0, <4>4 DEF Deliver, TypeOK
      <4> QED
        BY <1>0, <4>1, <4>2, <4>3, <4>4 DEF Changes
    <3>2. CASE m \in InboxIds(HostOf[d])
      <4>1. HostOf[d] \notin together
        BY <1>0, <1>5
      <4> QED
        BY <1>0, <2>2, <3>1, <3>2, <4>1 DEF BatchKnown
    <3>3. m \in sent
      BY <1>1
    <3>4. ASSUME NEW e \in Daemons, NEW q \in batch[e], Deliver(e, q), HostOf[e] = HostOf[d],
                 m = lane[q[1]][q[2]]
          PROVE  m \in present'[d]
      <4>1. pc[e] = "deliver"
        BY <3>4 DEF Deliver
      <4>2. e = d
        BY <1>0, <1>5, <2>2, <3>4, <4>1 DEF OneServes
      <4> QED
        BY <1>0, <3>4, <4>2 DEF Deliver, TypeOK
    <3> QED
      BY <1>0, <1>5, <3>2, <3>3, <3>4 DEF FilesExplained
  <2> QED
    BY <1>0, <1>5, <2>1, <2>2 DEF Moves
<1>6. ASSUME NEW d \in Daemons, NEW r \in batch'[d], r \in batch[d]
      PROVE  /\ pc'[d] \in {"look", "deliver"}
             /\ r[2] \in DOMAIN lane'[r[1]]
             /\ (pc'[d] = "deliver" /\ HostOf[d] \notin together'
                   /\ lane'[r[1]][r[2]] \in InboxIds(HostOf[d])')
                  => lane'[r[1]][r[2]] \in present'[d]
  BY <1>1, <1>4, <1>5, <1>6
<1> QED
  BY <1>2, <1>3, <1>6 DEF BatchKnown

\* Every step keeps inboxes free of duplicates.
LEMMA TwinStep == ASSUME BridgeInv, [Next]_vars PROVE NoTwins'
<1>0. /\ TypeOK /\ Provenance /\ BatchKnown /\ NoTwins
      /\ Changes /\ HostOf \in [Daemons -> Hosts] /\ Origin \in [Msgs -> Hosts]
      /\ together \subseteq together' /\ once \subseteq once'
      /\ \A h \in together' \ together : \E d \in once : HostOf[d] = h
  BY StepChanges, LockStep, BridgeOK DEF BridgeInv
<1> DEFINE OneEach(h) == \A f, g \in inbox[h] : f[1] = g[1] => f = g
           AllApart == \A h \in Hosts : h \notin together' => OneEach(h)'
<1>1. CASE \A h \in Hosts : inbox'[h] \subseteq inbox[h]
  BY <1>0, <1>1 DEF NoTwins
<1>2. ASSUME NEW h \in Hosts, NEW f, h \notin together' => f[1] \notin InboxIds(h),
             inbox' = [inbox EXCEPT ![h] = @ \cup {f}]
      PROVE  AllApart
  <2> SUFFICES ASSUME NEW k \in Hosts, k \notin together',
                      NEW e \in inbox'[k], NEW g \in inbox'[k], e[1] = g[1]
               PROVE  e = g
    OBVIOUS
  <2>1. k = h => \A b \in inbox[k] : b[1] # f[1]
    BY <1>2 DEF InboxIds
  <2>2. \A b \in inbox'[k] : b \in inbox[k] \/ (k = h /\ b = f)
    BY <1>0, <1>2 DEF TypeOK
  <2>3. \A b, c \in inbox[k] : b[1] = c[1] => b = c
    BY <1>0 DEF NoTwins
  <2> QED
    BY <2>1, <2>2, <2>3
<1>3. ASSUME NEW m \in Msgs, Send(m) PROVE AllApart
  <2>1. m \notin InboxIds(Origin[m])
    BY <1>0, <1>3 DEF Send, Provenance
  <2>2. inbox' = [inbox EXCEPT ![Origin[m]] = @ \cup {Original(m)}]
    BY <1>3 DEF Send
  <2>3. Original(m)[1] = m
    BY DEF Original
  <2> QED
    BY <1>0, <1>2, <2>1, <2>2, <2>3
<1>4. ASSUME NEW h \in Hosts, NEW f, Adopt(h, f) \/ Remove(h, f)
      PROVE  \A k \in Hosts : inbox'[k] \subseteq inbox[k]
  <2>1. inbox' = [inbox EXCEPT ![h] = @ \ {f}]
    BY <1>4 DEF Adopt, Remove
  <2>2. inbox \in [Hosts -> SUBSET Files]
    BY <1>0 DEF TypeOK
  <2> QED
    BY <2>1, <2>2
<1>5. ASSUME NEW h \in Hosts, NEW f, Lapse(h, f) PROVE AllApart
  <2> DEFINE grave == <<f[1], "tombstone", f[3]>>
  <2> SUFFICES ASSUME NEW k \in Hosts, k \notin together',
                      NEW e \in inbox'[k], NEW g \in inbox'[k], e[1] = g[1]
               PROVE  e = g
    OBVIOUS
  <2>1. /\ f \in inbox[h]
        /\ inbox' = [inbox EXCEPT ![h] = (@ \ {f}) \cup {grave}]
    BY <1>5 DEF Lapse
  <2>2. \A b \in inbox'[k] : (b \in inbox[k] /\ (k = h => b # f)) \/ (k = h /\ b = grave)
    BY <1>0, <2>1 DEF TypeOK
  <2>3. grave[1] = f[1]
    OBVIOUS
  <2>4. \A b, c \in inbox[k] : b[1] = c[1] => b = c
    BY <1>0 DEF NoTwins
  <2> HIDE DEF grave
  <2> QED
    BY <2>1, <2>2, <2>3, <2>4
<1>6. ASSUME NEW d \in Daemons, NEW r \in batch[d], Deliver(d, r) PROVE AllApart
  <2> DEFINE m == lane[r[1]][r[2]]
             copy == <<m, "git", r>>
  <2>1. CASE inbox' = inbox
    BY <1>1, <2>1, <1>0 DEF NoTwins
  <2>2. CASE m \notin present[d] /\ inbox' = [inbox EXCEPT ![HostOf[d]] = @ \cup {copy}]
    <3>1. HostOf[d] \notin together' => m \notin InboxIds(HostOf[d])
      BY <1>0, <1>6, <2>2 DEF BatchKnown, Deliver
    <3>2. copy[1] = m
      OBVIOUS
    <3> HIDE DEF m, copy, AllApart
    <3> QED
      BY <1>0, <1>2, <2>2, <3>1, <3>2
  <2> QED
    BY <1>6, <2>1, <2>2 DEF Deliver
<1>7. AllApart
  <2> HIDE DEF AllApart
  <2>1. CASE \A h \in Hosts : inbox'[h] \subseteq inbox[h]
    BY <1>0, <2>1 DEF NoTwins, AllApart
  <2> QED
    BY <1>3, <1>4, <1>5, <1>6, <2>1, <1>0 DEF Changes
<1> QED
  BY <1>0, <1>7 DEF NoTwins

\* The invariant holds throughout.
LEMMA BridgeInvariance == Spec => []BridgeInv
<1>1. Init => BridgeInv
  <2> SUFFICES ASSUME Init PROVE BridgeInv
    OBVIOUS
  <2> USE BridgeOK DEF Init, NoLines, Serving, InPass
  <2>1. TypeOK
    BY DEF TypeOK
  <2>2. Provenance /\ NoEcho /\ LedgersHonest /\ NoSilentDrop
    BY DEF Provenance, NoEcho, LedgersHonest, NoSilentDrop, LocalMessages, InboxIds, InLane
  <2>3. Prefixes /\ OneServes /\ BatchKnown /\ NoTwins
    BY DEF Prefixes, OneServes, BatchKnown, NoTwins
  <2> QED
    BY <2>1, <2>2, <2>3 DEF BridgeInv
<1>2. BridgeInv /\ [Next]_vars => BridgeInv'
  <2> SUFFICES ASSUME BridgeInv, [Next]_vars PROVE BridgeInv'
    OBVIOUS
  <2>1. TypeOK'
    BY BridgeTypes DEF BridgeInv
  <2>2. Provenance' /\ NoEcho' /\ LedgersHonest' /\ NoSilentDrop'
    BY <2>1, ProvenanceStep, LedgerStep
  <2>3. Prefixes' /\ OneServes'
    BY <2>1, PrefixStep, LockStep DEF BridgeInv
  <2>4. BatchKnown' /\ NoTwins'
    BY <2>1, BatchStep, TwinStep
  <2> QED
    BY <2>1, <2>2, <2>3, <2>4 DEF BridgeInv
<1> QED
  BY <1>1, <1>2, PTL DEF Spec

\* The bridge's variables keep their types, for any hosts, daemons and messages.
THEOREM BridgeKeepsTypes == Spec => []TypeOK
<1>1. BridgeInv => TypeOK
  BY DEF BridgeInv
<1> QED
  BY <1>1, BridgeInvariance, PTL

\* No message is published by a host it was not sent on.
THEOREM BridgeDoesNotEcho == Spec => []NoEcho
<1>1. BridgeInv => NoEcho
  BY DEF BridgeInv
<1> QED
  BY <1>1, BridgeInvariance, PTL

\* No message sent after the bridge was enabled is listed as handled unless it was
\* published or its recipient was live.
THEOREM BridgeSkipsNothing == Spec => []NoSilentDrop
<1>1. BridgeInv => NoSilentDrop
  BY DEF BridgeInv
<1> QED
  BY <1>1, BridgeInvariance, PTL

\* The recipient's inbox never holds a message twice, although records are published
\* twice and every host reads its own lane, unless two passes delivered there at
\* once, and they only do on a host where --once was used.
THEOREM BridgeMakesNoTwins == Spec => []NoTwins
<1>1. BridgeInv => NoTwins
  BY DEF BridgeInv
<1> QED
  BY <1>1, BridgeInvariance, PTL

-----------------------------------------------------------------------------
(* Nothing is skipped.                                                     *)

\* Every step keeps what has been dealt with so, and no cursor passes anything over.
LEMMA SkipStep ==
    ASSUME BridgeInv, SkipInv, [Next]_vars, TypeOK'
    PROVE  SkipInv'
<1>0. /\ TypeOK /\ Changes /\ BatchKnown
      /\ HostOf \in [Daemons -> Hosts]
  BY StepChanges, BridgeOK DEF BridgeInv
<1>1. ASSUME \A h, g \in Hosts : \A i \in Nat : DealtWith(h, g, i) => DealtWith(h, g, i)',
             cursorFile' = cursorFile,
             \A d \in Daemons : \/ cursor'[d] = cursor[d]
                               \/ cursor'[d] = cursorFile[HostOf[d]]
                               \/ cursor'[d] = NoLines
      PROVE  SkipInv'
  <2>1. \A h, g \in Hosts : cursorFile[h][g] \in Nat
    BY <1>0 DEF TypeOK
  <2>2. \A d \in Daemons, g \in Hosts : cursor[d][g] \in Nat
    BY <1>0 DEF TypeOK
  <2>3. NothingSkipped'
    BY <1>1, <2>1 DEF SkipInv, NothingSkipped
  <2>4. ASSUME NEW d \in Daemons, NEW g \in Hosts, NEW i \in 1 .. cursor'[d][g]
        PROVE  DealtWith(HostOf[d], g, i)'
    <3>1. CASE cursor'[d] = cursor[d]
      BY <1>0, <1>1, <2>2, <2>4, <3>1 DEF SkipInv
    <3>2. CASE cursor'[d] = cursorFile[HostOf[d]]
      BY <1>0, <1>1, <2>1, <2>4, <3>2 DEF SkipInv, NothingSkipped
    <3>3. CASE cursor'[d] = NoLines
      BY <2>4, <3>3 DEF NoLines
    <3> QED
      BY <1>1, <3>1, <3>2, <3>3
  <2> QED
    BY <2>3, <2>4 DEF SkipInv
<1>2. ASSUME NEW d \in Daemons, Boot(d) PROVE SkipInv'
  <2>1. /\ cursor' = [cursor EXCEPT ![d] = cursorFile[HostOf[d]]]
        /\ UNCHANGED <<batch, handled, dropped, cursorFile>>
    BY <1>2 DEF Boot, history
  <2>2. \A h, g \in Hosts : \A i \in Nat : DealtWith(h, g, i) => DealtWith(h, g, i)'
    BY <2>1 DEF DealtWith
  <2> QED
    BY <1>0, <1>1, <2>1, <2>2 DEF TypeOK
<1>3. ASSUME NEW d \in Daemons, Die(d) \/ DeliverFails(d) PROVE SkipInv'
  <2>1. /\ \/ cursor' = cursor
           \/ cursor' = [cursor EXCEPT ![d] = NoLines]
        /\ batch' = [batch EXCEPT ![d] = {}]
        /\ dropped' = [dropped EXCEPT ![HostOf[d]] = @ \cup batch[d]]
        /\ UNCHANGED <<handled, cursorFile>>
    BY <1>3 DEF Die, DeliverFails, state
  <2>2. ASSUME NEW h \in Hosts, NEW g \in Hosts, NEW i \in Nat, DealtWith(h, g, i)
        PROVE  DealtWith(h, g, i)'
    <3>0. /\ \A k \in Hosts : dropped[k] \subseteq dropped'[k]
          /\ batch[d] \subseteq dropped'[HostOf[d]]
      BY <1>0, <2>1 DEF TypeOK
    <3>1. CASE HostOf[d] = h /\ <<g, i>> \in batch[d]
      BY <3>0, <3>1 DEF DealtWith
    <3>2. CASE <<g, i>> \in handled[h] \cup dropped[h]
      BY <2>1, <3>0, <3>2 DEF DealtWith
    <3>3. ASSUME NEW e \in Daemons, e # d, HostOf[e] = h, <<g, i>> \in batch[e]
          PROVE  DealtWith(h, g, i)'
      <4>1. batch'[e] = batch[e]
        BY <1>0, <2>1, <3>3 DEF TypeOK
      <4> QED
        BY <3>3, <4>1 DEF DealtWith
    <3> QED
      BY <2>2, <3>1, <3>2, <3>3 DEF DealtWith
  <2> QED
    BY <1>0, <1>1, <2>1, <2>2 DEF TypeOK
<1>4. ASSUME NEW d \in Daemons, NEW r \in batch[d], Deliver(d, r) PROVE SkipInv'
  <2>1. /\ batch' = [batch EXCEPT ![d] = @ \ {r}]
        /\ handled' = [handled EXCEPT ![HostOf[d]] = @ \cup {r}]
        /\ UNCHANGED <<cursor, cursorFile, dropped>>
    BY <1>4 DEF Deliver, state
  <2>2. ASSUME NEW h \in Hosts, NEW g \in Hosts, NEW i \in Nat, DealtWith(h, g, i)
        PROVE  DealtWith(h, g, i)'
    <3>1. handled[h] \subseteq handled'[h] /\ r \in handled'[HostOf[d]]
      BY <1>0, <2>1 DEF TypeOK
    <3>2. \A e \in Daemons : \A q \in batch[e] : q \in batch'[e] \/ (e = d /\ q = r)
      BY <1>0, <2>1 DEF TypeOK
    <3> QED
      BY <2>1, <2>2, <3>1, <3>2 DEF DealtWith
  <2> QED
    BY <1>1, <2>1, <2>2
<1>5. ASSUME NEW d \in Daemons, NEW up \in BOOLEAN, Drain(d, up) PROVE SkipInv'
  <2> DEFINE h == HostOf[d]
  <2>1. /\ cursor' = [cursor EXCEPT ![d] = [g \in Hosts |-> EndOf(h, g)]]
        /\ cursorFile' = [cursorFile EXCEPT ![h] = cursor'[d]]
        /\ batch' = [batch EXCEPT ![d] =
                       UNION {{g} \X (cursor[d][g] + 1 .. EndOf(h, g)) : g \in Hosts}]
        /\ UNCHANGED <<handled, dropped>>
    BY <1>5 DEF Drain, history
  <2>2. batch[d] = {}
    BY <1>0, <1>5 DEF BatchKnown, Drain
  <2>3. /\ cursor'[d] = [g \in Hosts |-> EndOf(h, g)]
        /\ cursorFile'[h] = [g \in Hosts |-> EndOf(h, g)]
        /\ batch'[d] = UNION {{g} \X (cursor[d][g] + 1 .. EndOf(h, g)) : g \in Hosts}
        /\ \A e \in Daemons : e # d => cursor'[e] = cursor[e] /\ batch'[e] = batch[e]
        /\ \A k \in Hosts : k # h => cursorFile'[k] = cursorFile[k]
    BY <1>0, <2>1 DEF TypeOK
  <2>4. \A k, g \in Hosts : \A i \in Nat : DealtWith(k, g, i) => DealtWith(k, g, i)'
    BY <2>1, <2>2, <2>3 DEF DealtWith
  <2>5. \A g \in Hosts : EndOf(h, g) \in Nat
    <3>1. \A g \in Hosts : cursor'[d][g] \in Nat
      BY DEF TypeOK
    <3> QED
      BY <2>3, <3>1
  <2>6. ASSUME NEW g \in Hosts, NEW i \in 1 .. EndOf(h, g) PROVE DealtWith(h, g, i)'
    <3>1. i \in Nat /\ cursor[d][g] \in Nat
      BY <1>0, <2>5 DEF TypeOK
    <3>2. CASE i <= cursor[d][g]
      BY <1>0, <2>4, <2>6, <3>1, <3>2 DEF SkipInv
    <3>3. CASE cursor[d][g] < i
      <4>1. i \in cursor[d][g] + 1 .. EndOf(h, g)
        BY <2>5, <2>6, <3>1, <3>3
      <4>2. <<g, i>> \in batch'[d]
        BY <2>3, <4>1
      <4> QED
        BY <4>2 DEF DealtWith
    <3> QED
      BY <3>1, <3>2, <3>3
  <2>7. \A k, g \in Hosts : \A i \in 1 .. cursorFile'[k][g] : DealtWith(k, g, i)'
    <3> SUFFICES ASSUME NEW k \in Hosts, NEW g \in Hosts, NEW i \in 1 .. cursorFile'[k][g]
                 PROVE  DealtWith(k, g, i)'
      OBVIOUS
    <3>1. CASE k = h
      BY <2>3, <2>6, <3>1
    <3>2. CASE k # h
      <4>1. cursorFile'[k][g] = cursorFile[k][g] /\ cursorFile[k][g] \in Nat
        BY <1>0, <2>3, <3>2 DEF TypeOK
      <4> QED
        BY <2>4, <4>1 DEF SkipInv, NothingSkipped
    <3> QED
      BY <3>1, <3>2
  <2>8. \A e \in Daemons : \A g \in Hosts : \A i \in 1 .. cursor'[e][g] :
          DealtWith(HostOf[e], g, i)'
    <3> SUFFICES ASSUME NEW e \in Daemons, NEW g \in Hosts, NEW i \in 1 .. cursor'[e][g]
                 PROVE  DealtWith(HostOf[e], g, i)'
      OBVIOUS
    <3>1. CASE e = d
      BY <2>3, <2>6, <3>1
    <3>2. CASE e # d
      <4>1. cursor'[e][g] = cursor[e][g] /\ cursor[e][g] \in Nat /\ HostOf[e] \in Hosts
        BY <1>0, <2>3, <3>2 DEF TypeOK
      <4> QED
        BY <2>4, <4>1 DEF SkipInv
    <3> QED
      BY <3>1, <3>2
  <2> QED
    BY <2>7, <2>8 DEF SkipInv, NothingSkipped
<1>6. CASE UNCHANGED <<batch, cursor, cursorFile, handled, dropped>>
  <2>1. \A h, g \in Hosts : \A i \in Nat : DealtWith(h, g, i) => DealtWith(h, g, i)'
    BY <1>6 DEF DealtWith
  <2> QED
    BY <1>1, <1>6, <2>1
<1>7. ASSUME NEW d \in Daemons, Look(d)
      PROVE  UNCHANGED <<batch, cursor, cursorFile, handled, dropped>>
  BY <1>7 DEF Look, state, history
<1> QED
  BY <1>0, <1>2, <1>3, <1>4, <1>5, <1>6, <1>7 DEF Changes

\* Every record a host's cursor has passed was worked on there, is being worked on,
\* or was lost with a process that had it in hand or in a pass whose write failed.
THEOREM NothingIsPassedOver == Spec => []NothingSkipped
<1>1. Init => SkipInv
  BY BridgeOK DEF Init, SkipInv, NothingSkipped, NoLines
<1>2. BridgeInv /\ BridgeInv' /\ SkipInv /\ [Next]_vars => SkipInv'
  BY SkipStep DEF BridgeInv
<1>3. SkipInv => NothingSkipped
  BY DEF SkipInv
<1> QED
  BY <1>1, <1>2, <1>3, BridgeInvariance, PTL DEF Spec

-----------------------------------------------------------------------------
(* Nothing is worked on twice.                                             *)

\* Lanes and clones only grow.
LEMMA LinesGrow ==
    ASSUME TypeOK, Prefixes, [Next]_vars, TypeOK'
    PROVE  \A h, g \in Hosts : Lines(h, g) <= Lines(h, g)'
<1>1. \A h, g \in Hosts : seen[h][g] <= seen'[h][g]
  BY PrefixStep
<1>2. \A h \in Hosts : Len(lane[h]) <= Len(lane'[h])
  BY LaneGrows
<1> QED
  BY <1>1, <1>2 DEF Lines

\* What a drain does to the cursor and the batch.
LEMMA DrainEffect ==
    ASSUME BridgeInv, NEW d \in Daemons, NEW up \in BOOLEAN, Drain(d, up)
    PROVE  /\ \A e \in Daemons : e # d => batch'[e] = batch[e]
           /\ \A h \in Hosts : h # HostOf[d] => cursorFile'[h] = cursorFile[h]
           /\ \A g \in Hosts : cursorFile'[HostOf[d]][g] = Lines(HostOf[d], g)'
           /\ \A r \in batch'[d] : /\ cursor[d][r[1]] < r[2]
                                   /\ r[2] <= cursorFile'[HostOf[d]][r[1]]
           /\ handled' = handled
           /\ HostOf[d] \notin rewound' => cursor[d] = cursorFile[HostOf[d]]
<1> DEFINE h == HostOf[d]
<1>1. TypeOK /\ h \in Hosts
  BY BridgeOK DEF BridgeInv
<1>2. HostOf[d] \notin rewound' => cursor[d] = cursorFile[HostOf[d]]
  BY DEF Drain, Rewind
<1>4. /\ cursor' = [cursor EXCEPT ![d] = [g \in Hosts |-> EndOf(h, g)]]
      /\ cursorFile' = [cursorFile EXCEPT ![h] = cursor'[d]]
      /\ batch' = [batch EXCEPT ![d] =
                     UNION {{g} \X (cursor[d][g] + 1 .. EndOf(h, g)) : g \in Hosts}]
      /\ handled' = handled /\ lane' = lane
  BY DEF Drain, Fetch
<1>5. \A e \in Daemons : e # d => batch'[e] = batch[e]
  BY <1>1, <1>4 DEF TypeOK
<1>6. /\ cursor'[d] = [g \in Hosts |-> EndOf(h, g)]
      /\ cursorFile'[h] = cursor'[d]
      /\ \A k \in Hosts : k # h => cursorFile'[k] = cursorFile[k]
  BY <1>1, <1>4 DEF TypeOK
<1>7. \A g \in Hosts : EndOf(h, g) = Lines(h, g)'
  BY <1>4 DEF EndOf, Lines
<1>8. ASSUME NEW r \in batch'[d]
      PROVE  cursor[d][r[1]] < r[2] /\ r[2] <= cursorFile'[h][r[1]]
  <2>1. batch'[d] = UNION {{g} \X (cursor[d][g] + 1 .. EndOf(h, g)) : g \in Hosts}
    BY <1>1, <1>4 DEF TypeOK
  <2>2. PICK g \in Hosts : r \in {g} \X (cursor[d][g] + 1 .. EndOf(h, g))
    BY <1>8, <2>1
  <2>3. r[1] = g /\ r[2] \in cursor[d][g] + 1 .. EndOf(h, g)
    BY <2>2
  <2>4. cursor[d][g] \in Nat
    BY <1>1 DEF TypeOK
  <2>5. cursorFile'[h][g] = EndOf(h, g)
    BY <1>6
  <2> QED
    BY <2>3, <2>4, <2>5
<1> QED
  BY <1>2, <1>4, <1>5, <1>6, <1>7, <1>8

\* Every step keeps the cursor on disk ahead of what has been read, and batches apart.
LEMMA CursorStep ==
    ASSUME BridgeInv, CursorInv, [Next]_vars, TypeOK'
    PROVE  CursorInv'
<1>0. /\ TypeOK /\ Prefixes /\ Changes /\ HostOf \in [Daemons -> Hosts]
  BY StepChanges, BridgeOK DEF BridgeInv
<1>1. \A h, g \in Hosts : Lines(h, g) <= Lines(h, g)' /\ Lines(h, g) \in Nat /\ Lines(h, g)' \in Nat
                          /\ cursorFile[h][g] \in Nat
  <2>1. \A h, g \in Hosts : Lines(h, g) \in Nat /\ cursorFile[h][g] \in Nat
    BY <1>0 DEF Lines, TypeOK
  <2>2. \A h, g \in Hosts : Lines(h, g)' \in Nat
    <3>1. \A h, g \in Hosts : Len(lane'[h]) \in Nat /\ seen'[h][g] \in Nat
      BY DEF TypeOK
    <3> QED
      BY <3>1 DEF Lines
  <2> QED
    BY <1>0, <2>1, <2>2, LinesGrow
<1>2. rewound \subseteq rewound'
  <2>1. ASSUME NEW d \in Daemons, NEW up \in BOOLEAN, Drain(d, up) PROVE rewound \subseteq rewound'
    BY <2>1 DEF Drain, Rewind
  <2> QED
    BY <1>0, <2>1 DEF Changes
<1>3. ASSUME NEW d \in Daemons, NEW up \in BOOLEAN, Drain(d, up) PROVE CursorInv'
  <2> DEFINE h == HostOf[d]
  <2>1. /\ \A e \in Daemons : e # d => batch'[e] = batch[e]
        /\ \A k \in Hosts : k # h => cursorFile'[k] = cursorFile[k]
        /\ \A g \in Hosts : cursorFile'[h][g] = Lines(h, g)'
        /\ \A r \in batch'[d] : cursor[d][r[1]] < r[2] /\ r[2] <= cursorFile'[h][r[1]]
        /\ handled' = handled
        /\ h \notin rewound' => cursor[d] = cursorFile[h]
    BY <1>3, DrainEffect
  <2>2. \A k, g \in Hosts : /\ cursorFile[k][g] <= cursorFile'[k][g]
                            /\ cursorFile'[k][g] <= Lines(k, g)' /\ cursorFile'[k][g] \in Nat
    <3> SUFFICES ASSUME NEW k \in Hosts, NEW g \in Hosts
                 PROVE  /\ cursorFile[k][g] <= cursorFile'[k][g]
                        /\ cursorFile'[k][g] <= Lines(k, g)' /\ cursorFile'[k][g] \in Nat
      OBVIOUS
    <3>1. /\ cursorFile[k][g] <= Lines(k, g) /\ Lines(k, g) <= Lines(k, g)'
          /\ Lines(k, g) \in Nat /\ Lines(k, g)' \in Nat /\ cursorFile[k][g] \in Nat
      BY <1>1 DEF CursorInv
    <3>2. cursorFile'[k][g] \in {cursorFile[k][g], Lines(k, g)'}
      BY <2>1
    <3> QED
      BY <3>1, <3>2
  <2>3. \A k \in Hosts : \A r \in handled[k] :
          /\ r[1] \in Hosts /\ r[2] \in Nat /\ r[2] <= cursorFile[k][r[1]]
    BY <1>0 DEF CursorInv, TypeOK, Records
  <2>4. \A e \in Daemons : \A r \in batch[e] :
          /\ r[1] \in Hosts /\ r[2] \in Nat /\ r[2] <= cursorFile[HostOf[e]][r[1]]
    BY <1>0 DEF CursorInv, TypeOK, Records
  <2>5. \A k \in Hosts : \A r \in handled'[k] : r[2] <= cursorFile'[k][r[1]]
    BY <1>1, <2>1, <2>2, <2>3
  <2>6. ASSUME NEW e \in Daemons, NEW r \in batch'[e] PROVE r[2] <= cursorFile'[HostOf[e]][r[1]]
    <3>1. CASE e = d
      BY <2>1, <2>6, <3>1
    <3>2. CASE e # d
      <4>1. /\ r[1] \in Hosts /\ r[2] \in Nat /\ r[2] <= cursorFile[HostOf[e]][r[1]]
            /\ HostOf[e] \in Hosts
        BY <1>0, <2>1, <2>4, <2>6, <3>2
      <4> QED
        BY <1>1, <2>2, <4>1
    <3> QED
      BY <3>1, <3>2
  <2>7. ASSUME NEW r \in batch'[d], h \notin rewound'
        PROVE  /\ r \notin handled[h]
               /\ \A e \in Daemons : HostOf[e] = h => r \notin batch[e]
    <3>1. cursorFile[h][r[1]] < r[2] /\ cursorFile[h][r[1]] \in Nat /\ r[2] \in Nat
      <4>0. r \in Records
        BY DEF TypeOK
      <4>1. r[1] \in Hosts /\ r[2] \in Nat /\ h \in Hosts
        BY <1>0, <4>0 DEF Records
      <4> QED
        BY <1>1, <2>1, <2>7, <4>1
    <3> QED
      BY <1>0, <2>3, <2>4, <3>1
  <2>8. ASSUME NEW c \in Daemons, NEW e \in Daemons, HostOf[c] = HostOf[e],
               HostOf[e] \notin rewound', batch'[c] \cap batch'[e] # {}
        PROVE  c = e
    <3>1. CASE c # d /\ e # d
      BY <1>2, <2>1, <2>8, <3>1 DEF CursorInv
    <3>2. CASE c # d /\ e = d
      BY <2>1, <2>7, <2>8, <3>2
    <3>3. CASE c = d /\ e # d
      BY <2>1, <2>7, <2>8, <3>3
    <3> QED
      BY <3>1, <3>2, <3>3
  <2>9. HandledOnce'
    <3> SUFFICES ASSUME NEW e \in Daemons, HostOf[e] \notin rewound', NEW r \in batch'[e]
                 PROVE  r \notin handled'[HostOf[e]]
      BY DEF HandledOnce
    <3>1. CASE e = d
      BY <2>1, <2>7, <3>1
    <3>2. CASE e # d
      BY <1>2, <2>1, <3>2 DEF CursorInv, HandledOnce
    <3> QED
      BY <3>1, <3>2
  <2> QED
    BY <2>2, <2>5, <2>6, <2>8, <2>9 DEF CursorInv
<1>4. ASSUME cursorFile' = cursorFile, \A e \in Daemons : batch'[e] \subseteq batch[e],
             \A h \in Hosts : \A q \in handled'[h] : q \in handled[h] \/
               \E d \in Daemons : HostOf[d] = h /\ q \in batch[d] /\ q \notin batch'[d]
      PROVE  CursorInv'
  <2>1. \A h, g \in Hosts : cursorFile'[h][g] <= Lines(h, g)'
    BY <1>1, <1>4 DEF CursorInv
  <2>2. \A h \in Hosts : \A q \in handled'[h] : q[2] <= cursorFile'[h][q[1]]
    BY <1>4 DEF CursorInv
  <2>3. \A d \in Daemons : \A q \in batch'[d] : q[2] <= cursorFile'[HostOf[d]][q[1]]
    BY <1>4 DEF CursorInv
  <2>4. \A c, d \in Daemons :
          HostOf[c] = HostOf[d] /\ HostOf[d] \notin rewound' /\ batch'[c] \cap batch'[d] # {} => c = d
    BY <1>2, <1>4 DEF CursorInv
  <2>5. ASSUME NEW e \in Daemons, HostOf[e] \notin rewound', NEW q \in batch'[e],
               q \in handled'[HostOf[e]]
        PROVE  FALSE
    <3>1. q \in batch[e] /\ HostOf[e] \notin rewound
      BY <1>2, <1>4, <2>5
    <3>2. q \notin handled[HostOf[e]]
      BY <3>1 DEF CursorInv, HandledOnce
    <3>3. PICK d \in Daemons : HostOf[d] = HostOf[e] /\ q \in batch[d] /\ q \notin batch'[d]
      BY <1>0, <1>4, <2>5, <3>2
    <3>4. d = e
      BY <3>1, <3>3 DEF CursorInv
    <3> QED
      BY <2>5, <3>3, <3>4
  <2> QED
    BY <2>1, <2>2, <2>3, <2>4, <2>5 DEF CursorInv, HandledOnce
<1>5. ASSUME NEW d \in Daemons, Boot(d) \/ Die(d) \/ Look(d) \/ DeliverFails(d) PROVE CursorInv'
  <2>1. /\ cursorFile' = cursorFile /\ handled' = handled
        /\ \/ batch' = batch
           \/ batch' = [batch EXCEPT ![d] = {}]
    BY <1>5 DEF Boot, Die, Look, DeliverFails, state, history
  <2>2. \A e \in Daemons : batch'[e] \subseteq batch[e]
    BY <1>0, <2>1 DEF TypeOK
  <2> QED
    BY <1>4, <2>1, <2>2
<1>6. ASSUME NEW d \in Daemons, NEW r \in batch[d], Deliver(d, r) PROVE CursorInv'
  <2>1. /\ cursorFile' = cursorFile
        /\ batch' = [batch EXCEPT ![d] = @ \ {r}]
        /\ handled' = [handled EXCEPT ![HostOf[d]] = @ \cup {r}]
    BY <1>6 DEF Deliver, state
  <2>2. /\ \A e \in Daemons : batch'[e] \subseteq batch[e]
        /\ r \notin batch'[d]
        /\ \A h \in Hosts : \A q \in handled'[h] : q \in handled[h] \/ (q = r /\ h = HostOf[d])
    BY <1>0, <2>1 DEF TypeOK
  <2> QED
    BY <1>4, <2>1, <2>2
<1>7. CASE UNCHANGED <<batch, cursorFile, handled>>
  BY <1>4, <1>7
<1> QED
  BY <1>0, <1>3, <1>5, <1>6, <1>7 DEF Changes

\* No record is worked on twice on a host, however often its daemons die and start
\* again, unless a pass there read on from another place than the one saved.
THEOREM RecordsAreHandledOnce == Spec => []HandledOnce
<1>1. Init => CursorInv
  BY BridgeOK DEF Init, CursorInv, HandledOnce, Lines, NoLines
<1>2. BridgeInv /\ BridgeInv' /\ CursorInv /\ [Next]_vars => CursorInv'
  BY CursorStep DEF BridgeInv
<1>3. CursorInv => HandledOnce
  BY DEF CursorInv
<1> QED
  BY <1>1, <1>2, <1>3, BridgeInvariance, PTL DEF Spec

=============================================================================
