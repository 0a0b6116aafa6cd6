--------------------------- MODULE RegistryProofs ---------------------------
(***************************************************************************)
(* Rooms, posts and the roster of other hosts, for any number of sessions  *)
(* of a nick and any number of rooms, however their updates of the record  *)
(* overlap.                                                                *)
(***************************************************************************)
EXTENDS Registry, TLAPS

-----------------------------------------------------------------------------
(* Types.                                                                  *)

\* Every step keeps the types.
LEMMA TypeStep == TypeOK /\ [Next]_vars => TypeOK'
<1> SUFFICES ASSUME TypeOK, [Next]_vars PROVE TypeOK'
  OBVIOUS
<1> USE ConstantsOK DEF TypeOK, Records, NoRecord, postVars, recVars
<1>1. ASSUME NEW s \in Sessions, Start(s) PROVE TypeOK'
  BY <1>1 DEF Start
<1>2. ASSUME NEW s \in Sessions, ReapPresence(s) PROVE TypeOK'
  BY <1>2 DEF ReapPresence
<1>3. ASSUME NEW s \in Sessions, ReapInbox(s) PROVE TypeOK'
  BY <1>3 DEF ReapInbox
<1>4. ASSUME NEW s \in Sessions, Lock(s) PROVE TypeOK'
  BY <1>4 DEF Lock
<1>5. ASSUME NEW s \in Sessions, Publish(s) PROVE TypeOK'
  BY <1>5 DEF Publish, RememberedChannels
<1>6. ASSUME NEW s \in Sessions, ReadToRegister(s) PROVE TypeOK'
  BY <1>6 DEF ReadToRegister, ReadRecord
<1>7. ASSUME NEW s \in Sessions, Register(s) PROVE TypeOK'
  BY <1>7 DEF Register, WriteSameRooms, WriteRecord
<1>8. ASSUME NEW s \in Sessions, Rewrite(s) PROVE TypeOK'
  BY <1>8 DEF Rewrite
<1>9. ASSUME NEW s \in Sessions, ReadToMirror(s) PROVE TypeOK'
  BY <1>9 DEF ReadToMirror, ReadRecord
<1>10. ASSUME NEW s \in Sessions, Mirror(s) PROVE TypeOK'
  BY <1>10 DEF Mirror, WriteRecord
<1>11. ASSUME NEW s \in Sessions, Leave(s) PROVE TypeOK'
  BY <1>11 DEF Leave, ReadRecord
<1>12. ASSUME NEW s \in Sessions, OnSigterm(s) PROVE TypeOK'
  BY <1>12 DEF OnSigterm, ReadRecord
<1>13. ASSUME NEW s \in Sessions, StampAgain(s) PROVE TypeOK'
  BY <1>13 DEF StampAgain, ReadRecord
<1>14. ASSUME NEW s \in Sessions, Released(s) PROVE TypeOK'
  BY <1>14 DEF Released, WriteSameRooms, WriteRecord
<1>15. ASSUME NEW s \in Sessions, Crash(s) PROVE TypeOK'
  BY <1>15 DEF Crash
<1>16. ASSUME NEW s \in Sessions, Address(s) PROVE TypeOK'
  BY <1>16 DEF Address
<1>17. ASSUME NEW s \in Sessions, Receive(s) PROVE TypeOK'
  BY <1>17 DEF Receive
<1>18. ASSUME NEW s \in Sessions, Read(s) PROVE TypeOK'
  BY <1>18 DEF Read
<1>19. ASSUME NEW s \in Sessions, PublishLane(s) PROVE TypeOK'
  BY <1>19 DEF PublishLane
<1>20. ASSUME NEW s \in Sessions, Recover(s) PROVE TypeOK'
  BY <1>20 DEF Recover
<1>21. ASSUME NEW s \in Sessions, ReadPresence(s) PROVE TypeOK'
  BY <1>21 DEF ReadPresence
<1>22. ASSUME NEW s \in Sessions, OpenSubscriber(s) PROVE TypeOK'
  BY <1>22 DEF OpenSubscriber
<1>23. ASSUME NEW s \in Sessions, NEW c \in Asked, NEW join \in BOOLEAN, Subscribe(s, c, join) PROVE TypeOK'
  BY <1>23 DEF Subscribe
<1>24. ASSUME NEW s \in Sessions, NEW t \in Sessions, Adopt(s, t) PROVE TypeOK'
  BY <1>24 DEF Adopt, Serving
<1>25. ASSUME NEW c \in Asked, Post(c) PROVE TypeOK'
  BY <1>25 DEF Post, Live
<1>26. ASSUME WriteSubscriber PROVE TypeOK'
  BY <1>26 DEF WriteSubscriber
<1>27. ASSUME WriteFails PROVE TypeOK'
  BY <1>27 DEF WriteFails, PostOver
<1>28. ASSUME PosterDies PROVE TypeOK'
  BY <1>28 DEF PosterDies, PostOver
<1>29. ASSUME EndPost PROVE TypeOK'
  BY <1>29 DEF EndPost, PostOver
<1>30. ASSUME WriteRemoteRoster PROVE TypeOK'
  BY <1>30 DEF WriteRemoteRoster
<1>31. CASE UNCHANGED vars
  BY <1>31 DEF vars
<1> QED
  BY <1>1, <1>2, <1>3, <1>4, <1>5, <1>6, <1>7, <1>8, <1>9, <1>10, <1>11,
     <1>12, <1>13, <1>14, <1>15, <1>16, <1>17, <1>18, <1>19, <1>20, <1>21, <1>22,
     <1>23, <1>24, <1>25, <1>26, <1>27, <1>28, <1>29, <1>30, <1>31 DEF Next

\* The registry's variables keep their types; in particular unread mail is in an
\* inbox that exists, and the roster lists only senders of published messages.
THEOREM RegistryTypes == Spec => []TypeOK
<1>1. Init => TypeOK
  BY ConstantsOK DEF Init, TypeOK, Records, NoRecord
<1> QED
  BY <1>1, TypeStep, PTL DEF Spec

-----------------------------------------------------------------------------
(* Posts.                                                                  *)

\* A session that the post owes a copy has its record whole and naming the
\* channel, and the post has still to read it or has it on its list.
OwedInv ==
    /\ \A s \in Sessions : pc[s] = "locked" => file[s] = "torn"
    /\ \A s \in owed :
        /\ pc[s] \notin {"new", "made", "exiting", "stamping", "dead"}
        /\ file[s] = "full"
        /\ topic \in mem[s]
        /\ s \in scan \cup got

LEMMA OwedStep == TypeOK /\ OwedInv /\ [Next]_vars => OwedInv'
<1> SUFFICES ASSUME TypeOK, OwedInv, [Next]_vars PROVE OwedInv'
  OBVIOUS
<1> USE DEF OwedInv, TypeOK, Gone, postVars, recVars
<1>1. ASSUME NEW s \in Sessions, Start(s) PROVE OwedInv'
  BY <1>1 DEF Start
<1>2. ASSUME NEW s \in Sessions, ReapPresence(s) PROVE OwedInv'
  BY <1>2 DEF ReapPresence
<1>3. ASSUME NEW s \in Sessions, ReapInbox(s) PROVE OwedInv'
  BY <1>3 DEF ReapInbox
<1>4. ASSUME NEW s \in Sessions, Lock(s) PROVE OwedInv'
  BY <1>4 DEF Lock
<1>5. ASSUME NEW s \in Sessions, Publish(s) PROVE OwedInv'
  BY <1>5 DEF Publish
<1>6. ASSUME NEW s \in Sessions, ReadToRegister(s) PROVE OwedInv'
  BY <1>6 DEF ReadToRegister, ReadRecord
<1>7. ASSUME NEW s \in Sessions, Register(s) PROVE OwedInv'
  BY <1>7 DEF Register, WriteSameRooms, WriteRecord
<1>8. ASSUME NEW s \in Sessions, Rewrite(s) PROVE OwedInv'
  BY <1>8 DEF Rewrite
<1>9. ASSUME NEW s \in Sessions, ReadToMirror(s) PROVE OwedInv'
  BY <1>9 DEF ReadToMirror, ReadRecord
<1>10. ASSUME NEW s \in Sessions, Mirror(s) PROVE OwedInv'
  BY <1>10 DEF Mirror, WriteRecord
<1>11. ASSUME NEW s \in Sessions, Leave(s) PROVE OwedInv'
  BY <1>11 DEF Leave, ReadRecord
<1>12. ASSUME NEW s \in Sessions, OnSigterm(s) PROVE OwedInv'
  BY <1>12 DEF OnSigterm, ReadRecord
<1>13. ASSUME NEW s \in Sessions, StampAgain(s) PROVE OwedInv'
  BY <1>13 DEF StampAgain, ReadRecord
<1>14. ASSUME NEW s \in Sessions, Released(s) PROVE OwedInv'
  BY <1>14 DEF Released, WriteSameRooms, WriteRecord
<1>15. ASSUME NEW s \in Sessions, Crash(s) PROVE OwedInv'
  BY <1>15 DEF Crash
<1>16. ASSUME NEW s \in Sessions, Address(s) PROVE OwedInv'
  BY <1>16 DEF Address
<1>17. ASSUME NEW s \in Sessions, Receive(s) PROVE OwedInv'
  BY <1>17 DEF Receive
<1>18. ASSUME NEW s \in Sessions, Read(s) PROVE OwedInv'
  BY <1>18 DEF Read
<1>19. ASSUME NEW s \in Sessions, PublishLane(s) PROVE OwedInv'
  BY <1>19 DEF PublishLane
<1>20. ASSUME NEW s \in Sessions, Recover(s) PROVE OwedInv'
  BY <1>20 DEF Recover
<1>21. ASSUME NEW s \in Sessions, ReadPresence(s) PROVE OwedInv'
  BY <1>21 DEF ReadPresence
<1>22. ASSUME NEW s \in Sessions, OpenSubscriber(s) PROVE OwedInv'
  BY <1>22 DEF OpenSubscriber
<1>23. ASSUME NEW s \in Sessions, NEW c \in Asked, NEW join \in BOOLEAN, Subscribe(s, c, join) PROVE OwedInv'
  BY <1>23 DEF Subscribe
<1>24. ASSUME NEW s \in Sessions, NEW t \in Sessions, Adopt(s, t) PROVE OwedInv'
  BY <1>24 DEF Adopt
<1>25. ASSUME NEW c \in Asked, Post(c) PROVE OwedInv'
  BY <1>25 DEF Post, Live
<1>26. ASSUME WriteSubscriber PROVE OwedInv'
  BY <1>26 DEF WriteSubscriber
<1>27. ASSUME WriteFails PROVE OwedInv'
  BY <1>27 DEF WriteFails, PostOver
<1>28. ASSUME PosterDies PROVE OwedInv'
  BY <1>28 DEF PosterDies, PostOver
<1>29. ASSUME EndPost PROVE OwedInv'
  BY <1>29 DEF EndPost, PostOver
<1>30. ASSUME WriteRemoteRoster PROVE OwedInv'
  BY <1>30 DEF WriteRemoteRoster
<1>31. CASE UNCHANGED vars
  BY <1>31 DEF vars
<1> QED
  BY <1>1, <1>2, <1>3, <1>4, <1>5, <1>6, <1>7, <1>8, <1>9, <1>10, <1>11,
     <1>12, <1>13, <1>14, <1>15, <1>16, <1>17, <1>18, <1>19, <1>20, <1>21, <1>22,
     <1>23, <1>24, <1>25, <1>26, <1>27, <1>28, <1>29, <1>30, <1>31 DEF Next

\* However many sessions start, stop and rewrite their records meanwhile, a post
\* that returns without an error has written to every session that stayed in
\* the channel while it was under way.
THEOREM PostsReachSubscribers == Spec => []PostReaches
<1>1. Init => OwedInv
  BY DEF Init, OwedInv
<1>2. OwedInv => PostReaches
  BY DEF OwedInv, PostReaches, Posted
<1> QED
  BY <1>1, <1>2, OwedStep, RegistryTypes, PTL DEF Spec

-----------------------------------------------------------------------------
(* Rooms.                                                                  *)

\* Whatever the updates of the record do to each other, the rooms recorded last
\* and not undone are in the record.
RoomsInv == wish \subseteq rec.channels

LEMMA RoomsStep == TypeOK /\ RoomsInv /\ [Next]_vars => RoomsInv'
<1> SUFFICES ASSUME TypeOK, RoomsInv, [Next]_vars PROVE RoomsInv'
  OBVIOUS
<1> USE DEF RoomsInv, TypeOK, Records, NoRecord, postVars, recVars
<1>1. ASSUME NEW s \in Sessions, Start(s) PROVE RoomsInv'
  BY <1>1 DEF Start
<1>2. ASSUME NEW s \in Sessions, ReapPresence(s) PROVE RoomsInv'
  BY <1>2 DEF ReapPresence
<1>3. ASSUME NEW s \in Sessions, ReapInbox(s) PROVE RoomsInv'
  BY <1>3 DEF ReapInbox
<1>4. ASSUME NEW s \in Sessions, Lock(s) PROVE RoomsInv'
  BY <1>4 DEF Lock
<1>5. ASSUME NEW s \in Sessions, Publish(s) PROVE RoomsInv'
  BY <1>5 DEF Publish
<1>6. ASSUME NEW s \in Sessions, ReadToRegister(s) PROVE RoomsInv'
  BY <1>6 DEF ReadToRegister, ReadRecord
<1>7. ASSUME NEW s \in Sessions, Register(s) PROVE RoomsInv'
  BY <1>7 DEF Register, WriteSameRooms, WriteRecord
<1>8. ASSUME NEW s \in Sessions, Rewrite(s) PROVE RoomsInv'
  BY <1>8 DEF Rewrite
<1>9. ASSUME NEW s \in Sessions, ReadToMirror(s) PROVE RoomsInv'
  BY <1>9 DEF ReadToMirror, ReadRecord
<1>10. ASSUME NEW s \in Sessions, Mirror(s) PROVE RoomsInv'
  BY <1>10 DEF Mirror, WriteRecord
<1>11. ASSUME NEW s \in Sessions, Leave(s) PROVE RoomsInv'
  BY <1>11 DEF Leave, ReadRecord
<1>12. ASSUME NEW s \in Sessions, OnSigterm(s) PROVE RoomsInv'
  BY <1>12 DEF OnSigterm, ReadRecord
<1>13. ASSUME NEW s \in Sessions, StampAgain(s) PROVE RoomsInv'
  BY <1>13 DEF StampAgain, ReadRecord
<1>14. ASSUME NEW s \in Sessions, Released(s) PROVE RoomsInv'
  BY <1>14 DEF Released, WriteSameRooms, WriteRecord
<1>15. ASSUME NEW s \in Sessions, Crash(s) PROVE RoomsInv'
  BY <1>15 DEF Crash
<1>16. ASSUME NEW s \in Sessions, Address(s) PROVE RoomsInv'
  BY <1>16 DEF Address
<1>17. ASSUME NEW s \in Sessions, Receive(s) PROVE RoomsInv'
  BY <1>17 DEF Receive
<1>18. ASSUME NEW s \in Sessions, Read(s) PROVE RoomsInv'
  BY <1>18 DEF Read
<1>19. ASSUME NEW s \in Sessions, PublishLane(s) PROVE RoomsInv'
  BY <1>19 DEF PublishLane
<1>20. ASSUME NEW s \in Sessions, Recover(s) PROVE RoomsInv'
  BY <1>20 DEF Recover
<1>21. ASSUME NEW s \in Sessions, ReadPresence(s) PROVE RoomsInv'
  BY <1>21 DEF ReadPresence
<1>22. ASSUME NEW s \in Sessions, OpenSubscriber(s) PROVE RoomsInv'
  BY <1>22 DEF OpenSubscriber
<1>23. ASSUME NEW s \in Sessions, NEW c \in Asked, NEW join \in BOOLEAN, Subscribe(s, c, join) PROVE RoomsInv'
  BY <1>23 DEF Subscribe
<1>24. ASSUME NEW s \in Sessions, NEW t \in Sessions, Adopt(s, t) PROVE RoomsInv'
  BY <1>24 DEF Adopt
<1>25. ASSUME NEW c \in Asked, Post(c) PROVE RoomsInv'
  BY <1>25 DEF Post
<1>26. ASSUME WriteSubscriber PROVE RoomsInv'
  BY <1>26 DEF WriteSubscriber
<1>27. ASSUME WriteFails PROVE RoomsInv'
  BY <1>27 DEF WriteFails, PostOver
<1>28. ASSUME PosterDies PROVE RoomsInv'
  BY <1>28 DEF PosterDies, PostOver
<1>29. ASSUME EndPost PROVE RoomsInv'
  BY <1>29 DEF EndPost, PostOver
<1>30. ASSUME WriteRemoteRoster PROVE RoomsInv'
  BY <1>30 DEF WriteRemoteRoster
<1>31. CASE UNCHANGED vars
  BY <1>31 DEF vars
<1> QED
  BY <1>1, <1>2, <1>3, <1>4, <1>5, <1>6, <1>7, <1>8, <1>9, <1>10, <1>11,
     <1>12, <1>13, <1>14, <1>15, <1>16, <1>17, <1>18, <1>19, <1>20, <1>21, <1>22,
     <1>23, <1>24, <1>25, <1>26, <1>27, <1>28, <1>29, <1>30, <1>31 DEF Next

\* The nick's first session to publish its presence takes the recorded rooms.
RoomsReturn ==
    \A s \in Sessions :
        pc[s] = "locked" /\ pc'[s] = "published" /\ Siblings(s) = {} => wish \subseteq mem'[s]

LEMMA ReturnStep == TypeOK /\ RoomsInv /\ [Next]_vars => RoomsReturn
<1> SUFFICES ASSUME TypeOK, RoomsInv, [Next]_vars PROVE RoomsReturn
  OBVIOUS
<1> USE DEF RoomsReturn, RoomsInv, TypeOK
<1>1. ASSUME NEW s \in Sessions, Start(s) PROVE RoomsReturn
  BY <1>1 DEF Start
<1>2. ASSUME NEW s \in Sessions, ReapPresence(s) PROVE RoomsReturn
  BY <1>2 DEF ReapPresence
<1>3. ASSUME NEW s \in Sessions, ReapInbox(s) PROVE RoomsReturn
  BY <1>3 DEF ReapInbox
<1>4. ASSUME NEW s \in Sessions, Lock(s) PROVE RoomsReturn
  BY <1>4 DEF Lock
<1>5. ASSUME NEW s \in Sessions, Publish(s) PROVE RoomsReturn
  BY <1>5 DEF Publish, RememberedChannels
<1>6. ASSUME NEW s \in Sessions, ReadToRegister(s) PROVE RoomsReturn
  BY <1>6 DEF ReadToRegister
<1>7. ASSUME NEW s \in Sessions, Register(s) PROVE RoomsReturn
  BY <1>7 DEF Register
<1>8. ASSUME NEW s \in Sessions, Rewrite(s) PROVE RoomsReturn
  BY <1>8 DEF Rewrite
<1>9. ASSUME NEW s \in Sessions, ReadToMirror(s) PROVE RoomsReturn
  BY <1>9 DEF ReadToMirror
<1>10. ASSUME NEW s \in Sessions, Mirror(s) PROVE RoomsReturn
  BY <1>10 DEF Mirror
<1>11. ASSUME NEW s \in Sessions, Leave(s) PROVE RoomsReturn
  BY <1>11 DEF Leave
<1>12. ASSUME NEW s \in Sessions, OnSigterm(s) PROVE RoomsReturn
  BY <1>12 DEF OnSigterm
<1>13. ASSUME NEW s \in Sessions, StampAgain(s) PROVE RoomsReturn
  BY <1>13 DEF StampAgain
<1>14. ASSUME NEW s \in Sessions, Released(s) PROVE RoomsReturn
  BY <1>14 DEF Released
<1>15. ASSUME NEW s \in Sessions, Crash(s) PROVE RoomsReturn
  BY <1>15 DEF Crash
<1>16. ASSUME NEW s \in Sessions, Address(s) PROVE RoomsReturn
  BY <1>16 DEF Address
<1>17. ASSUME NEW s \in Sessions, Receive(s) PROVE RoomsReturn
  BY <1>17 DEF Receive
<1>18. ASSUME NEW s \in Sessions, Read(s) PROVE RoomsReturn
  BY <1>18 DEF Read
<1>19. ASSUME NEW s \in Sessions, PublishLane(s) PROVE RoomsReturn
  BY <1>19 DEF PublishLane
<1>20. ASSUME NEW s \in Sessions, Recover(s) PROVE RoomsReturn
  BY <1>20 DEF Recover
<1>21. ASSUME NEW s \in Sessions, ReadPresence(s) PROVE RoomsReturn
  BY <1>21 DEF ReadPresence
<1>22. ASSUME NEW s \in Sessions, OpenSubscriber(s) PROVE RoomsReturn
  BY <1>22 DEF OpenSubscriber
<1>23. ASSUME NEW s \in Sessions, NEW c \in Asked, NEW join \in BOOLEAN, Subscribe(s, c, join) PROVE RoomsReturn
  BY <1>23 DEF Subscribe
<1>24. ASSUME NEW s \in Sessions, NEW t \in Sessions, Adopt(s, t) PROVE RoomsReturn
  BY <1>24 DEF Adopt
<1>25. ASSUME NEW c \in Asked, Post(c) PROVE RoomsReturn
  BY <1>25 DEF Post
<1>26. ASSUME WriteSubscriber PROVE RoomsReturn
  BY <1>26 DEF WriteSubscriber
<1>27. ASSUME WriteFails PROVE RoomsReturn
  BY <1>27 DEF WriteFails, PostOver
<1>28. ASSUME PosterDies PROVE RoomsReturn
  BY <1>28 DEF PosterDies, PostOver
<1>29. ASSUME EndPost PROVE RoomsReturn
  BY <1>29 DEF EndPost, PostOver
<1>30. ASSUME WriteRemoteRoster PROVE RoomsReturn
  BY <1>30 DEF WriteRemoteRoster
<1>31. CASE UNCHANGED vars
  BY <1>31 DEF vars
<1> QED
  BY <1>1, <1>2, <1>3, <1>4, <1>5, <1>6, <1>7, <1>8, <1>9, <1>10, <1>11,
     <1>12, <1>13, <1>14, <1>15, <1>16, <1>17, <1>18, <1>19, <1>20, <1>21, <1>22,
     <1>23, <1>24, <1>25, <1>26, <1>27, <1>28, <1>29, <1>30, <1>31 DEF Next

\* A nick that comes back online is in the rooms its sessions last recorded,
\* except for those that an overlapping update of the record has undone.
THEOREM RememberedRooms == Spec => RoomsKept
<1>1. Init => RoomsInv
  BY DEF Init, RoomsInv
<1> QED
  BY <1>1, RoomsStep, ReturnStep, RegistryTypes, PTL DEF Spec, RoomsKept, RoomsReturn

-----------------------------------------------------------------------------
(* The roster of other hosts.                                              *)

\* s has registered and may have published a message.
Known(s) == s \in lanes \cup Serving

\* Until it loses its inbox directory or an overlapping update drops it, a
\* session that has registered is in the record; so the roster has it only
\* after that.
RosterInv ==
    /\ \A s \in lanes : s \in Gone \cup Serving
    /\ \A s \in Sessions \ excused : pc[s] # "new" => s \in dirs
    /\ \A s \in dirs \ excused : Known(s) => s \in rec.local
    /\ \A s \in dirs \ excused : s \notin remote

LEMMA RosterStep == TypeOK /\ RosterInv /\ [Next]_vars => RosterInv'
<1> SUFFICES ASSUME TypeOK, RosterInv, [Next]_vars PROVE RosterInv'
  OBVIOUS
<1> USE DEF RosterInv, Known, TypeOK, Records, NoRecord, Serving, Gone, postVars, recVars
<1>1. ASSUME NEW s \in Sessions, Start(s) PROVE RosterInv'
  BY <1>1 DEF Start
<1>2. ASSUME NEW s \in Sessions, ReapPresence(s) PROVE RosterInv'
  BY <1>2 DEF ReapPresence
<1>3. ASSUME NEW s \in Sessions, ReapInbox(s) PROVE RosterInv'
  BY <1>3 DEF ReapInbox
<1>4. ASSUME NEW s \in Sessions, Lock(s) PROVE RosterInv'
  BY <1>4 DEF Lock
<1>5. ASSUME NEW s \in Sessions, Publish(s) PROVE RosterInv'
  BY <1>5 DEF Publish
<1>6. ASSUME NEW s \in Sessions, ReadToRegister(s) PROVE RosterInv'
  BY <1>6 DEF ReadToRegister, ReadRecord
<1>7. ASSUME NEW s \in Sessions, Register(s) PROVE RosterInv'
  BY <1>7 DEF Register, WriteSameRooms, WriteRecord
<1>8. ASSUME NEW s \in Sessions, Rewrite(s) PROVE RosterInv'
  BY <1>8 DEF Rewrite
<1>9. ASSUME NEW s \in Sessions, ReadToMirror(s) PROVE RosterInv'
  BY <1>9 DEF ReadToMirror, ReadRecord
<1>10. ASSUME NEW s \in Sessions, Mirror(s) PROVE RosterInv'
  BY <1>10 DEF Mirror, WriteRecord
<1>11. ASSUME NEW s \in Sessions, Leave(s) PROVE RosterInv'
  BY <1>11 DEF Leave, ReadRecord
<1>12. ASSUME NEW s \in Sessions, OnSigterm(s) PROVE RosterInv'
  BY <1>12 DEF OnSigterm, ReadRecord
<1>13. ASSUME NEW s \in Sessions, StampAgain(s) PROVE RosterInv'
  BY <1>13 DEF StampAgain, ReadRecord
<1>14. ASSUME NEW s \in Sessions, Released(s) PROVE RosterInv'
  BY <1>14 DEF Released, WriteSameRooms, WriteRecord
<1>15. ASSUME NEW s \in Sessions, Crash(s) PROVE RosterInv'
  BY <1>15 DEF Crash
<1>16. ASSUME NEW s \in Sessions, Address(s) PROVE RosterInv'
  BY <1>16 DEF Address
<1>17. ASSUME NEW s \in Sessions, Receive(s) PROVE RosterInv'
  BY <1>17 DEF Receive
<1>18. ASSUME NEW s \in Sessions, Read(s) PROVE RosterInv'
  BY <1>18 DEF Read
<1>19. ASSUME NEW s \in Sessions, PublishLane(s) PROVE RosterInv'
  BY <1>19 DEF PublishLane
<1>20. ASSUME NEW s \in Sessions, Recover(s) PROVE RosterInv'
  BY <1>20 DEF Recover
<1>21. ASSUME NEW s \in Sessions, ReadPresence(s) PROVE RosterInv'
  BY <1>21 DEF ReadPresence
<1>22. ASSUME NEW s \in Sessions, OpenSubscriber(s) PROVE RosterInv'
  BY <1>22 DEF OpenSubscriber
<1>23. ASSUME NEW s \in Sessions, NEW c \in Asked, NEW join \in BOOLEAN, Subscribe(s, c, join) PROVE RosterInv'
  BY <1>23 DEF Subscribe
<1>24. ASSUME NEW s \in Sessions, NEW t \in Sessions, Adopt(s, t) PROVE RosterInv'
  BY <1>24 DEF Adopt
<1>25. ASSUME NEW c \in Asked, Post(c) PROVE RosterInv'
  BY <1>25 DEF Post
<1>26. ASSUME WriteSubscriber PROVE RosterInv'
  BY <1>26 DEF WriteSubscriber
<1>27. ASSUME WriteFails PROVE RosterInv'
  BY <1>27 DEF WriteFails, PostOver
<1>28. ASSUME PosterDies PROVE RosterInv'
  BY <1>28 DEF PosterDies, PostOver
<1>29. ASSUME EndPost PROVE RosterInv'
  BY <1>29 DEF EndPost, PostOver
<1>30. ASSUME WriteRemoteRoster PROVE RosterInv'
  BY <1>30 DEF WriteRemoteRoster, LocalIds, LocalSessionIds
<1>31. CASE UNCHANGED vars
  BY <1>31 DEF vars
<1> QED
  BY <1>1, <1>2, <1>3, <1>4, <1>5, <1>6, <1>7, <1>8, <1>9, <1>10, <1>11,
     <1>12, <1>13, <1>14, <1>15, <1>16, <1>17, <1>18, <1>19, <1>20, <1>21, <1>22,
     <1>23, <1>24, <1>25, <1>26, <1>27, <1>28, <1>29, <1>30, <1>31 DEF Next

\* The unread mail of a session that ran on this host is not put out of the
\* reach of adoption by the roster, unless its inbox was once removed or an
\* overlapping update of the record dropped it.
THEOREM LocalMailStaysLocal == Spec => []LocalNeverRemote
<1>1. Init => RosterInv
  BY DEF Init, RosterInv, Known, Serving, Gone
<1>2. TypeOK /\ RosterInv => LocalNeverRemote
  BY DEF TypeOK, RosterInv, LocalNeverRemote
<1> QED
  BY <1>1, <1>2, RosterStep, RegistryTypes, PTL DEF Spec

=============================================================================
