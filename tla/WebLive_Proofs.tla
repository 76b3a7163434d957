---------------------------- MODULE WebLive_Proofs ----------------------------
(***************************************************************************)
(* Sync mode, for any number of sessions, clicks, failures and events on   *)
(* the way.  A reader that was not aborted is always the current one, a    *)
(* current one means sync is on unless an answer came too late, and a      *)
(* /chat reader before the end of its turn means that sync is off and the  *)
(* view is busy, which is what keeps sync from being turned on.            *)
(***************************************************************************)
EXTENDS WebLive, FiniteSetTheorems, TLAPS

\* starting a stream aborts the one before it
OneReader ==
    /\ cur \in ReaderIds \cup {NoReader}
    /\ readers = IF cur = NoReader THEN {} ELSE {cur}

\* nothing arrives, and nothing is retried, without a reader
NeedsReader == (wire # <<>> \/ retrying) => cur # NoReader

\* outside sync mode there is none
SyncReads == ~belated /\ cur # NoReader => sync

\* a /chat turn excludes sync mode and keeps it from being entered
ChatExcludes == chat = "open" => ~locked /\ (belated \/ (lbusy /\ ~sync))

FeedInv ==
    /\ sync \in BOOLEAN /\ lbusy \in BOOLEAN /\ belated \in BOOLEAN
    /\ OneReader /\ NeedsReader /\ SyncReads /\ ChatExcludes

LEMMA InitFeed == LiveInit => FeedInv
  <1> SUFFICES ASSUME LiveInit PROVE FeedInv
    OBVIOUS
  <1> USE DEF LiveInit, ReaderIds, NoReader
  <1>1. OneReader
    <2>1. CASE sync
      BY <2>1 DEF OneReader
    <2>2. CASE ~sync
      BY <2>2 DEF OneReader
    <2> QED
      BY <2>1, <2>2
  <1>2. NeedsReader
    BY DEF NeedsReader
  <1>3. SyncReads /\ ChatExcludes
    BY DEF SyncReads, ChatExcludes
  <1> QED
    BY <1>1, <1>2, <1>3 DEF FeedInv

LEMMA StepFeed == FeedInv /\ [LiveNext]_liveVars => FeedInv'
  <1> SUFFICES ASSUME FeedInv, [LiveNext]_liveVars PROVE FeedInv'
    OBVIOUS
  <1> USE DEF FeedInv, OneReader, NeedsReader, SyncReads, ChatExcludes, ReaderIds, NoReader
  \* the stream is started, or goes
  <1>1. ASSUME NEW with \in BOOLEAN, NEW on \in BOOLEAN, Start(with, on)
        PROVE  OneReader' /\ cur' # NoReader /\ belated' = (belated \/ ~on)
    BY <1>1 DEF Start, Aborted, Belated
  <1>2. ASSUME Silenced
        PROVE  OneReader' /\ NeedsReader' /\ cur' = NoReader
    BY <1>2 DEF Silenced, Aborted
  <1>3. ASSUME NEW e, Published(e)
        PROVE  wire' # <<>> => cur # NoReader
    BY <1>3 DEF Published, Connected
  <1>4. CASE LinkLost \/ Again
    BY <1>4 DEF LinkLost, Again, Connected, Break, Snapshot, rooms, plain, lview
  <1>5. CASE GiveUp
    BY <1>2, <1>5 DEF GiveUp, StopStream, plain
  <1>6. CASE Restart
    BY <1>1, <1>6 DEF Restart, plain, lview
  <1>7. CASE SyncOn
    BY <1>1, <1>7 DEF SyncOn, Push, MayAttach, streamVars, plain, lview
  <1>8. CASE SyncOff
    BY <1>2, <1>8 DEF SyncOff, Push, MayDetach, StopStream, plain, lview
  <1>9. CASE Attached
    BY <1>1, <1>9 DEF Attached, plain, lview
  <1>10. CASE AttachFails
    BY <1>10 DEF AttachFails, Belated, plain, lview
  <1>11. CASE \E r \in Rooms : Goto(r)
    <2>1. UNCHANGED <<sync, readers, cur, retrying, belated, wire>> /\ chat' = "none"
      BY <1>11 DEF Goto, streamVars
    <2>2. lbusy' \in BOOLEAN
      BY <1>11 DEF Goto
    <2> QED
      BY <2>1, <2>2
  <1>12. CASE RoomChecked
    BY <1>12 DEF RoomChecked, streamVars
  <1>29. CASE StopUnlocks
    BY <1>29 DEF StopUnlocks, streamVars
  <1>13. CASE Moved
    BY <1>3, <1>13 DEF Moved, streamVars, plain, lview
  <1>14. CASE MoveFails
    BY <1>2, <1>14 DEF MoveFails, Belated, streamVars, plain
  \* a message is sent, to the runtime or to a /chat turn
  <1>30. ASSUME NEW with, LiveDeliver(with), ~locked, UNCHANGED belated,
                sync => with
         PROVE  FeedInv'
    <2>1. UNCHANGED <<sync, readers, cur, retrying, wire, locked>> /\ lbusy' = TRUE
      BY <1>30 DEF LiveDeliver
    <2>2. CASE with
      <3>1. UNCHANGED chat
        BY <1>30, <2>2 DEF LiveDeliver
      <3> QED
        BY <1>30, <2>1, <3>1
    <2>3. CASE ~with
      BY <1>30, <2>1, <2>3
    <2> QED
      BY <2>2, <2>3
  <1>15. CASE LiveSend
    BY <1>15, <1>30 DEF LiveSend
  <1>31. CASE LiveDrain
    <2>1. CASE locked
      BY <1>31, <2>1 DEF LiveDrain, streamVars, plain, lview
    <2>2. CASE ~locked /\ (effect.with \/ ~sync)
      BY <1>30, <1>31, <2>2 DEF LiveDrain, Belated
    <2>3. CASE ~locked /\ sync /\ ~effect.with
      <3>1. UNCHANGED <<sync, readers, cur, retrying, wire, locked>> /\ lbusy' = TRUE
        BY <1>31, <2>3 DEF LiveDrain, LiveDeliver
      <3>2. belated' = TRUE
        BY <1>31, <2>3 DEF LiveDrain, Belated
      <3> QED
        BY <2>3, <3>1, <3>2
    <2> QED
      BY <2>1, <2>2, <2>3
  <1>32. CASE Paints
    BY <1>32 DEF Paints, streamVars, plain, lview
  <1>16. CASE LiveEnqueue
    BY <1>16 DEF LiveEnqueue, streamVars, plain
  <1>17. CASE Taken
    BY <1>3, <1>17 DEF Taken, streamVars, plain, lview
  <1>18. CASE Posted
    BY <1>18 DEF Posted, streamVars, plain, lview
  <1>19. CASE PostFails
    BY <1>19 DEF PostFails, Belated, plain
  <1>20. CASE ChatTold
    BY <1>20 DEF ChatTold, streamVars
  <1>33. CASE ChatCloses
    BY <1>33 DEF ChatCloses, streamVars, lview
  <1>34. CASE ChatLost
    BY <1>34 DEF ChatLost, streamVars
  <1>21. CASE Runtime
    <2>1. UNCHANGED <<sync, requests, streamVars, lifecycle, lview, rooms, plain>>
      BY <1>21 DEF Runtime
    <2>2. UNCHANGED wire \/ \E e : Published(e)
      <3>1. CASE PeerSends
        BY <3>1 DEF PeerSends
      <3>2. CASE Replays
        BY <3>2 DEF Replays
      <3>3. CASE AsksOrAnswers
        BY <3>3 DEF AsksOrAnswers
      <3>4. CASE TurnOver
        BY <3>4 DEF TurnOver
      <3>5. CASE \E r \in Rooms : PeerSwitches(r)
        BY <3>5 DEF PeerSwitches
      <3> QED
        BY <1>21, <3>1, <3>2, <3>3, <3>4, <3>5 DEF Runtime
    <2>3. wire' # <<>> => cur # NoReader
      BY <1>3, <2>2
    <2> QED
      BY <2>1, <2>3 DEF streamVars, plain, lview
  <1>22. CASE OnSnapshot
    BY <1>22 DEF OnSnapshot, Next1, Eaten, streamVars, plain
  <1>23. CASE OnSwitched
    BY <1>1, <1>23 DEF OnSwitched, Next1, Eaten, streamVars, plain, lview
  <1>24. CASE OnUser \/ OnRunning
    <2>1. wire # <<>> /\ UNCHANGED <<sync, readers, cur, retrying, belated, chat, locked>>
      BY <1>24 DEF OnUser, OnRunning, Next1, streamVars, plain
    <2>2. UNCHANGED lbusy \/ lbusy' = TRUE
      BY <1>24 DEF OnUser, OnRunning, Begins
    <2> QED
      BY <2>1, <2>2
  <1>25. CASE OnIdle
    BY <1>25 DEF OnIdle, Next1, Eaten, streamVars, plain
  <1>26. CASE OnCard
    BY <1>26 DEF OnCard, Next1, Eaten, streamVars, plain
  <1>27. CASE UNCHANGED liveVars
    BY <1>27 DEF liveVars, streamVars, plain, lview
  <1> QED
    BY <1>4, <1>5, <1>6, <1>7, <1>8, <1>9, <1>10, <1>11, <1>12, <1>13, <1>14, <1>15, <1>16,
       <1>17, <1>18, <1>19, <1>20, <1>21, <1>22, <1>23, <1>24, <1>25, <1>26, <1>27, <1>29,
       <1>31, <1>32, <1>33, <1>34 DEF LiveNext, Unseen, Rendered

\* No two streams feed the view at the same time, however the toggles, the
\* retries, the switches of session, the end of a /chat turn and the close of
\* its reader fall together.
THEOREM OneFeedHolds == LiveSpec => []OneFeed
  <1>1. FeedInv => OneFeed
    <2> SUFFICES ASSUME FeedInv, ~belated PROVE Feeds <= 1
      BY DEF OneFeed
    <2>1. CASE cur = NoReader
      <3>1. Cardinality(readers) = 0
        BY <2>1, FS_EmptySet DEF FeedInv, OneReader
      <3> QED
        BY <3>1 DEF Feeds
    <2>2. CASE cur # NoReader
      <3>1. Cardinality(readers) = 1
        BY <2>2, FS_Singleton DEF FeedInv, OneReader
      <3>2. chat # "open"
        BY <2>2 DEF FeedInv, SyncReads, ChatExcludes
      <3> QED
        BY <3>1, <3>2 DEF Feeds
    <2> QED
      BY <2>1, <2>2
  <1> QED
    BY <1>1, InitFeed, StepFeed, PTL DEF LiveSpec

----------------------------------------------------------------------------
\* A queued message whose turn was not seen to end keeps the view busy: there
\* is none when a snapshot finds it idle.
Marks == {"waits", "seen"}

QueueInv ==
    /\ lbusy \in BOOLEAN
    /\ lqueue \in Seq(Marks)
    /\ ~lbusy => \A i \in DOMAIN lqueue : lqueue[i] = "seen"
    /\ effect \in [run : {"none", "due", "late"}, with : BOOLEAN, next : Marks]

LEMMA InitQueue == LiveInit => QueueInv
  <1> SUFFICES ASSUME LiveInit PROVE QueueInv
    OBVIOUS
  <1>1. lbusy = FALSE
    BY DEF LiveInit
  <1>2. lqueue = <<>>
    BY DEF LiveInit
  <1>3. lqueue \in Seq(Marks)
    BY <1>2
  <1>4. \A i \in DOMAIN lqueue : lqueue[i] = "seen"
    BY <1>2
  <1>5. effect \in [run : {"none", "due", "late"}, with : BOOLEAN, next : Marks]
    BY DEF LiveInit, NoEffect, Marks
  <1> QED
    BY <1>1, <1>3, <1>4, <1>5 DEF QueueInv

\* Every step that ends busy empties the queue or has seen its turn end.
LEMMA StepQueue == FeedInv /\ QueueInv /\ [LiveNext]_liveVars => QueueInv'
  <1> SUFFICES ASSUME FeedInv, QueueInv, [LiveNext]_liveVars PROVE QueueInv'
    OBVIOUS
  <1> USE DEF QueueInv, Marks
  \* the effect closes over what was painted
  <1>19. CASE Paints
    <2>1. sync \in BOOLEAN
      BY DEF FeedInv
    <2>2. Head(lqueue) \in Marks /\ UNCHANGED <<lbusy, lqueue>>
      BY <1>19 DEF Paints, lview
    <2> QED
      BY <1>19, <2>1, <2>2 DEF Paints
  <1>20. CASE LiveDrain
    <2>1. effect' \in [run : {"none", "due", "late"}, with : BOOLEAN, next : Marks]
      BY <1>20 DEF LiveDrain, NoEffect
    <2>2. CASE locked
      BY <1>20, <2>1, <2>2 DEF LiveDrain, lview
    <2>3. CASE ~locked
      <3>1. lbusy' = TRUE /\ lqueue' = IF lqueue = <<>> THEN <<>> ELSE Tail(lqueue)
        BY <1>20, <2>3 DEF LiveDrain, LiveDeliver
      <3> QED
        BY <2>1, <3>1
    <2> QED
      BY <2>2, <2>3
  <1>21. CASE UNCHANGED liveVars
    BY <1>21 DEF liveVars, lview
  <1>22. CASE Unseen /\ UNCHANGED effect
    <2>1. UNCHANGED <<lbusy, lqueue>>
      BY <1>22 DEF Unseen, LinkLost, Again, Restart, Attached, Moved, Taken, Posted, ChatCloses,
                   Runtime, lview
    <2> QED
      BY <1>22, <2>1
  <1>23. ASSUME Rendered,
                effect' = IF effect.run = "due" THEN [effect EXCEPT !.run = "late"] ELSE effect
         PROVE  QueueInv'
    <2>0. effect' \in [run : {"none", "due", "late"}, with : BOOLEAN, next : Marks]
      BY <1>23
    <2>1. ASSUME UNCHANGED <<lbusy, lqueue>> PROVE QueueInv'
      BY <2>0, <2>1
    <2>2. ASSUME lqueue' = <<>>, lbusy' \in BOOLEAN PROVE QueueInv'
      BY <2>0, <2>2
    <2>3. ASSUME lqueue' = [i \in DOMAIN lqueue |-> "seen"], lbusy' \in BOOLEAN PROVE QueueInv'
      BY <2>0, <2>3
    <2>4. CASE SyncOn \/ SyncOff \/ AttachFails
      BY <2>1, <2>4 DEF SyncOn, SyncOff, AttachFails, lview
    <2>5. CASE GiveUp
      BY <2>2, <2>5 DEF GiveUp
    <2>6. CASE \E r \in Rooms : Goto(r)
      BY <2>2, <2>6 DEF Goto
    <2>7. CASE RoomChecked
      BY <2>1, <2>2, <2>7 DEF RoomChecked
    <2>8. CASE StopUnlocks
      BY <2>2, <2>8 DEF StopUnlocks
    <2>9. CASE MoveFails
      BY <2>1, <2>2, <2>9 DEF MoveFails
    <2>10. CASE LiveSend
      BY <2>0, <2>10 DEF LiveSend, LiveDeliver
    <2>12. CASE LiveEnqueue
      BY <2>0, <2>12 DEF LiveEnqueue
    <2>13. CASE PostFails
      BY <2>2, <2>13 DEF PostFails
    <2>14. CASE ChatTold
      BY <2>2, <2>3, <2>14 DEF ChatTold
    <2>11. CASE ChatLost
      BY <2>2, <2>11 DEF ChatLost
    <2>15. CASE OnSnapshot
      <3>1. CASE WasRunning
        BY <2>2, <2>15, <3>1 DEF OnSnapshot
      <3>2. CASE ~WasRunning
        <4>1. \A i \in DOMAIN lqueue : lqueue[i] = "seen"
          BY <3>2 DEF WasRunning
        <4>2. lqueue' = [i \in DOMAIN lqueue |->
                            IF lqueue[i] = "waits" THEN "blind" ELSE lqueue[i]]
          BY <2>15, <3>2 DEF OnSnapshot
        <4>3. lqueue' = [i \in DOMAIN lqueue |-> "seen"]
          BY <4>1, <4>2
        <4>4. lbusy' \in BOOLEAN
          BY <2>15 DEF OnSnapshot
        <4> QED
          BY <2>3, <4>3, <4>4
      <3> QED
        BY <3>1, <3>2
    <2>16. CASE OnUser \/ OnRunning
      BY <2>0, <2>16 DEF OnUser, OnRunning, Begins
    <2>17. CASE OnIdle
      BY <2>1, <2>2, <2>3, <2>17 DEF OnIdle
    <2>18. CASE OnCard \/ OnSwitched
      BY <2>1, <2>18 DEF OnCard, OnSwitched, lview
    <2> QED
      BY <1>23, <2>4, <2>5, <2>6, <2>7, <2>8, <2>9, <2>10, <2>11, <2>12, <2>13, <2>14, <2>15,
         <2>16, <2>17, <2>18 DEF Rendered
  <1> QED
    BY <1>19, <1>20, <1>21, <1>22, <1>23 DEF LiveNext

\* A message typed under a turn whose end was not seen is never sent.
THEOREM BlindHolds == LiveSpec => BlindNeverSent
  <1>1. QueueInv => (LiveDrain => effect.next # "blind")
    BY DEF QueueInv, Marks
  <1>2. QueueInv /\ [LiveNext]_liveVars => [LiveDrain => effect.next # "blind"]_liveVars
    BY <1>1
  <1> QED
    BY <1>2, InitFeed, StepFeed, InitQueue, StepQueue, PTL DEF LiveSpec, BlindNeverSent
=============================================================================
