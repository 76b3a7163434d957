------------------------------- MODULE WebLive -------------------------------
(***************************************************************************)
(* Sync mode of the chat view (Chat.tsx): a turn is posted to /live/message *)
(* and everything comes back on the broadcast stream /live, which other    *)
(* views of the same runtime share.  The stream is started from four       *)
(* places; LiveReconnect has its timers, here a retry may come any time.   *)
(*                                                                         *)
(* The runtime publishes what the UI's protocol knows: `user`, `text`,     *)
(* `state`, `session_switched`, `error`; a turn may also end with `done`,  *)
(* as the bridge in webui-server does, which the UI does not read.         *)
(*                                                                         *)
(* The effect that sends the next queued message runs after the paint, so  *)
(* a click or an event may come first; it then runs before the next render *)
(* and still sees what its own render closed over (`effect`).              *)
(***************************************************************************)
EXTENDS Naturals, Sequences, FiniteSets

LOCAL INSTANCE SequencesExt

CONSTANTS
    Rooms,        \* sessions
    NoRoom,       \* a view or a stream without one
    MaxPushes,    \* what the user and the peers do
    MaxBreaks,    \* lost connections and failed requests
    MaxWire       \* events on the way

VARIABLES
    \* sync, toggles whose postLiveSwitchSession is unanswered, the switch posted
    \* by the session effect, readers not aborted, the one of liveAbortRef
    sync, attaching, moving, readers, cur,
    \* a reader waits for its timer; it closes over a render with sync on;
    \* an answer to sync mode came too late, when the tab had left it
    retrying, knows, belated,
    \* events on the way to the current reader
    wire,
    \* liveLifecycleRef, busy, queued: whether the turn each message waits for
    \* was seen to end
    lrunning, consumed, lbusy, lqueue,
    \* pendingSelfEchoRef is set; the unanswered /live/message, each taken or
    \* not; an approval card
    echo, posting, asked,
    \* activeIdRef, liveSessionIdRef
    room, liveRoom,
    \* the /chat side: the reader whose events count ("told": the end of its
    \* turn was handled), sends are locked, the session of an open active check
    chat, locked, check,
    \* the drain effect of the last paint: whether it is still to run, the sync
    \* and the message it closes over
    effect,
    \* runtime: a turn runs; its session; bounds
    lturn, lroom, pushes, breaks

streamVars == <<readers, cur, retrying, knows, belated>>
lifecycle  == <<lrunning, consumed>>
lview      == <<lbusy, lqueue, echo, asked>>
rooms      == <<room, liveRoom>>
plain      == <<chat, locked, check>>
runtime    == <<lturn, lroom>>
counts     == <<pushes, breaks>>
requests   == <<attaching, moving, posting>>
liveVars   == <<sync, requests, streamVars, wire, lifecycle, lview, rooms, plain,
                effect, runtime, counts>>

NoReader == 0
ReaderIds == 1 .. 3

NoEffect == [run |-> "none", with |-> FALSE, next |-> "seen"]

\* ?sync=1 in the URL starts the stream on mount; a session in the URL is
\* restored, checked, and in sync mode switched to
LiveInit ==
    /\ room \in Rooms \cup {NoRoom} /\ liveRoom = NoRoom
    /\ sync \in BOOLEAN /\ knows = sync
    /\ attaching = 0 /\ posting = <<>>
    /\ moving = IF sync THEN room ELSE NoRoom
    /\ cur = (IF sync THEN 1 ELSE NoReader) /\ readers = (IF sync THEN {cur} ELSE {})
    /\ retrying = FALSE /\ belated = FALSE
    /\ wire = IF sync THEN <<[type |-> "snapshot", of |-> room]>> ELSE <<>>
    /\ lrunning = FALSE /\ consumed = FALSE
    /\ lbusy = FALSE /\ lqueue = <<>> /\ echo = FALSE /\ asked = FALSE
    /\ chat = "none" /\ locked = (room # NoRoom) /\ check = room /\ effect = NoEffect
    /\ lturn = "idle" /\ lroom \in Rooms /\ pushes = 0 /\ breaks = 0

Push  == pushes < MaxPushes /\ pushes' = pushes + 1 /\ UNCHANGED breaks
Break == breaks < MaxBreaks /\ breaks' = breaks + 1 /\ UNCHANGED pushes

----------------------------------------------------------------------------
\* Mutant: startLiveStream does not abort the stream before it.
KeptOpen == readers

\* liveAbortRef.current?.abort()
Aborted == readers \ {cur}

Belated(now) == belated' = (belated \/ now)

\* what a new subscription says first: of the session asked for (the bridge),
\* or of the runtime's
Snapshot == \E r \in {room, lroom} : wire' = <<[type |-> "snapshot", of |-> r]>>

\* startLiveStream, in a closure over sync = `with`.  What the old reader
\* still had on the way is fenced off; ids only tell readers apart.
Start(with, on) ==
    \E r \in ReaderIds \ readers :
        /\ \A q \in ReaderIds \ readers : r <= q
        /\ readers' = Aborted \cup {r} /\ cur' = r
        /\ retrying' = FALSE /\ knows' = with /\ Snapshot
        /\ Belated(~on)

Silenced ==
    /\ readers' = Aborted /\ cur' = NoReader /\ retrying' = FALSE /\ wire' = <<>>
    /\ UNCHANGED knows

StopStream == Silenced /\ UNCHANGED belated

Connected == cur # NoReader /\ ~retrying

\* an event reaches the tab if its reader is connected
Published(e) ==
    IF Connected THEN Len(wire) < MaxWire /\ wire' = Append(wire, e) ELSE UNCHANGED wire

\* scheduleReconnect: the stream ended, or its timer fired
LinkLost ==
    /\ Connected /\ Break /\ retrying' = TRUE /\ wire' = <<>>
    /\ UNCHANGED <<sync, requests, readers, cur, knows, belated, lifecycle, lview, rooms,
                   plain, runtime>>

Again ==
    /\ retrying /\ retrying' = FALSE /\ Snapshot
    /\ UNCHANGED <<sync, requests, readers, cur, knows, belated, lifecycle, lview, rooms,
                   plain, runtime, counts>>

\* setSync(false) with what goes with it after the last attempt
GiveUp ==
    /\ retrying /\ StopStream /\ sync' = FALSE
    /\ lrunning' = FALSE /\ consumed' = FALSE
    /\ lbusy' = FALSE /\ lqueue' = <<>> /\ asked' = FALSE
    /\ UNCHANGED <<requests, echo, rooms, plain, runtime, counts>>

\* the watchdog, only while sync is on; also before the first stream
Restart ==
    /\ sync /\ breaks < MaxBreaks /\ breaks' = breaks + 1
    /\ Start(TRUE, TRUE)
    /\ UNCHANGED <<sync, requests, lifecycle, lview, rooms, plain, runtime, pushes>>

----------------------------------------------------------------------------
\* syncAttachDisposition
MayAttach == ~lbusy /\ ~locked

\* liveDetachDisposition
MayDetach == ~lrunning /\ ~lbusy

\* toggleSync; with a session, the runtime is asked to resume it first
SyncOn ==
    /\ ~sync /\ MayAttach /\ Push /\ sync' = TRUE
    /\ IF room # NoRoom THEN attaching' = attaching + 1 /\ UNCHANGED <<streamVars, wire>>
       ELSE Start(FALSE, TRUE) /\ UNCHANGED attaching
    /\ UNCHANGED <<moving, posting, lifecycle, lview, rooms, plain, runtime>>

SyncOff ==
    /\ sync /\ MayDetach /\ Push /\ sync' = FALSE /\ StopStream
    /\ UNCHANGED <<requests, lifecycle, lview, rooms, plain, runtime>>

\* the answer starts the stream, whatever sync is by now; a failure leaves the
\* stream of a toggle that followed
Attached ==
    /\ attaching > 0 /\ attaching' = attaching - 1 /\ Start(FALSE, sync)
    /\ UNCHANGED <<sync, moving, posting, lifecycle, lview, rooms, plain, runtime, counts>>

AttachFails ==
    /\ attaching > 0 /\ Break /\ attaching' = attaching - 1 /\ sync' = FALSE
    /\ Belated(cur # NoReader)
    /\ UNCHANGED <<moving, posting, readers, cur, retrying, knows, wire, lifecycle, lview, rooms, plain, runtime>>

----------------------------------------------------------------------------
\* the session effect in the tab that picked r, whose render flushed the drain
\* effect; an open /chat reader is closed, and sends wait for the check of r
Goto(r) ==
    /\ effect.run = "none" /\ Push /\ r # room /\ moving = NoRoom
    /\ room' = r /\ chat' = "none" /\ locked' = TRUE /\ check' = r
    /\ lrunning' = FALSE /\ consumed' = FALSE
    /\ lbusy' = FALSE /\ lqueue' = <<>> /\ echo' = FALSE /\ asked' = FALSE
    /\ moving' = IF sync THEN r ELSE NoRoom
    /\ UNCHANGED <<sync, attaching, posting, streamVars, wire, liveRoom, runtime>>

\* /chat/active answers, or fails; a session that is not clear locks the view,
\* and takes the stop alias from a /chat turn sent meanwhile
RoomChecked ==
    /\ check # NoRoom /\ check' = NoRoom /\ \E clear \in BOOLEAN :
          /\ locked' = ~clear
          /\ lbusy' = (lbusy /\ (clear \/ sync))
          /\ lqueue' = IF clear THEN lqueue ELSE <<>>
          /\ chat' = IF clear THEN chat ELSE "none"
    /\ UNCHANGED <<sync, requests, streamVars, wire, lifecycle, echo, asked, rooms,
                   runtime, counts>>

\* a stop in a locked view, answered at once
StopUnlocks ==
    /\ locked /\ Push
    /\ locked' = FALSE /\ lbusy' = (lbusy /\ sync) /\ lqueue' = <<>>
    /\ UNCHANGED <<sync, requests, streamVars, wire, lifecycle, echo, asked, rooms, chat,
                   check, runtime>>

Moved ==
    /\ moving # NoRoom /\ moving' = NoRoom /\ lroom' = moving
    /\ Published([type |-> "session_switched", of |-> moving])
    /\ UNCHANGED <<sync, attaching, posting, streamVars, lifecycle, lview, rooms, plain,
                   lturn, counts>>

\* only the view that asked is taken out of sync
MoveFails ==
    /\ moving # NoRoom /\ Break /\ moving' = NoRoom
    /\ IF moving = room
       THEN /\ Silenced /\ Belated(chat = "open")
            /\ sync' = FALSE /\ lbusy' = FALSE /\ lqueue' = <<>>
       ELSE UNCHANGED <<sync, streamVars, wire, lbusy, lqueue>>
    /\ UNCHANGED <<attaching, posting, lifecycle, echo, asked, rooms, plain, runtime>>

----------------------------------------------------------------------------
\* deliver, in a closure over sync = `with`: to the runtime, else a /chat turn
\* of the tab's own, whose reader replaces the one before
LiveDeliver(with) ==
    /\ lbusy' = TRUE
    /\ IF with THEN posting' = Append(posting, FALSE) /\ echo' = TRUE /\ UNCHANGED chat
       ELSE chat' = "open" /\ UNCHANGED <<posting, echo>>
    /\ UNCHANGED <<sync, attaching, moving, readers, cur, retrying, knows, wire, lifecycle,
                   asked, rooms, locked, check, runtime, breaks>>

LiveSend ==
    /\ ~locked /\ ~lbusy /\ Push /\ LiveDeliver(sync) /\ UNCHANGED <<lqueue, belated>>

LiveEnqueue ==
    /\ ~locked /\ lbusy /\ Push /\ lqueue' = Append(lqueue, "waits")
    /\ UNCHANGED <<sync, requests, streamVars, wire, lifecycle, lbusy, echo, asked, rooms,
                   plain, runtime>>

\* the view is rendered with a message that may go
Paints ==
    /\ effect.run = "none" /\ ~lbusy /\ lqueue # <<>> /\ ~locked
    /\ effect' = [run |-> "due", with |-> sync, next |-> Head(lqueue)]
    /\ UNCHANGED <<sync, requests, streamVars, wire, lifecycle, lview, rooms, plain, runtime,
                   counts>>

\* the drain effect; the lock is a ref and read now
LiveDrain ==
    /\ effect.run # "none" /\ effect' = NoEffect /\ UNCHANGED pushes
    /\ IF locked
       THEN UNCHANGED <<sync, requests, streamVars, wire, lifecycle, lview, rooms, plain,
                        runtime, breaks>>
       ELSE /\ lqueue' = IF lqueue = <<>> THEN <<>> ELSE Tail(lqueue)
            /\ LiveDeliver(effect.with) /\ Belated(sync /\ ~effect.with)

\* the runtime takes a message; the request may still fail
Taken ==
    /\ lturn = "idle" /\ lturn' = "running"
    /\ \E i \in DOMAIN posting : ~posting[i] /\ posting' = [posting EXCEPT ![i] = TRUE]
    /\ Published([type |-> "user", own |-> TRUE])
    /\ UNCHANGED <<sync, attaching, moving, streamVars, lifecycle, lview, rooms, plain, lroom,
                   counts>>

Posted ==
    /\ \E i \in DOMAIN posting : posting[i] /\ posting' = RemoveAt(posting, i)
    /\ UNCHANGED <<sync, attaching, moving, streamVars, wire, lifecycle, lview, rooms, plain,
                   runtime, counts>>

\* refused, or lost after it was taken: the message is rolled back, and busy
\* cleared whatever runs by now
PostFails ==
    /\ Break /\ \E i \in DOMAIN posting : posting' = RemoveAt(posting, i)
    /\ lbusy' = FALSE /\ lqueue' = <<>> /\ echo' = FALSE /\ Belated(chat = "open")
    /\ UNCHANGED <<sync, attaching, moving, readers, cur, retrying, knows, wire, lifecycle,
                   asked, rooms, plain, runtime>>

\* the terminal event of the /chat turn; `done` names a new session.  The
\* reader is still open, and sync mode may be turned on beside it.
ChatTold ==
    /\ chat = "open" /\ chat' = "told"
    /\ locked' = FALSE /\ lbusy' = FALSE /\ asked' = FALSE
    /\ \E natural \in BOOLEAN :
          lqueue' = IF natural THEN [i \in DOMAIN lqueue |-> "seen"] ELSE <<>>
    /\ room' \in {room} \cup (IF room = NoRoom THEN Rooms ELSE {})
    /\ UNCHANGED <<sync, requests, streamVars, wire, lifecycle, echo, liveRoom, check,
                   runtime, counts>>

\* the stream ends after it: finally
ChatCloses ==
    /\ chat = "told" /\ chat' = "none"
    /\ UNCHANGED <<sync, requests, streamVars, wire, lifecycle, lview, rooms, locked, check,
                   runtime, counts>>

\* its connection is lost, before or after it: catch
ChatLost ==
    /\ chat # "none" /\ Break /\ chat' = "none"
    /\ locked' = TRUE /\ lbusy' = FALSE /\ lqueue' = <<>> /\ asked' = FALSE
    /\ UNCHANGED <<sync, requests, streamVars, wire, lifecycle, echo, rooms, check, runtime>>

----------------------------------------------------------------------------
\* The runtime and its other views: a peer's turn, the replay after a
\* snapshot, an approval and its result, the end, a switch of session.
PeerSends ==
    /\ lturn = "idle" /\ Push /\ lturn' = "running"
    /\ Published([type |-> "user", own |-> FALSE]) /\ UNCHANGED lroom

Replays ==
    /\ Len(wire) = 1 /\ wire[1].type = "snapshot"
    /\ Published(IF lturn = "running" THEN [type |-> "running"]
                                      ELSE [type |-> "idle", natural |-> TRUE])
    /\ UNCHANGED <<runtime, counts>>

AsksOrAnswers ==
    /\ lturn = "running" /\ Push
    /\ \E type \in {"permission_request", "tool_result"} : Published([type |-> type])
    /\ UNCHANGED runtime

\* with `done` instead of `state` the tab is told nothing
TurnOver ==
    /\ lturn = "running" /\ lturn' = "idle"
    /\ \/ \E natural \in BOOLEAN : Published([type |-> "idle", natural |-> natural])
       \/ UNCHANGED wire
    /\ UNCHANGED <<lroom, counts>>

PeerSwitches(r) ==
    /\ Push /\ lroom' = r /\ Published([type |-> "session_switched", of |-> r])
    /\ UNCHANGED lturn

Runtime ==
    /\ PeerSends \/ Replays \/ AsksOrAnswers \/ TurnOver \/ \E r \in Rooms : PeerSwitches(r)
    /\ UNCHANGED <<sync, requests, streamVars, lifecycle, lview, rooms, plain>>

----------------------------------------------------------------------------
\* the next event of the current reader, for onLiveEvent
Next1(type) == wire # <<>> /\ Head(wire).type = type
Eaten == wire' = Tail(wire)

\* the stream belongs to another session than the view
Gated == liveRoom # NoRoom /\ room # NoRoom /\ room # liveRoom

\* Mutant: only what the stream said counts as a running turn.
TurnObserved == lrunning

\* liveSnapshotQueueDisposition: a turn ran before the reconnect
WasRunning == lrunning \/ lbusy

\* With another session the /chat reader and the check are of an older
\* generation, and nothing of them counts.
Elsewhere(to) == to \notin {room, NoRoom}

OnSnapshot ==
    /\ Next1("snapshot") /\ Eaten
    /\ liveRoom' = Head(wire).of
    /\ IF Elsewhere(Head(wire).of) THEN room' = Head(wire).of /\ chat' = "none" /\ check' = NoRoom
       ELSE UNCHANGED <<room, chat, check>>
    /\ lrunning' = FALSE /\ consumed' = FALSE /\ lbusy' = FALSE /\ asked' = FALSE
    /\ lqueue' = IF WasRunning THEN <<>>
                 ELSE [i \in DOMAIN lqueue |-> IF lqueue[i] = "waits" THEN "blind" ELSE lqueue[i]]
    /\ UNCHANGED <<sync, requests, streamVars, echo, locked, runtime, counts>>

\* the view follows, and its effect checks the session, unless the snapshot is
\* there before it; a reader that closes over sync on starts again
OnSwitched ==
    /\ Next1("session_switched")
    /\ liveRoom' = Head(wire).of /\ room' = Head(wire).of
    /\ IF Elsewhere(Head(wire).of) THEN chat' = "none" /\ check' \in {NoRoom, Head(wire).of}
       ELSE UNCHANGED <<chat, check>>
    /\ IF ~knows THEN Eaten /\ UNCHANGED streamVars
       ELSE /\ Start(TRUE, sync)
    /\ UNCHANGED <<sync, requests, lifecycle, lview, locked, runtime, counts>>

\* `user` and `state`, if the view is the stream's
Begins ==
    /\ ~Gated /\ lrunning' = TRUE /\ consumed' = FALSE /\ lbusy' = TRUE

OnUser ==
    /\ Next1("user") /\ Eaten
    /\ IF Gated THEN UNCHANGED <<lifecycle, lbusy, echo>>
       ELSE Begins /\ echo' = (echo /\ ~Head(wire).own)
    /\ UNCHANGED <<sync, requests, streamVars, lqueue, asked, rooms, plain, runtime, counts>>

OnRunning ==
    /\ Next1("running") /\ Eaten
    /\ IF Gated THEN UNCHANGED <<lifecycle, lbusy>> ELSE Begins
    /\ UNCHANGED <<sync, requests, streamVars, lqueue, echo, asked, rooms, plain, runtime,
                   counts>>

\* the effects of an end are taken once
OnIdle ==
    /\ Next1("idle") /\ Eaten
    /\ IF Gated THEN UNCHANGED <<lifecycle, lbusy, lqueue, asked>>
       ELSE /\ lrunning' = FALSE /\ consumed' = TRUE /\ lbusy' = FALSE
            /\ asked' = (asked /\ consumed)
            /\ lqueue' = IF ~consumed /\ ~Head(wire).natural THEN <<>>
                         ELSE [i \in DOMAIN lqueue |-> "seen"]
    /\ UNCHANGED <<sync, requests, streamVars, echo, rooms, plain, runtime, counts>>

\* the approval card; a result clears it
OnCard ==
    /\ \/ Next1("permission_request") /\ asked' = (asked \/ ~Gated)
       \/ Next1("tool_result") /\ asked' = (asked /\ Gated)
    /\ Eaten
    /\ UNCHANGED <<sync, requests, streamVars, lifecycle, lbusy, lqueue, echo, rooms, plain,
                   runtime, counts>>

----------------------------------------------------------------------------
\* steps the view is not rendered for
Unseen ==
    \/ LinkLost \/ Again \/ Restart \/ Attached \/ Moved \/ Taken \/ Posted \/ ChatCloses
    \/ Runtime

\* steps it is rendered for, before which the drain effect runs
Rendered ==
    \/ GiveUp \/ SyncOn \/ SyncOff \/ AttachFails
    \/ \E r \in Rooms : Goto(r)
    \/ RoomChecked \/ StopUnlocks \/ MoveFails
    \/ LiveSend \/ LiveEnqueue \/ PostFails \/ ChatTold \/ ChatLost
    \/ OnSnapshot \/ OnSwitched \/ OnUser \/ OnRunning \/ OnIdle \/ OnCard

LiveNext ==
    \/ Unseen /\ UNCHANGED effect
    \/ /\ Rendered /\ effect.run # "late"
       /\ effect' = IF effect.run = "due" THEN [effect EXCEPT !.run = "late"] ELSE effect
    \/ Paints \/ LiveDrain

LiveSpec == LiveInit /\ [][LiveNext]_liveVars

----------------------------------------------------------------------------
\* What can still bring a part of a reply: the readers of /live that nobody
\* aborted, and the tab's own /chat reader until the end of its turn was
\* handled; what that reader is still open for afterwards is its close.
Feeds == Cardinality(readers) + IF chat = "open" THEN 1 ELSE 0

\* No two streams feed the view, however toggles, switches, retries and
\* failures fall together.  The exceptions are overtaken by the user: a stream
\* started, or left on, by the answer to an earlier toggle, a failure that
\* clears busy under a /chat turn sent meanwhile, and a drain effect that posts
\* to /chat because it was painted before sync mode was turned on.
OneFeed == ~belated => Feeds <= 1

\* A message typed while a turn ran is not sent after a reconnect hid how that
\* turn ended.
BlindNeverSent == [][LiveDrain => effect.next # "blind"]_liveVars
=============================================================================
