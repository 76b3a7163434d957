------------------------------- MODULE WebChat -------------------------------
(***************************************************************************)
(* The chat view of the web UI outside sync mode: App (app.tsx) owns which *)
(* session is shown and the approval card, Chat (Chat.tsx) owns one SSE    *)
(* reader, a queue of typed-ahead messages and a recovery state that says  *)
(* whether a send is safe.  The web server behind it (chat_api.rs)         *)
(* registers active sessions and bridges /chat to the engine; the engine   *)
(* ends a turn in any way the UI's protocol knows.                         *)
(*                                                                         *)
(* A render, with its bump of the generation, is part of the step that     *)
(* changed App's session.  The passive effect that reacts to it runs later *)
(* (`due`): answers and events from the network may come in between, but   *)
(* the framework flushes it before the next render and a user does not act *)
(* within that frame (Settled).                                            *)
(***************************************************************************)
EXTENDS Naturals, Sequences, FiniteSets

CONSTANTS
    Saved,      \* sessions that exist before the page is opened
    Fresh,      \* sessions that may be created
    None, Note, Old,   \* nothing; a system line; a transcript from disk
    MaxSends,   \* turns this tab may start
    MaxActs,    \* what the user does: send, navigate, stop, decide, switch mode, command
    MaxFaults,  \* failed or lost requests
    MaxCalls    \* approvals one turn may ask for

Sessions == Saved \cup Fresh
Turns    == 0 .. MaxSends    \* 0: a turn already running when the page opens

ASSUME ConstantsAssumption ==
    /\ MaxSends \in Nat
    /\ Saved \cap Fresh = {} /\ Sessions \cap Turns = {}
    /\ None \notin Sessions \cup Turns

VARIABLES
    \* App: the session shown, an unanswered POST /sessions, the session the
    \* URL names until it is resolved, the effect still to run
    shown, creating, restoring, due,
    \* App: the call on the approval card, and the decisions being posted
    pending, deciding,
    \* Chat: activeIdRef, sessionGenerationRef, requestIdRef, abortRef
    view, gen, reqId, reader,
    \* Chat: chatRecovery, busy, queued (the turn each was typed under), the
    \* last message of the transcript, modeState.pendingMode, the command
    \* being executed
    recovery, busy, queue, tail, modePending, cmd,
    \* the reader of each turn and the generation it was started in
    stream, sgen,
    \* requests in flight: history with /chat/active, and /chat/stop
    loads, stops,
    \* server: active_chats, sessions made and deleted; engine: the state,
    \* session and approvals of each turn
    marked, born, gone, turn, on, calls,
    \* history: the user's own last pick; a stale answer overtook a send;
    \* decisions that never arrived; what the bounds count
    chosen, overtaken, lost, faults, acts

app     == <<shown, creating, restoring, due, chosen>>
card    == <<pending, deciding, lost>>
refs    == <<view, reqId, reader>>
gate    == <<recovery, busy, queue>>
inputs  == <<modePending, cmd>>
streams == <<stream, sgen>>
server  == <<marked, born, gone>>
engine  == <<turn, on, calls>>
daemon  == <<server, engine>>
chatVars == <<app, card, refs, gen, gate, tail, inputs, streams, loads, stops,
              daemon, overtaken, faults, acts>>

\* the URL may name a session; turn 0 may be running on one
ChatInit ==
    /\ shown = None /\ creating = FALSE /\ restoring \in Saved \cup {None} /\ due = FALSE
    /\ pending = None /\ deciding = {}
    /\ view = None /\ gen = 0 /\ reqId = None /\ reader = None
    /\ recovery = "ready" /\ busy = FALSE /\ queue = <<>> /\ tail = Old
    /\ modePending = FALSE /\ cmd = None
    /\ stream = [t \in Turns |-> "none"] /\ sgen = [t \in Turns |-> 0]
    /\ loads = {} /\ stops = {}
    /\ \E st \in {"new", "running"} : turn = [t \in Turns |-> IF t = 0 THEN st ELSE "new"]
    /\ \E s \in Saved : /\ on = [t \in Turns |-> s]
                       /\ marked = IF turn[0] = "running" THEN {s} ELSE {}
    /\ calls = [t \in Turns |-> 0] /\ born = {} /\ gone = {}
    /\ chosen = None /\ overtaken = FALSE /\ lost = {} /\ faults = 0
    /\ acts = IF restoring = None THEN 0 ELSE 1

----------------------------------------------------------------------------
Active(t) == turn[t] \in {"running", "waiting"}
Sent      == {t \in Turns \ {0} : turn[t] # "new"}

\* a turn that runs, or whose POST is on its way
Underway(t) == turn[t] = "sent" \/ Active(t)

\* chatRecoveryPolicy: only "ready" allows a send or a drain
AllowSend == recovery = "ready"
AllowStop == recovery # "ready"

\* streamChat's loop; after a terminal event the end of the stream is no failure
Reads(t) == stream[t] \in {"open", "told"}

\* Mutant: events are matched by request alone.
CurrentByRequest(t) == Reads(t) /\ reqId = t

\* isCurrentChatStream: an aborted reader is "closed" here
Current(t) == Reads(t) /\ reqId = t /\ sgen[t] = gen

\* the drain effect has something to do
DrainDue == ~busy /\ queue # <<>> /\ ~modePending /\ AllowSend
Settled  == ~due /\ ~DrainDue

\* sessionMessagesToDisplay: no reply streams into a transcript from disk
FromDisk == Old

\* Text, tool rows and their progress, notices and artifacts are written to
\* the last message, if it is a reply.
WrittenTo == tail

Compacting == cmd # None /\ cmd.kind = "compact"

\* Mutant: the line is appended, whatever streams.
AppendNotice(last) == Note

\* pushCommandNotice: under a running reply the line goes above its bubble
AfterNotice(last) == IF busy /\ last # Note THEN last ELSE Note

\* the approval card is taken down; a decision being posted goes on
CardGone == pending' = None /\ deciding' = {[d EXCEPT !.up = FALSE] : d \in deciding}

Fault == faults < MaxFaults /\ faults' = faults + 1

\* setSessionId and the render it causes
Show(s) ==
    /\ shown' = s
    /\ gen' = IF s # view THEN gen + 1 ELSE gen
    /\ due' = (s # view)

NextFresh == CHOOSE s \in Fresh : s \notin born

\* Bound: a session is left for each POST on its way that names none.
Spare == Cardinality(Fresh \ born) > Cardinality({t \in Turns : turn[t] = "sent" /\ on[t] = None})
Act == Settled /\ acts < MaxActs /\ acts' = acts + 1

chatBelow == <<card, refs, gate, tail, inputs, streams, loads, stops, overtaken>>

----------------------------------------------------------------------------
\* App: picking, creating, deleting and restoring a session.  The answers of
\* createSession and resolveSession are applied whatever is shown by then.
Pick(s) ==
    /\ Act /\ s \in (Saved \cup born) \ gone
    /\ Show(s) /\ chosen' = s
    /\ UNCHANGED <<creating, restoring, faults, daemon, chatBelow>>

New ==
    /\ Act /\ ~creating /\ creating' = TRUE
    /\ Show(None) /\ chosen' = None
    /\ UNCHANGED <<restoring, faults, daemon, chatBelow>>

Created ==
    /\ creating /\ ~due /\ Spare /\ creating' = FALSE
    /\ born' = born \cup {NextFresh} /\ Show(NextFresh) /\ chosen' = None
    /\ UNCHANGED <<restoring, engine, marked, gone, faults, acts, chatBelow>>

CreateFails ==
    /\ creating /\ Fault /\ creating' = FALSE
    /\ UNCHANGED <<shown, restoring, due, chosen, gen, daemon, acts, chatBelow>>

\* nothing refuses to delete a session with a running turn
Delete ==
    /\ Act /\ shown # None
    /\ gone' = gone \cup {shown} /\ Show(None) /\ chosen' = None
    /\ UNCHANGED <<creating, restoring, faults, engine, marked, born, chatBelow>>

\* A reload forgets the tab; the URL still names the session.  A generation
\* is never reused, so that the history variables stay meaningful.
Reload ==
    /\ Act
    /\ restoring' = shown /\ shown' = None /\ creating' = FALSE /\ due' = FALSE
    /\ chosen' = None /\ pending' = None /\ deciding' = {}
    /\ view' = None /\ gen' = gen + 1 /\ reqId' = None /\ reader' = None
    /\ recovery' = "ready" /\ busy' = FALSE /\ queue' = <<>> /\ tail' = Old
    /\ modePending' = FALSE /\ cmd' = None /\ loads' = {} /\ stops' = {}
    /\ stream' = [t \in Turns |-> IF stream[t] = "none" THEN "none" ELSE "closed"]
    /\ UNCHANGED <<sgen, daemon, overtaken, lost, faults>>

Restored ==
    /\ restoring # None /\ ~due /\ restoring' = None
    /\ Show(restoring) /\ chosen' = None
    /\ UNCHANGED <<creating, daemon, faults, acts, chatBelow>>

RestoreFails ==
    /\ restoring # None /\ Fault /\ restoring' = None
    /\ UNCHANGED <<shown, creating, due, chosen, gen, daemon, acts, chatBelow>>

----------------------------------------------------------------------------
\* Mutant: every switch cancels, also a view that has nothing to cancel.
CancelAlways == {[alias |-> reqId, by |-> "switch", det |-> FALSE, gen |-> gen,
                  click |-> acts, served |-> FALSE]}

\* the turn left behind, or the session it may run on, is cancelled by its alias
Cancel == IF reqId = None THEN {}
          ELSE {[alias |-> reqId, by |-> "switch", det |-> FALSE, gen |-> gen,
                 click |-> acts, served |-> FALSE]}

\* Mutant: a session is usable before it was checked.
RecoveryUnchecked == "ready"

\* transition "session_switch"
RecoveryOfSwitch == IF shown # None THEN "checking" ELSE "ready"

\* The session effect: detach the old view, cancel its turn, start the checks
SwitchEffect ==
    /\ due /\ due' = FALSE
    /\ view' = shown /\ reqId' = shown /\ reader' = None
    /\ recovery' = RecoveryOfSwitch
    /\ busy' = FALSE /\ queue' = <<>> /\ tail' = Old /\ CardGone
    /\ stream' = IF reader = None THEN stream ELSE [stream EXCEPT ![reader] = "closed"]
    /\ stops' = stops \cup Cancel
    /\ loads' = IF shown = None THEN loads
                ELSE loads \cup {[ses |-> shown, gen |-> gen, ans |-> "wait"]}
    /\ UNCHANGED <<shown, creating, restoring, chosen, lost, gen, inputs, sgen, daemon, overtaken,
                   faults, acts>>

\* The server's answer to /chat/active, and its arrival.  "early" is an idle
\* answer that overtook the POST of a turn to the session it is about.
LoadServed(l) ==
    /\ l \in loads /\ l.ans = "wait"
    /\ LET sent == \E t \in Turns : turn[t] = "sent" /\ on[t] = l.ses
           ans  == IF l.ses \in marked THEN "active" ELSE IF sent THEN "early" ELSE "idle"
       IN loads' = (loads \ {l}) \cup {[l EXCEPT !.ans = ans]}
    /\ UNCHANGED <<app, card, refs, gen, gate, tail, inputs, streams, stops, daemon,
                   overtaken, faults, acts>>

\* Mutant: the generation moves once more after the request.
AwaitedNever(l) == view = l.ses /\ gen = l.gen + 1

\* an answer counts for the view that asked, not for a later one of the session
Awaited(l) == view = l.ses /\ gen = l.gen

\* what an awaited answer overtakes: a turn sent from this very view
Overtakes == \E t \in Sent : sgen[t] = gen

LoadApplied(l) ==
    /\ l \in loads /\ l.ans # "wait" /\ loads' = loads \ {l}
    /\ IF ~Awaited(l) THEN UNCHANGED <<reqId, gate, tail, overtaken>>
       ELSE /\ overtaken' = (overtaken \/ Overtakes \/ l.ans = "early")
            /\ IF l.ans = "active"
               THEN /\ recovery' = "detached_active" /\ reqId' = l.ses
                    /\ busy' = FALSE /\ queue' = <<>> /\ tail' = AfterNotice(FromDisk)
               ELSE /\ recovery' = "ready" /\ tail' = FromDisk
                    /\ reqId' = IF reqId = l.ses THEN None ELSE reqId
                    /\ UNCHANGED <<busy, queue>>
    /\ UNCHANGED <<app, card, view, gen, reader, inputs, streams, stops, daemon,
                   faults, acts>>

LoadFails(l) ==
    /\ l \in loads /\ Fault /\ loads' = loads \ {l}
    /\ IF ~Awaited(l) THEN UNCHANGED <<reqId, gate, tail, overtaken>>
       ELSE /\ recovery' = "terminal_unknown" /\ reqId' = l.ses
            /\ busy' = FALSE /\ queue' = <<>> /\ tail' = AfterNotice(tail)
            /\ overtaken' = (overtaken \/ Overtakes)
    /\ UNCHANGED <<app, card, view, gen, reader, inputs, streams, stops, daemon, acts>>

----------------------------------------------------------------------------
\* deliver, normal path: the POST names the session shown, if there is one
Deliver(t) ==
    /\ turn[t] = "new" /\ t # 0 /\ \A u \in 1 .. t - 1 : turn[u] # "new"
    /\ shown # None \/ Spare
    /\ busy' = TRUE /\ tail' = t /\ reader' = t /\ reqId' = t
    /\ stream' = [stream EXCEPT ![t] = "open"] /\ sgen' = [sgen EXCEPT ![t] = gen]
    /\ turn' = [turn EXCEPT ![t] = "sent"] /\ on' = [on EXCEPT ![t] = shown]
    /\ UNCHANGED <<app, card, view, gen, recovery, inputs, loads, stops, calls, server,
                   overtaken, faults>>

\* The POST reaches the server: it makes a session if none is named, marks it
\* active and asks the engine.
TurnBegins(t) ==
    /\ turn[t] = "sent" /\ (on[t] # None \/ born # Fresh)
    /\ turn' = [turn EXCEPT ![t] = "running"]
    /\ IF on[t] # None THEN UNCHANGED <<on, born>>
       ELSE on' = [on EXCEPT ![t] = NextFresh] /\ born' = born \cup {NextFresh}
    /\ marked' = marked \cup {on'[t]}
    /\ UNCHANGED <<app, card, refs, gen, gate, tail, inputs, streams, loads, stops, calls,
                   gone, overtaken, faults, acts>>

\* Mutant: a send does not look at compactingRef.
MayTypeAlways == Settled /\ ~modePending

\* sendMessage
MayType == Settled /\ ~modePending /\ ~Compacting

Send(t) ==
    /\ MayType /\ AllowSend /\ ~busy /\ Act
    /\ Deliver(t) /\ UNCHANGED queue

\* typed while a turn runs: queued (bounded so that the queue can be sent)
Enqueue ==
    /\ MayType /\ AllowSend /\ busy /\ Act /\ \E t \in Sent : t = reqId
    /\ Len(queue) < MaxSends /\ turn[MaxSends - Len(queue)] = "new"
    /\ queue' = Append(queue, reqId)
    /\ UNCHANGED <<app, card, refs, gen, recovery, busy, tail, inputs, streams, loads,
                   stops, daemon, overtaken, faults>>

RefuseSend ==
    /\ MayType /\ ~AllowSend /\ tail' = AfterNotice(tail)
    /\ UNCHANGED <<app, card, refs, gen, gate, inputs, streams, loads, stops, daemon,
                   overtaken, faults, acts>>

\* the queue's own remove button
Unqueue ==
    /\ Settled /\ queue # <<>> /\ queue' = Tail(queue)
    /\ UNCHANGED <<app, card, refs, gen, recovery, busy, tail, inputs, streams, loads,
                   stops, daemon, overtaken, faults, acts>>

Drain(t) == ~due /\ DrainDue /\ queue' = Tail(queue) /\ Deliver(t) /\ UNCHANGED acts

----------------------------------------------------------------------------
\* The engine: a turn asks for approval (one turn in a behaviour does), or
\* ends by itself.  The server clears the mark when it relays `done` or finds
\* the engine broken, not when it relays an `error` of the engine's.
AskPermission(t) ==
    /\ turn[t] = "running" /\ stream[t] = "open" /\ calls[t] < MaxCalls
    /\ \A u \in Turns \ {t} : calls[u] = 0
    /\ turn' = [turn EXCEPT ![t] = "waiting"] /\ calls' = [calls EXCEPT ![t] = @ + 1]
    /\ pending' = IF Current(t) THEN <<t, calls'[t]>> ELSE pending
    /\ UNCHANGED <<app, deciding, lost, refs, gen, gate, tail, inputs, streams, loads,
                   stops, on, server, overtaken, faults, acts>>

TurnEnds(t) ==
    /\ turn[t] = "running" /\ stream[t] = "open"
    /\ \E end \in {"completed", "incomplete", "error"} :
          /\ turn' = [turn EXCEPT ![t] = end]
          /\ \/ marked' = marked \ {on[t]}
             \/ end = "error" /\ marked' = marked
    /\ UNCHANGED <<app, card, refs, gen, gate, tail, inputs, streams, loads, stops, on,
                   calls, born, gone, overtaken, faults, acts>>

\* The client went away.  Its POST never arrives, or the turn still ended by
\* itself, or the server dropped the stream: then the engine's generator is not
\* resumed and the mark stays.
Orphaned(t) ==
    /\ Underway(t) /\ (t = 0 \/ stream[t] = "closed")
    /\ turn' = [turn EXCEPT ![t] = "over"]
    /\ marked' \in {marked, IF Active(t) THEN marked \ {on[t]} ELSE marked}
    /\ UNCHANGED <<app, card, refs, gen, gate, tail, inputs, streams, loads, stops, on,
                   calls, born, gone, overtaken, faults, acts>>

\* tool_result of an approved call: its card has served
ToolResult(t) ==
    /\ turn[t] = "running" /\ stream[t] = "open" /\ Current(t)
    /\ pending = <<t, calls[t]>> /\ CardGone
    /\ UNCHANGED <<app, lost, refs, gen, gate, tail, inputs, streams, loads,
                   stops, daemon, overtaken, faults, acts>>

\* Mutant: any `done` keeps the queue.
QueueAfterDone(t) == IF turn[t] \in {"completed", "incomplete"} THEN queue ELSE <<>>

\* classifyChatDone: only a natural completion keeps the queue
QueueAfter(t) == IF turn[t] = "completed" THEN queue ELSE <<>>

\* done, stopped and error, as the reader of t hands them to handleEvent; how
\* a turn failed no longer matters then
Terminal(t) ==
    /\ stream[t] = "open" /\ ~Underway(t)
    /\ stream' = [stream EXCEPT ![t] = "told"]
    /\ turn' = [turn EXCEPT ![t] = IF @ = "completed" THEN @ ELSE "over"]
    /\ IF ~Current(t) THEN UNCHANGED <<shown, view, pending, deciding, gate>>
       ELSE /\ recovery' = "ready" /\ busy' = FALSE /\ CardGone
            /\ queue' = QueueAfter(t)
            /\ IF turn[t] \in {"completed", "incomplete"}
               THEN view' = on[t] /\ shown' = on[t]
               ELSE UNCHANGED <<view, shown>>
    /\ UNCHANGED <<creating, restoring, due, chosen, lost, gen, reqId, reader,
                   tail, inputs, sgen, loads, stops, server, on, calls, overtaken, faults,
                   acts>>

\* Mutant: finally drops whatever alias is there.
AliasDropped(t) == None

\* finally drops the alias of its own request only
AliasAfter(t) == IF reqId = t /\ gen = sgen[t] THEN None ELSE reqId

\* the stream closes after its terminal event: finally
StreamEnd(t) ==
    /\ stream[t] = "told" /\ stream' = [stream EXCEPT ![t] = "closed"]
    /\ reader' = IF reader = t THEN None ELSE reader
    /\ reqId' = AliasAfter(t)
    /\ UNCHANGED <<app, card, view, gen, gate, tail, inputs, sgen, loads, stops, daemon,
                   overtaken, faults, acts>>

\* Mutant: a view that locks keeps what was typed ahead.
QueueKept == queue

\* a view that locks drops what was typed ahead
QueueOnLock == <<>>

\* the transport fails, before or after the terminal event: catch, then a
\* finally that keeps the alias
StreamLost(t) ==
    /\ Reads(t) /\ Fault
    /\ stream' = [stream EXCEPT ![t] = "closed"]
    /\ reader' = IF reader = t THEN None ELSE reader
    /\ IF Current(t)
       THEN recovery' = "terminal_unknown" /\ busy' = FALSE /\ queue' = QueueOnLock /\ CardGone
       ELSE UNCHANGED <<pending, deciding, gate>>
    /\ UNCHANGED <<app, lost, view, reqId, gen, tail, inputs, sgen, loads, stops,
                   daemon, overtaken, acts>>

----------------------------------------------------------------------------
\* handleStop, however often it is clicked; without an alias the button does
\* nothing
Stop ==
    /\ Act /\ (busy \/ AllowStop) /\ reqId # None
    /\ stops' = stops \cup {[alias |-> reqId, by |-> "user", det |-> reader = None,
                             gen |-> gen, click |-> acts, served |-> FALSE]}
    /\ UNCHANGED <<app, card, refs, gen, gate, tail, inputs, streams, loads, daemon,
                   overtaken, faults>>

\* The bridge hands the alias, a request or a session, to the engine.  It
\* answers 200 whether the engine stopped something or knows no such id.  The
\* answer to a stop that a switch sent changes nothing.
Names(p, t) == Active(t) /\ (p.alias = t \/ p.alias = on[t])

StopServed(p) ==
    /\ p \in stops /\ ~p.served
    /\ stops' = (stops \ {p}) \cup IF p.by = "user" THEN {[p EXCEPT !.served = TRUE]} ELSE {}
    /\ \E stopped \in BOOLEAN :
          turn' = [t \in Turns |-> IF ~stopped \/ ~Names(p, t) THEN turn[t]
                                  ELSE IF stream[t] = "open" THEN "stopped" ELSE "over"]
    /\ UNCHANGED <<app, card, refs, gen, gate, tail, inputs, streams, loads, on, calls,
                   server, overtaken, faults, acts>>

\* a turn of the view that the answered stop did not reach
StillRuns == \E t \in Turns : Underway(t) /\ on[t] = view

StopOk(p) ==
    /\ p \in stops /\ p.served /\ stops' = stops \ {p}
    /\ IF p.det /\ reqId = p.alias
       THEN /\ recovery' = "ready" /\ reqId' = None /\ busy' = FALSE /\ queue' = <<>>
            /\ CardGone /\ tail' = AfterNotice(tail)
            /\ overtaken' = (overtaken \/ StillRuns)
       ELSE UNCHANGED <<reqId, gate, pending, deciding, tail, overtaken>>
    /\ UNCHANGED <<app, lost, view, reader, gen, inputs, streams, loads, daemon,
                   faults, acts>>

\* a failed stop of the user's locks the view; of a switch, it only tells
StopFails(p) ==
    /\ p \in stops /\ Fault /\ stops' = stops \ {p}
    /\ IF p.by = "user"
       THEN /\ queue' = QueueOnLock /\ recovery' = "terminal_unknown"
            /\ busy' = (busy /\ reader # None) /\ UNCHANGED tail
       ELSE /\ tail' = IF gen = p.gen THEN AfterNotice(tail) ELSE tail
            /\ UNCHANGED gate
    /\ UNCHANGED <<app, card, refs, gen, inputs, streams, loads, daemon, overtaken, acts>>

----------------------------------------------------------------------------
\* PermissionCard: one decision at a time and card; a decision names a
\* session, not a call
Decide ==
    /\ Act /\ pending # None /\ ~\E d \in deciding : d.up
    /\ deciding' = deciding \cup {[call |-> pending, up |-> TRUE, served |-> FALSE]}
    /\ UNCHANGED <<app, pending, lost, refs, gen, gate, tail, inputs, streams, loads, stops,
                   daemon, overtaken, faults>>

DecisionServed(d) ==
    /\ d \in deciding /\ ~d.served
    /\ deciding' = (deciding \ {d}) \cup {[d EXCEPT !.served = TRUE]}
    /\ turn' = [t \in Turns |-> IF turn[t] = "waiting" /\ on[t] = on[d.call[1]]
                                THEN "running" ELSE turn[t]]
    /\ UNCHANGED <<app, pending, lost, refs, gen, gate, tail, inputs, streams, loads, stops,
                   on, calls, server, overtaken, faults, acts>>

\* Mutant: the answer clears the card, whatever it shows.
CardCleared(d) == None

\* resolvePendingAfterDecision keeps a newer request on the card
CardAfter(d) == IF pending = d.call THEN None ELSE pending

\* onDone, whether the decision arrived or not
Dismiss(d) ==
    /\ pending' = CardAfter(d)
    /\ deciding' = {[e EXCEPT !.up = e.up /\ pending' # None] : e \in deciding \ {d}}
    /\ UNCHANGED <<app, refs, gen, gate, tail, inputs, streams, loads, stops, daemon,
                   overtaken, acts>>

DecisionDone(d) ==
    d \in deciding /\ d.served /\ Dismiss(d) /\ UNCHANGED <<lost, faults>>

DecisionLost(d) ==
    /\ d \in deciding /\ ~d.served /\ Fault /\ Dismiss(d)
    /\ lost' = lost \cup {d.call}

----------------------------------------------------------------------------
\* switchMode, then its answer, either way
BeginMode ==
    /\ Act /\ ~modePending /\ modePending' = TRUE
    /\ UNCHANGED <<app, card, refs, gen, gate, tail, cmd, streams, loads, stops, daemon,
                   overtaken, faults>>

ModeSettled ==
    /\ modePending /\ modePending' = FALSE
    /\ UNCHANGED <<app, card, refs, gen, gate, tail, cmd, streams, loads, stops, daemon,
                   overtaken, faults, acts>>

\* execServerCommand: only a busy view refuses /compact and /undo
Command(kind) ==
    /\ Act /\ MayType /\ cmd = None /\ (kind = "info" \/ ~busy)
    /\ kind # "info" => shown # None
    /\ cmd' = [kind |-> kind, ses |-> shown]
    /\ tail' = IF kind = "compact" THEN AfterNotice(tail) ELSE tail
    /\ UNCHANGED <<app, card, refs, gen, gate, modePending, streams, loads, stops, daemon,
                   overtaken, faults>>

\* the answer: /compact and /undo that did something reload the transcript
CommandDone ==
    /\ cmd # None /\ cmd' = None
    /\ \E reload \in BOOLEAN :
          /\ reload => cmd.kind # "info" /\ view = cmd.ses
          /\ overtaken' = (overtaken \/ (reload /\ busy))
          /\ tail' = IF reload THEN AfterNotice(FromDisk) ELSE AfterNotice(tail)
    /\ UNCHANGED <<app, card, refs, gen, gate, modePending, streams, loads, stops, daemon,
                   faults, acts>>

----------------------------------------------------------------------------
User == \/ \E s \in Sessions : Pick(s)
        \/ New \/ Delete \/ Reload \/ Stop \/ Decide \/ BeginMode
        \/ \E t \in Turns : Send(t)
        \/ Enqueue \/ RefuseSend \/ Unqueue
        \/ \E kind \in {"compact", "undo", "info"} : Command(kind)

Effects == SwitchEffect \/ \E t \in Turns : Drain(t)

Answers == \/ Created \/ CreateFails \/ Restored \/ RestoreFails
           \/ \E l \in loads : LoadServed(l) \/ LoadApplied(l) \/ LoadFails(l)
           \/ \E p \in stops : StopServed(p) \/ StopOk(p) \/ StopFails(p)
           \/ \E d \in deciding : DecisionServed(d) \/ DecisionDone(d) \/ DecisionLost(d)
           \/ ModeSettled \/ CommandDone

Turn(t) == \/ TurnBegins(t) \/ AskPermission(t) \/ TurnEnds(t) \/ ToolResult(t)
           \/ Orphaned(t) \/ Terminal(t) \/ StreamEnd(t) \/ StreamLost(t)

ChatNext == User \/ Effects \/ Answers \/ \E t \in Turns : Turn(t)

\* Requests are answered or fail, a turn that needs no approval ends, and the
\* browser reads its streams and runs its effects.  Nothing is asked of the user.
ChatFairness ==
    /\ WF_chatVars(Effects)
    /\ WF_chatVars(\E l \in loads : LoadServed(l) \/ LoadApplied(l))
    /\ WF_chatVars(\E t \in Turns : TurnBegins(t) \/ TurnEnds(t) \/ Orphaned(t))
    /\ WF_chatVars(\E t \in Turns : Terminal(t))
    /\ WF_chatVars(ModeSettled)

ChatSpec == ChatInit /\ [][ChatNext]_chatVars

FairChatSpec == ChatSpec /\ ChatFairness

----------------------------------------------------------------------------
\* Properties

Loads   == [ses : Sessions, gen : Nat, ans : {"wait", "active", "idle", "early"}]
Aliases == (Turns \ {0}) \cup Sessions
Stops   == [alias : Aliases, by : {"user", "switch"}, det : BOOLEAN, gen : Nat,
            click : Nat, served : BOOLEAN]
Calls   == Turns \X Nat

\* Every variable has its type.
ChatTypeOK ==
    /\ shown \in Sessions \cup {None} /\ creating \in BOOLEAN
    /\ restoring \in Sessions \cup {None} /\ due \in BOOLEAN
    /\ chosen \in Sessions \cup {None}
    /\ pending \in Calls \cup {None}
    /\ deciding \subseteq [call : Calls, up : BOOLEAN, served : BOOLEAN] /\ lost \subseteq Calls
    /\ view \in Sessions \cup {None} /\ gen \in Nat
    /\ reqId \in Aliases \cup {None} /\ reader \in (Turns \ {0}) \cup {None}
    /\ recovery \in {"ready", "checking", "detached_active", "terminal_unknown"}
    /\ busy \in BOOLEAN /\ queue \in Seq(Turns)
    /\ tail \in Turns \cup {Note, Old} /\ modePending \in BOOLEAN
    /\ cmd \in [kind : {"compact", "undo", "info"}, ses : Sessions \cup {None}] \cup {None}
    /\ stream \in [Turns -> {"none", "open", "told", "closed"}] /\ sgen \in [Turns -> Nat]
    /\ loads \subseteq Loads /\ stops \subseteq Stops
    /\ turn \in [Turns -> {"new", "sent", "running", "waiting", "completed", "incomplete",
                           "stopped", "error", "over"}]
    /\ on \in [Turns -> Sessions \cup {None}] /\ calls \in [Turns -> Nat]
    /\ marked \subseteq Sessions /\ born \subseteq Fresh /\ gone \subseteq Sessions
    /\ overtaken \in BOOLEAN /\ faults \in Nat /\ acts \in Nat

\* The tab never runs two turns of its own on one session.
running == [s \in Sessions |-> {t \in Turns : Active(t) /\ on[t] = s}]
T == INSTANCE TurnLock WITH Places <- Sessions, Jobs <- Turns, active <- running,
                            waived <- overtaken
OneTurnPerSession == T!Spec

\* The registry is authoritative (Chat.tsx:713): a view that it finds idle has no
\* turn that an earlier view started on its session.
RegistryAuthoritative ==
    [][\A l \in loads : LoadApplied(l) /\ Awaited(l) /\ l.ans # "active" =>
          ~\E t \in Turns : Underway(t) /\ on[t] = view /\ sgen[t] # gen]_chatVars

\* While a reply streams, its bubble stays the last message: no notice, late
\* answer or other turn's event can take the place its text is appended to.
StreamOwnsTail ==
    busy /\ ~due /\ ~overtaken => reader # None /\ WrittenTo = reader

\* A running turn can always be stopped: the finally of an earlier stream
\* never takes the alias of the turn that replaced it.
BusyHasAlias == busy /\ ~due => reqId # None /\ reqId = reader

\* A queued message is sent only after the turn before it completed by itself,
\* in the view it was typed in.
DrainOnlyAfterCompletion ==
    [][\A t \in Turns : Drain(t) => turn[t - 1] = "completed" /\ sgen[t - 1] = gen]_chatVars

\* An approval the daemon waits for can be given: its card is up, or a
\* decision was made and lost.
ApprovalReachable ==
    \A t \in Turns : turn[t] = "waiting" /\ stream[t] = "open" /\ Current(t) =>
        pending = <<t, calls[t]>> \/ <<t, calls[t]>> \in lost

\* A pick of the user's stands until the user, or the answer to a request the
\* user made, moves on: no event of an abandoned turn takes the view back.
PickStands == chosen # None => shown = chosen

\* No turn starts while this tab has a /compact in flight.
NoTurnDuringCompact == [][Compacting /\ Compacting' => Sent' = Sent]_chatVars

\* The lock of a fresh view is lifted or explained.
CheckEnds == recovery = "checking" ~> recovery # "checking"

\* Typed-ahead messages are sent or dropped, unless a turn waits for the user.
QueueMoves == queue # <<>> ~> (queue = <<>> \/ \E t \in Turns : turn[t] = "waiting")
=============================================================================
