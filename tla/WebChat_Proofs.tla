---------------------------- MODULE WebChat_Proofs ----------------------------
(***************************************************************************)
(* The chat view, for any number of sessions, turns and faults.  A reader  *)
(* counts only in the generation it was started in, a generation ends with *)
(* every change of the view, and a view is ready only when it watches the  *)
(* one turn that may run on its session or knows that there is none.       *)
(***************************************************************************)
EXTENDS WebChat, FiniteSetTheorems, TLAPS

Known == Saved \cup born

\* what is shown, restored or run on exists
Exists ==
    /\ {shown, restoring, view} \subseteq Known \cup {None}
    /\ born \subseteq Fresh
    /\ \A t \in Turns : on[t] \in Known \cup {None}

\* generations only grow, and a view that is to change has a new one
Generations ==
    /\ gen \in Nat /\ due \in BOOLEAN
    /\ \A t \in Turns : sgen[t] \in Nat /\ sgen[t] <= gen
    /\ \A l \in loads : l.ses \in Sessions /\ l.gen \in Nat /\ l.gen <= gen
    /\ ~due => view = shown
    /\ due => /\ \A t \in Turns : Reads(t) => sgen[t] # gen
              /\ \A l \in loads : l.gen # gen

\* a check asked for in this generation is about this view
ChecksView == \A l \in loads : l.gen = gen => l.ses = view

\* the current turn runs where the user looks
CurrentHere == \A t \in Turns : Current(t) => shown \in {None, on[t]}

\* the user's pick, unless the user moved on
Picked == chosen = None \/ (chosen = shown /\ chosen # None)

Located == Exists /\ Generations /\ ChecksView /\ CurrentHere

\* a turn that runs has a session
Housed == \A t \in Turns : Active(t) => on[t] # None

\* what is updated at a turn is a function on turns
Shapes ==
    /\ turn = [t \in Turns |-> turn[t]] /\ on = [t \in Turns |-> on[t]]
    /\ stream = [t \in Turns |-> stream[t]] /\ sgen = [t \in Turns |-> sgen[t]]
    /\ overtaken \in BOOLEAN

\* one turn on a session, and the server knows of it when it runs
Alone ==
    \A t, u \in Turns : Underway(t) /\ Underway(u) /\ on[t] = on[u] /\ on[t] # None => t = u
Marked == \A t \in Turns : Active(t) => on[t] \in marked

\* an idle answer is true of all but the turns sent from this view
IdleTrue ==
    \A l \in loads, t \in Turns :
        /\ l.ans \notin {"wait", "active", "early"} /\ l.gen = gen
        /\ Underway(t) /\ on[t] = l.ses
        => t # 0 /\ sgen[t] = gen

\* no other turn runs where the current one runs or ran
CurrentAlone ==
    \A t, u \in Turns :
        Current(t) /\ Underway(u) /\ on[u] = on[t] /\ on[t] # None => u = t

Watched(t) == busy /\ stream[t] = "open" /\ reqId = t /\ sgen[t] = gen

\* a ready view watches what runs on its session
ReadyWatches ==
    ~due /\ recovery = "ready" /\ view # None =>
        \A t \in Turns : Underway(t) /\ on[t] = view => Watched(t)

Sound == overtaken \/ (Alone /\ Marked /\ IdleTrue /\ CurrentAlone /\ ReadyWatches)

\* a locked view has nothing queued, nor has one that compacts
LockedEmpty == ~AllowSend => queue = <<>>
CompactsEmpty == Compacting => queue = <<>>

----------------------------------------------------------------------------
\* Where things are

LEMMA InitLocated == ChatInit => Located
  <1> SUFFICES ASSUME ChatInit PROVE Located
    OBVIOUS
  <1>1. \A t \in Turns : stream[t] = "none" /\ sgen[t] = 0
    BY DEF ChatInit
  <1>0. /\ shown = None /\ view = None /\ restoring \in Saved \cup {None} /\ born = {}
        /\ gen = 0 /\ due = FALSE /\ loads = {}
        /\ \A t \in Turns : on[t] \in Saved
    BY DEF ChatInit
  <1>2. Exists
    BY <1>0 DEF Exists, Known
  <1>3. Generations
    <2>1. due \in BOOLEAN /\ ~due
      BY <1>0
    <2>2. \A t \in Turns : sgen[t] \in Nat /\ sgen[t] <= gen
      BY <1>0, <1>1
    <2> QED
      BY <1>0, <2>1, <2>2 DEF Generations
  <1>4. ChecksView /\ CurrentHere
    BY <1>0, <1>1 DEF ChecksView, CurrentHere, Current, Reads
  <1> QED
    BY <1>2, <1>3, <1>4 DEF Located

\* Located speaks of nothing else
located == <<shown, restoring, due, view, gen, reqId, stream, sgen, loads, born, on>>

LEMMA LocatedKept == Located /\ UNCHANGED located => Located'
  <1> SUFFICES ASSUME Located, UNCHANGED located PROVE Located'
    OBVIOUS
  <1> USE DEF located, Located
  <1>1. Exists'
    BY DEF Exists, Known
  <1>2. Generations'
    BY DEF Generations, Reads
  <1>3. ChecksView' /\ CurrentHere'
    BY DEF ChecksView, CurrentHere, Current, Reads
  <1> QED
    BY <1>1, <1>2, <1>3

\* another session is shown, and the effect has not run yet
LEMMA ShowLocated ==
  ASSUME Located, ~due, NEW s \in Known' \cup {None}, Show(s),
         Known \subseteq Known', born' \subseteq Fresh, restoring' \in Known' \cup {None},
         UNCHANGED <<view, reqId, stream, sgen, loads, on>>
  PROVE  Located'
  <1> USE DEF Located
  <1>1. view = shown /\ shown' = s
    BY DEF Show, Generations
  <1>2. Exists'
    BY <1>1 DEF Exists
  <1>3. CASE s = view
    <2>1. gen' = gen /\ due' = FALSE /\ shown' = shown
      BY <1>1, <1>3 DEF Show
    <2>2. Generations'
      BY <1>1, <2>1 DEF Generations, Reads
    <2>3. ChecksView' /\ CurrentHere'
      BY <1>1, <2>1 DEF ChecksView, CurrentHere, Current, Reads
    <2> QED
      BY <1>2, <2>2, <2>3
  <1>4. CASE s # view
    <2>1. gen' = gen + 1 /\ due' = TRUE
      BY <1>4 DEF Show
    <2>2. /\ \A t \in Turns : sgen'[t] \in Nat /\ sgen'[t] <= gen /\ sgen'[t] # gen'
          /\ \A l \in loads' : l.ses \in Sessions /\ l.gen \in Nat /\ l.gen <= gen /\ l.gen # gen'
          /\ gen \in Nat
      BY <2>1 DEF Generations
    <2>3. Generations'
      BY <2>1, <2>2 DEF Generations, Reads
    <2>4. ChecksView' /\ CurrentHere'
      BY <2>2 DEF ChecksView, CurrentHere, Current, Reads
    <2> QED
      BY <1>2, <2>3, <2>4
  <1> QED
    BY <1>3, <1>4

LEMMA SendLocated ==
  ASSUME Located, Shapes, ~due, NEW t \in Turns, Deliver(t) PROVE Located'
  <1> USE ConstantsAssumption DEF Located, Known
  <1>1. /\ UNCHANGED <<shown, restoring, due, view, gen, loads, born>>
        /\ reqId' = t /\ view = shown
        /\ \A u \in Turns : sgen'[u] = IF u = t THEN gen ELSE sgen[u]
        /\ \A u \in Turns : on'[u] = IF u = t THEN shown ELSE on[u]
    BY DEF Deliver, app, server, Generations, Shapes
  <1>2. Exists'
    BY <1>1 DEF Exists
  <1>3. CurrentHere'
    BY <1>1 DEF CurrentHere, Current
  <1> QED
    BY <1>1, <1>2, <1>3 DEF Generations, ChecksView

\* The session of a turn that begins: the one its POST named, or a new one.
LEMMA BeginsOn ==
  ASSUME Shapes, Exists, NEW t \in Turns, TurnBegins(t)
  PROVE  /\ on'[t] \in Known' /\ born \subseteq born' /\ born' \subseteq Fresh
         /\ on[t] # None => on'[t] = on[t]
         /\ on[t] = None => on'[t] \in Fresh \ born
         /\ \A u \in Turns : u # t => on'[u] = on[u]
  <1> USE DEF Known
  <1>1. CASE on[t] # None
    BY <1>1 DEF TurnBegins, Exists
  <1>2. CASE on[t] = None
    <2>1. born # Fresh /\ born' = born \cup {NextFresh}
      BY <1>2 DEF TurnBegins
    <2>2. \A u \in Turns : on'[u] = IF u = t THEN NextFresh ELSE on[u]
      BY <1>2 DEF TurnBegins, Shapes
    <2>3. NextFresh \in Fresh \ born
      BY <2>1 DEF NextFresh, Exists
    <2> QED
      BY <1>2, <2>1, <2>2, <2>3 DEF Exists
  <1> QED
    BY <1>1, <1>2

LEMMA BeginLocated ==
  ASSUME Located, Shapes, NEW t \in Turns, TurnBegins(t) PROVE Located'
  <1> USE DEF Located
  <1>1. UNCHANGED <<shown, restoring, due, view, gen, reqId, stream, sgen, loads>>
    BY DEF TurnBegins, app, refs, streams
  <1>2. Exists'
    BY <1>1, BeginsOn DEF Exists, Known
  <1>3. Generations' /\ ChecksView'
    BY <1>1 DEF Generations, ChecksView, Reads
  <1>4. CurrentHere'
    BY <1>1, BeginsOn DEF CurrentHere, Current, Reads
  <1> QED
    BY <1>2, <1>3, <1>4

\* Where everything is
Placed == Shapes /\ Located /\ Housed

\* what becomes of a decision being posted
Decisions == \E d \in deciding : DecisionServed(d) \/ DecisionDone(d) \/ DecisionLost(d)

LEMMA StepShapes == Shapes /\ [ChatNext]_chatVars => Shapes'
  <1> SUFFICES ASSUME Shapes, [ChatNext]_chatVars PROVE Shapes'
    OBVIOUS
  <1> USE DEF Shapes
  <1>1. CASE UNCHANGED chatVars
    BY <1>1 DEF chatVars, streams, daemon, engine
  <1>2. CASE User
    BY <1>2 DEF User, Pick, New, Delete, Reload, Stop, Decide, BeginMode, Send, Deliver,
                Enqueue, RefuseSend, Unqueue, Command, chatBelow, streams, daemon, engine
  <1>3. CASE Effects
    BY <1>3 DEF Effects, SwitchEffect, Drain, Deliver, streams, daemon, engine
  <1>4. CASE \E l \in loads : LoadServed(l) \/ LoadApplied(l) \/ LoadFails(l)
    BY <1>4 DEF LoadServed, LoadApplied, LoadFails, Overtakes, streams, daemon, engine
  <1>5. CASE \E p \in stops : StopServed(p) \/ StopOk(p) \/ StopFails(p)
    BY <1>5 DEF StopServed, StopOk, StopFails, StillRuns, streams, daemon, engine
  <1>6. CASE Created \/ CreateFails \/ Restored \/ RestoreFails
    BY <1>6 DEF Created, CreateFails, Restored, RestoreFails, chatBelow, streams, daemon, engine
  <1>7. CASE Decisions \/ ModeSettled \/ CommandDone
    BY <1>7 DEF Decisions, DecisionServed, DecisionDone, DecisionLost, Dismiss, ModeSettled, CommandDone,
                streams, daemon, engine
  <1>8. CASE \E t \in Turns : Turn(t)
    <2>1. PICK t \in Turns : Turn(t)
      BY <1>8
    <2> QED
      BY <2>1 DEF Turn, TurnBegins, AskPermission, TurnEnds, ToolResult, Orphaned, Terminal,
                  StreamEnd, StreamLost, streams, daemon, engine
  <1> QED
    BY <1>1, <1>2, <1>3, <1>4, <1>5, <1>6, <1>7, <1>8 DEF ChatNext, Answers, Decisions

\* A spare session is one that is not yet born.
LEMMA SpareSession == Spare => born # Fresh
  <1> DEFINE Nameless == {t \in Turns : turn[t] = "sent" /\ on[t] = None}
  <1>1. IsFiniteSet(Turns)
    BY ConstantsAssumption, FS_Interval DEF Turns
  <1>2. IsFiniteSet(Nameless)
    BY <1>1, FS_Subset
  <1>3. Cardinality(Nameless) \in Nat
    BY <1>2, FS_CardinalityType
  <1>4. born = Fresh => Cardinality(Fresh \ born) = 0
    <2> SUFFICES ASSUME born = Fresh PROVE Cardinality(Fresh \ born) = 0
      OBVIOUS
    <2>1. Fresh \ born = {}
      OBVIOUS
    <2> QED
      BY <2>1, FS_EmptySet
  <1> QED
    BY <1>3, <1>4 DEF Spare

LEMMA StepLocated == Placed /\ [ChatNext]_chatVars => Located'
  <1> SUFFICES ASSUME Shapes, Located, [ChatNext]_chatVars PROVE Located'
    BY DEF Placed
  <1> USE LocatedKept DEF located
  <1>1. CASE UNCHANGED chatVars
    BY <1>1 DEF chatVars, app, refs, streams, daemon, server, engine
  \* App
  <1>2. CASE \E s \in Sessions : Pick(s)
    <2>1. PICK s \in Sessions : Pick(s)
      BY <1>2
    <2>2. /\ ~due /\ Show(s) /\ s \in Known
          /\ UNCHANGED <<born, restoring, view, reqId, stream, sgen, loads, on>>
      BY <2>1 DEF Pick, Act, Settled, Known, chatBelow, refs, streams, daemon, server, engine
    <2> QED
      BY <2>2, ShowLocated DEF Located, Exists, Known
  <1>3. CASE New \/ Delete
    <2>1. /\ ~due /\ Show(None)
          /\ UNCHANGED <<born, restoring, view, reqId, stream, sgen, loads, on>>
      BY <1>3 DEF New, Delete, Act, Settled, chatBelow, refs, streams, daemon, server, engine
    <2> QED
      BY <2>1, ShowLocated DEF Located, Exists, Known
  <1>4. CASE Created
    <2>1. /\ ~due /\ Show(NextFresh) /\ born # Fresh /\ born' = born \cup {NextFresh}
          /\ UNCHANGED <<restoring, view, reqId, stream, sgen, loads, on>>
      BY <1>4, SpareSession DEF Created, chatBelow, refs, streams, engine
    <2>2. NextFresh \in Fresh
      BY <2>1 DEF NextFresh, Located, Exists
    <2> QED
      BY <2>1, <2>2, ShowLocated DEF Located, Exists, Known
  <1>5. CASE Restored
    <2>1. /\ ~due /\ Show(restoring) /\ restoring # None /\ restoring' = None
          /\ UNCHANGED <<born, view, reqId, stream, sgen, loads, on>>
      BY <1>5 DEF Restored, chatBelow, refs, streams, daemon, server, engine
    <2> QED
      BY <2>1, ShowLocated DEF Located, Exists, Known
  <1>6. CASE CreateFails \/ RestoreFails
    <2>1. /\ restoring' \in {restoring, None}
          /\ UNCHANGED <<shown, due, view, gen, reqId, stream, sgen, loads, born, on>>
      BY <1>6 DEF CreateFails, RestoreFails, chatBelow, refs, streams, daemon, server, engine
    <2> QED
      BY <2>1 DEF Located, Exists, Known, Generations, ChecksView, CurrentHere, Current, Reads
  <1>7. CASE Reload
    <2>1. /\ restoring' = shown /\ shown' = None /\ due' = FALSE /\ view' = None
          /\ gen' = gen + 1 /\ loads' = {} /\ UNCHANGED <<sgen, born, on>>
      BY <1>7 DEF Reload, daemon, server, engine
    <2>2. \A t \in Turns : ~Reads(t)'
      BY <1>7 DEF Reload, Reads
    <2>3. Exists'
      BY <2>1 DEF Located, Exists, Known
    <2>4. gen' \in Nat /\ \A t \in Turns : sgen'[t] \in Nat /\ sgen'[t] <= gen'
      BY <2>1 DEF Located, Generations
    <2>5. due' \in BOOLEAN /\ ~due'
      BY <2>1
    <2>6. Generations'
      BY <2>1, <2>4, <2>5 DEF Generations
    <2> QED
      BY <2>1, <2>2, <2>3, <2>6 DEF Located, ChecksView, CurrentHere, Current
  \* Chat
  <1>8. CASE SwitchEffect
    <2>1. /\ due /\ due' = FALSE /\ view' = shown /\ reqId' = shown
          /\ UNCHANGED <<shown, restoring, gen, sgen, born, on>>
          /\ loads' = IF shown = None THEN loads
                      ELSE loads \cup {[ses |-> shown, gen |-> gen, ans |-> "wait"]}
      BY <1>8 DEF SwitchEffect, daemon, server, engine
    <2>2. \A t \in Turns : Reads(t)' => Reads(t)
      <3>1. CASE reader = None
        BY <1>8, <3>1 DEF SwitchEffect, Reads
      <3>2. CASE reader # None
        BY <1>8, <3>2 DEF SwitchEffect, Reads, Shapes
      <3> QED
        BY <3>1, <3>2
    <2>3. Exists'
      BY <2>1 DEF Located, Exists, Known
    <2>4. shown # None => shown \in Sessions
      BY DEF Located, Exists, Known, Sessions
    <2>5. /\ \A l \in loads' : l.ses \in Sessions /\ l.gen \in Nat /\ l.gen <= gen
          /\ \A l \in loads' : l.gen = gen => l.ses = view'
      <3>1. CASE shown = None
        BY <2>1, <3>1 DEF Located, Generations
      <3>2. CASE shown # None
        BY <2>1, <2>4, <3>2 DEF Located, Generations
      <3> QED
        BY <3>1, <3>2
    <2>6. Generations' /\ ChecksView'
      BY <2>1, <2>5 DEF Located, Generations, ChecksView
    <2>7. CurrentHere'
      BY <2>1, <2>2 DEF Located, Generations, CurrentHere, Current
    <2> QED
      BY <2>3, <2>6, <2>7 DEF Located
  <1>9. CASE \E l \in loads : LoadServed(l)
    <2>1. PICK l \in loads : LoadServed(l)
      BY <1>9
    <2>2. /\ UNCHANGED <<shown, restoring, due, view, gen, reqId, stream, sgen, born, on>>
          /\ \A k \in loads' : \E o \in loads : k.ses = o.ses /\ k.gen = o.gen
      <3>1. PICK ans \in {"active", "early", "idle"} :
                loads' = (loads \ {l}) \cup {[l EXCEPT !.ans = ans]}
        BY <2>1 DEF LoadServed
      <3>2. [l EXCEPT !.ans = ans].ses = l.ses /\ [l EXCEPT !.ans = ans].gen = l.gen
        OBVIOUS
      <3> QED
        BY <2>1, <3>1, <3>2 DEF LoadServed, app, refs, streams, daemon, server, engine
    <2> QED
      BY <2>2 DEF Located, Exists, Known, Generations, ChecksView, CurrentHere, Current, Reads
  <1>10. CASE \E l \in loads : LoadApplied(l) \/ LoadFails(l)
    <2>1. PICK l \in loads : LoadApplied(l) \/ LoadFails(l)
      BY <1>10
    <2>2. /\ loads' \subseteq loads /\ reqId' \in {reqId, l.ses, None}
          /\ UNCHANGED <<shown, restoring, due, view, gen, stream, sgen, born, on>>
      BY <2>1 DEF LoadApplied, LoadFails, app, streams, daemon, server, engine
    <2>3. \A t \in Turns : Current(t)' => Current(t)
      BY <2>2, ConstantsAssumption DEF Located, Generations, Current, Reads
    <2> QED
      BY <2>2, <2>3 DEF Located, Exists, Known, Generations, ChecksView, CurrentHere, Reads
  <1>11. CASE \E p \in stops : StopServed(p) \/ StopOk(p) \/ StopFails(p)
    <2>1. PICK p \in stops : StopServed(p) \/ StopOk(p) \/ StopFails(p)
      BY <1>11
    <2>2. /\ reqId' \in {reqId, None}
          /\ UNCHANGED <<shown, restoring, due, view, gen, stream, sgen, loads, born, on>>
      BY <2>1 DEF StopServed, StopOk, StopFails, app, refs, streams, daemon, server, engine
    <2>3. \A t \in Turns : Current(t)' => Current(t)
      BY <2>2, ConstantsAssumption DEF Current, Reads
    <2> QED
      BY <2>2, <2>3 DEF Located, Exists, Known, Generations, ChecksView, CurrentHere, Reads
  <1>12. CASE \E t \in Turns : Send(t) \/ Drain(t)
    <2>1. PICK t \in Turns : ~due /\ Deliver(t)
      BY <1>12 DEF Send, Drain, MayType, Settled
    <2> QED
      BY <2>1, SendLocated
  \* the turns
  <1>13. CASE \E t \in Turns : Terminal(t)
    <2>1. PICK t \in Turns : Terminal(t)
      BY <1>13
    <2>2. /\ UNCHANGED <<restoring, due, gen, reqId, sgen, loads, born, on>>
          /\ \A u \in Turns : Reads(u)' => Reads(u)
          /\ \A u \in Turns : Current(u)' => Current(u)
      BY <2>1 DEF Terminal, Reads, Current, Shapes, server
    <2>3. CASE UNCHANGED <<view, shown>>
      BY <2>2, <2>3 DEF Located, Exists, Known, Generations, ChecksView, CurrentHere
    <2>4. CASE ~UNCHANGED <<view, shown>>
      <3>1. Current(t) /\ view' = on[t] /\ shown' = on[t]
        BY <2>1, <2>4 DEF Terminal
      <3>2. ~due /\ view = shown /\ shown \in {None, on[t]}
        BY <3>1 DEF Located, CurrentHere, Generations, Current
      <3>3. \A u \in Turns : Current(u)' => u = t
        BY <2>2, <3>1 DEF Current
      <3>4. \A l \in loads : l.gen # gen
        <4>1. None \notin Sessions
          BY ConstantsAssumption
        <4>2. view = None
          BY <2>4, <3>1, <3>2
        <4> QED
          BY <4>1, <4>2 DEF Located, Generations, ChecksView
      <3> QED
        BY <2>2, <3>1, <3>2, <3>3, <3>4
           DEF Located, Exists, Known, Generations, ChecksView, CurrentHere
    <2> QED
      BY <2>3, <2>4
  <1>14. CASE \E t \in Turns : StreamEnd(t) \/ StreamLost(t)
    <2>1. PICK t \in Turns : StreamEnd(t) \/ StreamLost(t)
      BY <1>14
    <2>2. /\ UNCHANGED <<shown, restoring, due, view, gen, sgen, loads, born, on>>
          /\ reqId' \in {reqId, None} /\ \A u \in Turns : Reads(u)' => Reads(u)
      BY <2>1 DEF StreamEnd, StreamLost, AliasAfter, Reads, Shapes, app, daemon, server, engine
    <2>3. \A u \in Turns : Current(u)' => Current(u)
      BY <2>2, ConstantsAssumption DEF Current
    <2> QED
      BY <2>2, <2>3 DEF Located, Exists, Known, Generations, ChecksView, CurrentHere
  <1>15. CASE \E t \in Turns : AskPermission(t) \/ TurnEnds(t) \/ ToolResult(t) \/ Orphaned(t)
    <2>1. PICK t \in Turns : AskPermission(t) \/ TurnEnds(t) \/ ToolResult(t) \/ Orphaned(t)
      BY <1>15
    <2>2. UNCHANGED <<app, refs, gen, streams, loads, on, born>>
      BY <2>1 DEF AskPermission, TurnEnds, ToolResult, Orphaned, daemon, server, engine
    <2> QED
      BY <2>2 DEF app, refs, streams
  \* nothing of this is touched
  <1>16. CASE \/ Stop \/ Decide \/ BeginMode \/ Enqueue \/ RefuseSend \/ Unqueue
              \/ \E kind \in {"compact", "undo", "info"} : Command(kind)
    BY <1>16 DEF Stop, Decide, BeginMode, Enqueue, RefuseSend, Unqueue, Command, app, refs,
                 streams, daemon, server, engine
  <1>17. CASE Decisions \/ ModeSettled \/ CommandDone
    BY <1>17 DEF Decisions, DecisionServed, DecisionDone, DecisionLost, Dismiss, ModeSettled,
                 CommandDone, app, refs, streams, daemon, server, engine
  <1>18. CASE \E t \in Turns : TurnBegins(t)
    BY <1>18, BeginLocated
  <1> QED
    BY <1>1, <1>2, <1>3, <1>4, <1>5, <1>6, <1>7, <1>8, <1>9, <1>10, <1>11, <1>12, <1>13,
       <1>14, <1>15, <1>16, <1>17, <1>18 DEF ChatNext, User, Effects, Answers, Turn, Decisions

LEMMA StepHoused == Placed /\ [ChatNext]_chatVars => Housed'
  <1> SUFFICES ASSUME Shapes, Located, Housed, [ChatNext]_chatVars PROVE Housed'
    BY DEF Placed
  <1> USE DEF Housed
  <1>1. ASSUME on' = on, \A t \in Turns : Active(t)' => Active(t) PROVE Housed'
    BY <1>1
  <1>2. ASSUME turn' = turn, on' = on PROVE Housed'
    BY <1>2 DEF Active
  <1>3. CASE UNCHANGED chatVars
    BY <1>2, <1>3 DEF chatVars, daemon, engine
  <1>4. CASE \/ \E s \in Sessions : Pick(s)
             \/ New \/ Delete \/ Reload \/ Stop \/ Decide \/ BeginMode
             \/ Enqueue \/ RefuseSend \/ Unqueue
             \/ \E kind \in {"compact", "undo", "info"} : Command(kind)
    BY <1>2, <1>4 DEF Pick, New, Delete, Reload, Stop, Decide, BeginMode, Enqueue, RefuseSend,
                      Unqueue, Command, daemon, engine
  <1>5. CASE \/ SwitchEffect \/ Created \/ CreateFails \/ Restored \/ RestoreFails
             \/ ModeSettled \/ CommandDone
             \/ \E l \in loads : LoadServed(l) \/ LoadApplied(l) \/ LoadFails(l)
    BY <1>2, <1>5 DEF SwitchEffect, Created, CreateFails, Restored, RestoreFails, ModeSettled,
                      CommandDone, LoadServed, LoadApplied, LoadFails, daemon, engine
  <1>6. CASE \E t \in Turns : Send(t) \/ Drain(t)
    BY <1>6 DEF Send, Drain, Deliver, Shapes, Active
  <1>7. CASE \E p \in stops : StopServed(p) \/ StopOk(p) \/ StopFails(p)
    <2>1. PICK p \in stops : StopServed(p) \/ StopOk(p) \/ StopFails(p)
      BY <1>7
    <2> QED
      BY <1>1, <2>1 DEF StopServed, StopOk, StopFails, Active, daemon, engine
  <1>8. CASE Decisions
    <2>1. PICK d \in deciding : DecisionServed(d) \/ DecisionDone(d) \/ DecisionLost(d)
      BY <1>8 DEF Decisions
    <2> QED
      BY <1>1, <2>1 DEF DecisionServed, DecisionDone, DecisionLost, Dismiss, Active, daemon, engine
  <1>9. CASE \E t \in Turns : TurnBegins(t)
    <2>1. PICK t \in Turns : TurnBegins(t)
      BY <1>9
    <2>2. on'[t] # None
      BY <2>1, BeginsOn, ConstantsAssumption DEF Located, Sessions
    <2>3. \A u \in Turns : u # t => on'[u] = on[u] /\ (Active(u)' => Active(u))
      BY <2>1, BeginsOn DEF Located, TurnBegins, Shapes, Active
    <2> QED
      BY <2>2, <2>3
  <1>10. CASE \E t \in Turns : Turn(t) /\ ~TurnBegins(t)
    <2>1. PICK t \in Turns : Turn(t) /\ ~TurnBegins(t)
      BY <1>10
    <2> QED
      BY <1>1, <2>1 DEF Turn, AskPermission, TurnEnds, ToolResult, Orphaned, Terminal, StreamEnd,
                        StreamLost, Active, Underway, Shapes, daemon, engine
  <1> QED
    BY <1>3, <1>4, <1>5, <1>6, <1>7, <1>8, <1>9, <1>10
       DEF ChatNext, User, Effects, Answers, Decisions

LEMMA StepPlaced == Placed /\ [ChatNext]_chatVars => Placed'
  BY StepShapes, StepLocated, StepHoused DEF Placed

----------------------------------------------------------------------------
\* The user's pick

LEMMA StepPicked == Placed /\ Picked /\ [ChatNext]_chatVars => Picked'
  <1> SUFFICES ASSUME Placed, Picked, [ChatNext]_chatVars PROVE Picked'
    OBVIOUS
  <1> USE DEF Picked
  <1>1. ASSUME UNCHANGED <<shown, chosen>> PROVE Picked'
    BY <1>1
  <1>2. CASE \E s \in Sessions : Pick(s)
    BY <1>2, ConstantsAssumption DEF Pick, Show
  <1>3. CASE New \/ Created \/ Delete \/ Reload \/ Restored
    BY <1>3 DEF New, Created, Delete, Reload, Restored
  <1>4. CASE \E t \in Turns : Terminal(t)
    <2>1. PICK t \in Turns : Terminal(t)
      BY <1>4
    <2>2. chosen' = chosen /\ (shown' = shown \/ (Current(t) /\ shown' = on[t]))
      BY <2>1 DEF Terminal
    <2> QED
      BY <2>2 DEF Placed, Located, CurrentHere
  <1>5. CASE \E t \in Turns : Turn(t) /\ ~Terminal(t)
    BY <1>1, <1>5 DEF Turn, TurnBegins, AskPermission, TurnEnds, ToolResult, Orphaned, StreamEnd,
                      StreamLost, app
  <1>6. CASE Effects
    BY <1>1, <1>6 DEF Effects, SwitchEffect, Drain, Deliver, app
  <1>7. CASE \/ \E t \in Turns : Send(t)
             \/ Stop \/ Decide \/ BeginMode \/ Enqueue \/ RefuseSend \/ Unqueue
             \/ \E kind \in {"compact", "undo", "info"} : Command(kind)
    BY <1>1, <1>7 DEF Send, Deliver, Stop, Decide, BeginMode, Enqueue, RefuseSend, Unqueue,
                      Command, app
  <1>8. CASE \/ CreateFails \/ RestoreFails
             \/ \E l \in loads : LoadServed(l) \/ LoadApplied(l) \/ LoadFails(l)
             \/ \E p \in stops : StopServed(p) \/ StopOk(p) \/ StopFails(p)
    BY <1>1, <1>8 DEF CreateFails, RestoreFails, LoadServed, LoadApplied, LoadFails, StopServed,
                      StopOk, StopFails, app
  <1>9. CASE Decisions \/ ModeSettled \/ CommandDone
    BY <1>1, <1>9 DEF Decisions, DecisionServed, DecisionDone, DecisionLost, Dismiss, ModeSettled,
                      CommandDone, app
  <1>10. CASE UNCHANGED chatVars
    BY <1>1, <1>10 DEF chatVars, app
  <1> QED
    BY <1>2, <1>3, <1>4, <1>5, <1>6, <1>7, <1>8, <1>9, <1>10
       DEF ChatNext, User, Answers, Decisions

LEMMA InitPlaced == ChatInit => Placed /\ Picked
  <1>1. ChatInit => Shapes
    BY DEF ChatInit, Shapes
  <1>2. ChatInit => Picked
    BY DEF ChatInit, Picked
  <1>3. ChatInit => Housed
    BY ConstantsAssumption DEF ChatInit, Housed, Sessions
  <1> QED
    BY <1>1, <1>2, <1>3, InitLocated DEF Placed

\* No event of an abandoned turn takes the view away from the session the
\* user picked, whatever arrives late.
THEOREM PicksStand == ChatSpec => []PickStands
  <1>1. Placed /\ Picked => PickStands
    BY DEF Picked, PickStands
  <1>2. Placed /\ Picked /\ [ChatNext]_chatVars => (Placed /\ Picked)'
    BY StepPlaced, StepPicked
  <1> QED
    BY <1>1, <1>2, InitPlaced, PTL DEF ChatSpec

----------------------------------------------------------------------------
\* Compaction

\* The queue, the locks and the command that compacts.
QueueInv == LockedEmpty /\ CompactsEmpty

LEMMA StepQueue == QueueInv /\ [ChatNext]_chatVars => QueueInv'
  <1> SUFFICES ASSUME QueueInv, [ChatNext]_chatVars PROVE QueueInv'
    OBVIOUS
  <1> USE DEF QueueInv, LockedEmpty, CompactsEmpty, AllowSend
  <1>1. ASSUME cmd' = cmd, queue' = <<>> PROVE QueueInv'
    BY <1>1 DEF Compacting
  <1>2. ASSUME cmd' = cmd \/ cmd' = None, queue' = queue, recovery' \in {recovery, "ready"}
        PROVE  QueueInv'
    BY <1>2 DEF Compacting
  <1>3. CASE \/ \E s \in Sessions : Pick(s)
             \/ New \/ Delete \/ Created \/ CreateFails \/ Restored \/ RestoreFails
    BY <1>2, <1>3 DEF Pick, New, Delete, Created, CreateFails, Restored, RestoreFails, chatBelow,
                      gate, inputs
  <1>4. CASE Reload
    BY <1>4 DEF Reload, Compacting
  <1>5. CASE SwitchEffect
    BY <1>1, <1>5 DEF SwitchEffect, inputs
  <1>6. CASE \E t \in Turns : Send(t) \/ Drain(t)
    <2>1. PICK t \in Turns : Send(t) \/ Drain(t)
      BY <1>6
    <2>2. cmd' = cmd /\ recovery' = recovery
      BY <2>1 DEF Send, Drain, Deliver, inputs
    <2>3. CASE Send(t)
      BY <1>2, <2>2, <2>3 DEF Send
    <2>4. CASE Drain(t)
      BY <2>2, <2>4 DEF Drain, DrainDue, Compacting
    <2> QED
      BY <2>1, <2>3, <2>4
  <1>7. CASE Enqueue
    BY <1>7 DEF Enqueue, MayType, Compacting, inputs
  <1>8. CASE Unqueue
    <2>1. queue # <<>> /\ cmd' = cmd /\ recovery' = recovery
      BY <1>8 DEF Unqueue, inputs
    <2> QED
      BY <2>1 DEF Compacting
  <1>9. CASE RefuseSend \/ Stop \/ Decide \/ BeginMode
    BY <1>2, <1>9 DEF RefuseSend, Stop, Decide, BeginMode, gate, inputs
  <1>10. CASE \E kind \in {"compact", "undo", "info"} : Command(kind)
    <2>1. PICK kind \in {"compact", "undo", "info"} : Command(kind)
      BY <1>10
    <2>2. UNCHANGED <<recovery, queue, busy>> /\ cmd'.kind = kind
      BY <2>1 DEF Command, gate
    <2>3. kind # "info" => queue = <<>>
      BY <2>1 DEF Command, MayType, Settled, DrainDue
    <2> QED
      BY <2>2, <2>3 DEF Compacting
  <1>11. CASE \E l \in loads : LoadServed(l) \/ LoadApplied(l) \/ LoadFails(l)
    <2>1. PICK l \in loads : LoadServed(l) \/ LoadApplied(l) \/ LoadFails(l)
      BY <1>11
    <2>2. cmd' = cmd /\ (queue' = <<>> \/ (queue' = queue /\ recovery' \in {recovery, "ready"}))
      BY <2>1 DEF LoadServed, LoadApplied, LoadFails, gate, inputs
    <2> QED
      BY <1>1, <1>2, <2>2
  <1>12. CASE \E p \in stops : StopServed(p) \/ StopOk(p) \/ StopFails(p)
    <2>1. PICK p \in stops : StopServed(p) \/ StopOk(p) \/ StopFails(p)
      BY <1>12
    <2>2. cmd' = cmd /\ (queue' = <<>> \/ (queue' = queue /\ recovery' = recovery))
      BY <2>1 DEF StopServed, StopOk, StopFails, QueueOnLock, gate, inputs
    <2> QED
      BY <1>1, <1>2, <2>2
  <1>13. CASE Decisions \/ ModeSettled \/ CommandDone
    BY <1>2, <1>13 DEF Decisions, DecisionServed, DecisionDone, DecisionLost, Dismiss, ModeSettled,
                       CommandDone, gate, inputs
  <1>14. CASE \E t \in Turns : Turn(t)
    <2>1. PICK t \in Turns : Turn(t)
      BY <1>14
    <2>2. CASE Terminal(t)
      <3>1. /\ cmd' = cmd /\ queue' \in {queue, <<>>}
            /\ recovery' \in {recovery, "ready"}
        BY <2>2 DEF Terminal, QueueAfter, gate, inputs
      <3> QED
        BY <1>1, <1>2, <3>1
    <2>3. CASE ~Terminal(t)
      <3>1. cmd' = cmd /\ (queue' = <<>> \/ (queue' = queue /\ recovery' = recovery))
        BY <2>1, <2>3 DEF Turn, TurnBegins, AskPermission, TurnEnds, ToolResult, Orphaned,
                          StreamEnd, StreamLost, QueueOnLock, gate, inputs
      <3> QED
        BY <1>1, <1>2, <3>1
    <2> QED
      BY <2>2, <2>3
  <1>15. CASE UNCHANGED chatVars
    BY <1>2, <1>15 DEF chatVars, gate, inputs
  <1> QED
    BY <1>3, <1>4, <1>5, <1>6, <1>7, <1>8, <1>9, <1>10, <1>11, <1>12, <1>13, <1>14, <1>15
       DEF ChatNext, User, Effects, Answers, Decisions

\* a reader is of a turn that was sent
ReadersSent ==
    /\ \A t \in Turns : stream[t] # "none" => turn[t] # "new"
    /\ reader # None => reader \in Turns /\ turn[reader] # "new"

\* Only a delivery starts a turn; a turn that was sent stays sent.
LEMMA StepTurns ==
  Shapes /\ ReadersSent /\ [ChatNext]_chatVars =>
      /\ ReadersSent'
      /\ \/ \E t \in Turns : Send(t) \/ Drain(t)
         \/ \A t \in Turns : turn'[t] = "new" <=> turn[t] = "new"
  <1> SUFFICES ASSUME Shapes, ReadersSent, [ChatNext]_chatVars
               PROVE  /\ ReadersSent'
                      /\ \/ \E t \in Turns : Send(t) \/ Drain(t)
                         \/ \A t \in Turns : turn'[t] = "new" <=> turn[t] = "new"
    OBVIOUS
  <1> USE DEF ReadersSent, Shapes
  <1>1. ASSUME UNCHANGED <<turn, stream, reader>>
        PROVE  ReadersSent' /\ \A t \in Turns : turn'[t] = "new" <=> turn[t] = "new"
    BY <1>1
  <1>2. CASE \E t \in Turns : Send(t) \/ Drain(t)
    <2>1. PICK t \in Turns : (Send(t) \/ Drain(t)) /\ Deliver(t)
      BY <1>2 DEF Send, Drain
    <2>2. reader' = t /\ turn'[t] = "sent"
          /\ \A u \in Turns \ {t} : turn'[u] = turn[u] /\ stream'[u] = stream[u]
      BY <2>1 DEF Deliver
    <2> QED
      BY <2>1, <2>2
  <1>3. CASE Reload
    <2>1. /\ turn' = turn /\ reader' = None
          /\ \A t \in Turns : stream[t] = "none" => stream'[t] = "none"
      BY <1>3 DEF Reload, daemon, engine
    <2> QED
      BY <2>1
  <1>4. CASE SwitchEffect
    <2>1. turn' = turn /\ reader' = None
      BY <1>4 DEF SwitchEffect, daemon, engine
    <2>2. CASE reader = None
      BY <1>4, <2>1, <2>2 DEF SwitchEffect
    <2>3. CASE reader # None
      BY <1>4, <2>1, <2>3 DEF SwitchEffect
    <2> QED
      BY <2>2, <2>3
  <1>5. CASE \E p \in stops : StopServed(p)
    <2>1. PICK p \in stops : StopServed(p)
      BY <1>5
    <2>2. UNCHANGED <<stream, reader>> /\ \A t \in Turns : turn'[t] = turn[t] \/ (Active(t) /\ turn'[t] # "new")
      <3>1. PICK stopped \in BOOLEAN :
              turn' = [t \in Turns |-> IF ~stopped \/ ~Names(p, t) THEN turn[t]
                                      ELSE IF stream[t] = "open" THEN "stopped" ELSE "over"]
        BY <2>1 DEF StopServed
      <3>2. UNCHANGED <<stream, reader>>
        BY <2>1 DEF StopServed, streams, refs
      <3> QED
        BY <3>1, <3>2 DEF Names
    <2> QED
      BY <2>2 DEF Active
  <1>6. CASE \E d \in deciding : DecisionServed(d)
    <2>1. UNCHANGED <<stream, reader>> /\ \A t \in Turns : turn'[t] = turn[t] \/ (Active(t) /\ turn'[t] # "new")
      BY <1>6 DEF DecisionServed, streams, refs, Active
    <2> QED
      BY <2>1 DEF Active
  <1>7. CASE \E t \in Turns : TurnBegins(t) \/ AskPermission(t) \/ TurnEnds(t) \/ Orphaned(t)
    <2>1. PICK t \in Turns : TurnBegins(t) \/ AskPermission(t) \/ TurnEnds(t) \/ Orphaned(t)
      BY <1>7
    <2>2. UNCHANGED <<stream, reader>> /\ turn[t] # "new"
      BY <2>1 DEF TurnBegins, AskPermission, TurnEnds, Orphaned, streams, refs, Active, Underway
    <2>3. turn'[t] # "new" /\ \A u \in Turns \ {t} : turn'[u] = turn[u]
      BY <2>1 DEF TurnBegins, AskPermission, TurnEnds, Orphaned
    <2> QED
      BY <2>2, <2>3
  <1>8. CASE \E t \in Turns : Terminal(t)
    <2>1. PICK t \in Turns : Terminal(t)
      BY <1>8
    <2>2. reader' = reader /\ turn[t] # "new"
          /\ \A u \in Turns \ {t} : turn'[u] = turn[u] /\ stream'[u] = stream[u]
      BY <2>1 DEF Terminal
    <2>3. turn'[t] # "new"
      BY <2>1, <2>2 DEF Terminal
    <2> QED
      BY <2>2, <2>3
  <1>9. CASE \E t \in Turns : StreamEnd(t) \/ StreamLost(t)
    <2>1. PICK t \in Turns : StreamEnd(t) \/ StreamLost(t)
      BY <1>9
    <2>2. turn' = turn /\ reader' \in {reader, None} /\ stream[t] # "none"
          /\ stream' = [stream EXCEPT ![t] = "closed"]
      BY <2>1 DEF StreamEnd, StreamLost, Reads, daemon, engine
    <2> QED
      BY <2>2
  <1>10. CASE \E t \in Turns : ToolResult(t)
    BY <1>1, <1>10 DEF ToolResult, refs, streams, daemon, engine
  <1>11. CASE \/ \E s \in Sessions : Pick(s)
              \/ New \/ Delete \/ Created \/ CreateFails \/ Restored \/ RestoreFails
    BY <1>1, <1>11 DEF Pick, New, Delete, Created, CreateFails, Restored, RestoreFails,
                       chatBelow, refs, streams, daemon, engine
  <1>12. CASE \/ Stop \/ Decide \/ BeginMode \/ Enqueue \/ RefuseSend \/ Unqueue
              \/ \E kind \in {"compact", "undo", "info"} : Command(kind)
    BY <1>1, <1>12 DEF Stop, Decide, BeginMode, Enqueue, RefuseSend, Unqueue, Command,
                       refs, streams, daemon, engine
  <1>13. CASE \/ \E l \in loads : LoadServed(l) \/ LoadApplied(l) \/ LoadFails(l)
              \/ \E p \in stops : StopOk(p) \/ StopFails(p)
    BY <1>1, <1>13 DEF LoadServed, LoadApplied, LoadFails, StopOk, StopFails,
                       refs, streams, daemon, engine
  <1>14. CASE (\E d \in deciding : DecisionDone(d) \/ DecisionLost(d)) \/ ModeSettled \/ CommandDone
    BY <1>1, <1>14 DEF DecisionDone, DecisionLost, Dismiss, ModeSettled, CommandDone,
                       refs, streams, daemon, engine
  <1>15. CASE UNCHANGED chatVars
    BY <1>1, <1>15 DEF chatVars, refs, streams, daemon, engine
  <1> QED
    BY <1>2, <1>3, <1>4, <1>5, <1>6, <1>7, <1>8, <1>9, <1>10, <1>11, <1>12, <1>13, <1>14, <1>15
       DEF ChatNext, User, Effects, Answers, Turn

\* No turn starts, typed or queued, while /compact rewrites the session.
THEOREM CompactAlone == ChatSpec => NoTurnDuringCompact
  <1> DEFINE Inv == Shapes /\ ReadersSent /\ QueueInv
  <1>1. ChatInit => Inv
    <2> SUFFICES ASSUME ChatInit PROVE Inv
      OBVIOUS
    <2>1. Shapes
      BY DEF ChatInit, Shapes
    <2>2. reader = None /\ \A t \in Turns : stream[t] = "none"
      BY DEF ChatInit
    <2>3. queue = <<>>
      BY DEF ChatInit
    <2> QED
      BY <2>1, <2>2, <2>3 DEF ReadersSent, QueueInv, LockedEmpty, CompactsEmpty
  <1>2. Inv /\ [ChatNext]_chatVars => Inv'
    BY StepShapes, StepTurns, StepQueue
  <1>3. Inv /\ [ChatNext]_chatVars => [Compacting /\ Compacting' => Sent' = Sent]_chatVars
    <2> SUFFICES ASSUME Inv, ChatNext, Compacting PROVE Sent' = Sent
      BY DEF Sent, chatVars, daemon, engine
    <2>1. \A t \in Turns : ~Send(t) /\ ~Drain(t)
      BY DEF Send, Drain, MayType, DrainDue, QueueInv, CompactsEmpty
    <2> QED
      BY <2>1, StepTurns DEF Sent
  <1> QED
    BY <1>1, <1>2, <1>3, PTL DEF ChatSpec, NoTurnDuringCompact

----------------------------------------------------------------------------
\* One turn on a session

Sole == Alone /\ Marked /\ IdleTrue /\ CurrentAlone /\ ReadyWatches

LEMMA InitSound == ChatInit => Sound
  <1> SUFFICES ASSUME ChatInit PROVE Sole
    BY DEF Sole, Sound
  <1>1. /\ loads = {} /\ view = None /\ \A t \in Turns : stream[t] = "none"
        /\ \A t \in Turns : Underway(t) => t = 0
    BY DEF ChatInit, Active, Underway
  <1>2. Marked
    <2>1. PICK s \in Saved : /\ on = [t \in Turns |-> s]
                            /\ marked = IF turn[0] = "running" THEN {s} ELSE {}
      BY DEF ChatInit
    <2>2. Active(0) => turn[0] = "running"
      BY ConstantsAssumption DEF ChatInit, Active, Turns
    <2> QED
      BY <1>1, <2>1, <2>2 DEF Marked, Underway
  <1>3. Alone /\ IdleTrue /\ CurrentAlone /\ ReadyWatches
    BY <1>1 DEF Alone, IdleTrue, CurrentAlone, Current, Reads, ReadyWatches
  <1> QED
    BY <1>2, <1>3 DEF Sole

\* the view moves on: what it knew no longer counts
LEMMA ShowSole ==
  ASSUME Located, Sole, ~due, NEW s, Show(s),
         UNCHANGED <<turn, on, marked, loads, sgen, reqId, stream, busy, view, recovery>>
  PROVE  Sole'
  <1> USE DEF Sole
  <1>1. Alone' /\ Marked'
    BY DEF Alone, Marked, Active, Underway
  <1>2. CASE s = view
    <2>1. gen' = gen
      BY <1>2 DEF Show
    <2> QED
      BY <1>1, <2>1 DEF IdleTrue, CurrentAlone, ReadyWatches, Current, Reads, Active, Underway,
                        Watched
  <1>3. CASE s # view
    <2>1. gen' = gen + 1 /\ due'
      BY <1>3 DEF Show
    <2>2. /\ \A t \in Turns : sgen'[t] # gen'
          /\ \A l \in loads' : l.gen # gen'
      BY <2>1 DEF Located, Generations
    <2> QED
      BY <1>1, <2>1, <2>2 DEF IdleTrue, CurrentAlone, ReadyWatches, Current
  <1> QED
    BY <1>2, <1>3

\* A delivery finds no turn on its session.
LEMMA Free ==
  ASSUME Located, Shapes, Sole, ~due, AllowSend, ~busy, NEW t \in Turns, Deliver(t)
  PROVE  on'[t] # None => \A u \in Turns : Underway(u) => on[u] # on'[t]
  <1>1. on'[t] = shown /\ view = shown
    BY DEF Deliver, Shapes, Located, Generations
  <1> QED
    BY <1>1 DEF Sole, ReadyWatches, AllowSend, Watched

LEMMA SendSole ==
  ASSUME Located, Shapes, Sole, ~due, AllowSend, ~busy, NEW t \in Turns, Deliver(t)
  PROVE  Sole'
  <1>1. on'[t] # None => \A u \in Turns : Underway(u) => on[u] # on'[t]
    BY Free
  <1>2. /\ t # 0 /\ busy' /\ reqId' = t
        /\ UNCHANGED <<due, view, gen, recovery, loads, shown, marked>>
        /\ stream'[t] = "open" /\ sgen'[t] = gen /\ turn'[t] = "sent"
        /\ \A u \in Turns \ {t} : /\ turn'[u] = turn[u] /\ on'[u] = on[u]
                                  /\ stream'[u] = stream[u] /\ sgen'[u] = sgen[u]
    BY DEF Deliver, Shapes, app, server
  <1>3. \A u \in Turns : /\ Active(u)' => Active(u) /\ on'[u] = on[u]
                         /\ Underway(u)' => u = t \/ (Underway(u) /\ on'[u] = on[u])
    BY <1>2 DEF Active, Underway
  <1>4. Alone'
    BY <1>1, <1>3 DEF Sole, Alone
  <1>5. Marked'
    BY <1>2, <1>3 DEF Sole, Marked
  <1>6. IdleTrue'
    BY <1>2, <1>3 DEF Sole, IdleTrue
  <1>7. CurrentAlone'
    BY <1>1, <1>2, <1>3 DEF CurrentAlone, Current
  <1>8. ReadyWatches'
    <2>1. view # None => on'[t] = view
      BY DEF Located, Generations, Deliver, Shapes
    <2> QED
      BY <1>1, <1>2, <1>3, <2>1 DEF ReadyWatches, Watched
  <1> QED
    BY <1>4, <1>5, <1>6, <1>7, <1>8 DEF Sole

\* A turn that begins was under way on its session, or is alone on a new one.
LEMMA BeginSole ==
  ASSUME Located, Shapes, Sole, NEW t \in Turns, TurnBegins(t) PROVE Sole'
  <1>1. /\ UNCHANGED <<due, view, gen, recovery, loads, busy, reqId, stream, sgen>>
        /\ marked' = marked \cup {on'[t]} /\ turn[t] = "sent" /\ turn'[t] = "running"
        /\ \A u \in Turns \ {t} : turn'[u] = turn[u]
    BY DEF TurnBegins, Shapes, app, refs, gate, streams
  <1>2. \A u \in Turns : /\ Active(u)' => u = t \/ Active(u)
                         /\ Underway(u)' => Underway(u)
    BY <1>1 DEF Active, Underway
  <1>3. /\ \A u \in Turns \ {t} : on'[u] = on[u]
        /\ on[t] # None => on'[t] = on[t]
        /\ on[t] = None => on'[t] \notin Known \cup {None}
    BY BeginsOn, ConstantsAssumption DEF Located, Known, Sessions
  <1>4. view \in Known \cup {None} /\ \A u \in Turns : on[u] \in Known \cup {None}
    BY DEF Located, Exists
  <1>5. \A l \in loads : l.gen = gen => l.ses = view /\ l.ses \in Sessions
    BY DEF Located, ChecksView, Generations
  <1>6. Alone'
    BY <1>2, <1>3, <1>4 DEF Sole, Alone
  <1>7. Marked'
    BY <1>1, <1>2, <1>3 DEF Sole, Marked
  <1>8. IdleTrue'
    BY <1>1, <1>2, <1>3, <1>4, <1>5 DEF Sole, IdleTrue
  <1>9. CurrentAlone'
    BY <1>1, <1>2, <1>3, <1>4 DEF Sole, CurrentAlone, Current, Reads
  <1>10. ReadyWatches'
    BY <1>1, <1>2, <1>3, <1>4 DEF Sole, ReadyWatches, Watched
  <1> QED
    BY <1>6, <1>7, <1>8, <1>9, <1>10 DEF Sole

\* The promise is waived by a late answer only, which touches no turn.
LEMMA StepWaived ==
  Shapes /\ [ChatNext]_chatVars =>
      overtaken' = overtaken \/ (overtaken' = TRUE /\ UNCHANGED <<turn, on>>)
  <1> SUFFICES ASSUME Shapes, [ChatNext]_chatVars, overtaken' # overtaken
               PROVE  overtaken' = TRUE /\ UNCHANGED <<turn, on>>
    OBVIOUS
  <1>1. \/ \E l \in loads : LoadApplied(l) \/ LoadFails(l)
        \/ \E p \in stops : StopOk(p)
        \/ CommandDone
    <2>1. ~User
      BY DEF User, Pick, New, Delete, Reload, Stop, Decide, BeginMode, Send, Deliver,
             Enqueue, RefuseSend, Unqueue, Command, chatBelow
    <2>2. ~Effects
      BY DEF Effects, SwitchEffect, Drain, Deliver
    <2>3. ~(Created \/ CreateFails \/ Restored \/ RestoreFails)
      BY DEF Created, CreateFails, Restored, RestoreFails, chatBelow
    <2>4. ~(Decisions \/ ModeSettled)
      BY DEF Decisions, DecisionServed, DecisionDone, DecisionLost, Dismiss, ModeSettled
    <2>5. /\ ~\E l \in loads : LoadServed(l)
          /\ ~\E p \in stops : StopServed(p) \/ StopFails(p)
      BY DEF LoadServed, StopServed, StopFails
    <2>6. ~\E t \in Turns : Turn(t)
      BY DEF Turn, TurnBegins, AskPermission, TurnEnds, ToolResult, Orphaned, Terminal, StreamEnd,
             StreamLost
    <2> QED
      BY <2>1, <2>2, <2>3, <2>4, <2>5, <2>6 DEF ChatNext, Answers, Decisions, chatVars
  <1>2. UNCHANGED <<turn, on>>
    BY <1>1 DEF LoadApplied, LoadFails, StopOk, CommandDone, daemon, engine
  <1>3. overtaken \in BOOLEAN /\ overtaken' \in BOOLEAN
    BY StepShapes DEF Shapes
  <1>4. ~overtaken
    <2>1. CASE \E l \in loads : LoadApplied(l) \/ LoadFails(l)
      BY <2>1, <1>3 DEF LoadApplied, LoadFails, Overtakes
    <2>2. CASE \E p \in stops : StopOk(p)
      BY <2>2, <1>3 DEF StopOk, StillRuns
    <2>3. CASE CommandDone
      BY <2>3, <1>3 DEF CommandDone
    <2> QED
      BY <1>1, <2>1, <2>2, <2>3
  <1> QED
    BY <1>2, <1>3, <1>4

\* all that Sole speaks of, but for turns that end
sole == <<on, marked, loads, gen, sgen, reqId, stream, busy, due, view, recovery>>

LEMMA SoleKept ==
  ASSUME Sole, UNCHANGED sole,
         \A t \in Turns : (Active(t)' => Active(t)) /\ (Underway(t)' => Underway(t))
  PROVE  Sole'
  <1> USE DEF Sole, sole
  <1>1. Alone' /\ Marked' /\ IdleTrue'
    BY DEF Alone, Marked, IdleTrue
  <1>2. CurrentAlone' /\ ReadyWatches'
    BY DEF CurrentAlone, ReadyWatches, Current, Reads, Watched
  <1> QED
    BY <1>1, <1>2

LEMMA StepSole ==
  ASSUME Shapes, Located, Housed, Sole, ChatNext, ~overtaken'
  PROVE  Sole'
  <1> USE ConstantsAssumption
  \* App
  <1>1. CASE \/ \E s \in Sessions : Pick(s)
             \/ New \/ Delete \/ Created \/ Restored
    <2>1. /\ ~due /\ \E s : Show(s)
          /\ UNCHANGED <<turn, on, marked, loads, sgen, reqId, stream, busy, view, recovery>>
      BY <1>1 DEF Pick, New, Delete, Created, Restored, Act, Settled, chatBelow, refs, gate,
                  streams, daemon, server, engine
    <2> QED
      BY <2>1, ShowSole
  <1>2. CASE CreateFails \/ RestoreFails
    <2>1. UNCHANGED <<turn, sole>>
      BY <1>2 DEF CreateFails, RestoreFails, chatBelow, refs, gate, streams, daemon, server,
                  engine, sole
    <2> QED
      BY <2>1, SoleKept DEF Active, Underway
  <1>3. CASE Reload
    <2>1. /\ loads' = {} /\ view' = None /\ UNCHANGED <<turn, on, marked>>
      BY <1>3 DEF Reload, daemon, server, engine
    <2>2. \A t \in Turns : ~Reads(t)'
      BY <1>3 DEF Reload, Reads
    <2> QED
      BY <2>1, <2>2 DEF Sole, Alone, Marked, IdleTrue, CurrentAlone, Current, ReadyWatches, Active,
                        Underway
  \* Chat
  <1>4. CASE SwitchEffect
    <2>1. /\ view' = shown /\ reqId' = shown /\ recovery' = RecoveryOfSwitch
          /\ UNCHANGED <<turn, on, marked, gen, sgen>>
          /\ loads' = IF shown = None THEN loads
                      ELSE loads \cup {[ses |-> shown, gen |-> gen, ans |-> "wait"]}
      BY <1>4 DEF SwitchEffect, daemon, server, engine
    <2>2. Alone' /\ Marked'
      BY <2>1 DEF Sole, Alone, Marked, Active, Underway
    <2>3. \A l \in loads' : l.ans \notin {"wait", "active", "early"} => l \in loads
      <3>1. CASE shown = None
        BY <2>1, <3>1
      <3>2. CASE shown # None
        BY <2>1, <3>2
      <3> QED
        BY <3>1, <3>2
    <2>4. IdleTrue'
      BY <2>1, <2>3 DEF Sole, IdleTrue, Active, Underway
    <2>5. shown \notin Turns
      BY DEF Located, Exists, Known, Sessions
    <2>6. CurrentAlone'
      BY <2>1, <2>5 DEF CurrentAlone, Current
    <2>7. ReadyWatches'
      BY <2>1 DEF ReadyWatches, RecoveryOfSwitch
    <2> QED
      BY <2>2, <2>4, <2>6, <2>7 DEF Sole
  <1>5. CASE \E l \in loads : LoadServed(l)
    <2>1. PICK l \in loads : LoadServed(l)
      BY <1>5
    <2>2. UNCHANGED <<turn, on, marked, gen, sgen, reqId, stream, busy, due, view, recovery>>
      BY <2>1 DEF LoadServed, app, refs, gate, streams, daemon, server, engine
    <2>3. \A k \in loads' :
            \/ k \in loads \/ k.ans \in {"active", "early"}
            \/ k.ses \notin marked /\ \A t \in Turns : turn[t] = "sent" => on[t] # k.ses
      <3> DEFINE sent == \E t \in Turns : turn[t] = "sent" /\ on[t] = l.ses
                 answer == IF l.ses \in marked THEN "active" ELSE IF sent THEN "early" ELSE "idle"
      <3>1. loads' = (loads \ {l}) \cup {[l EXCEPT !.ans = answer]}
        BY <2>1 DEF LoadServed
      <3>2. l.ans = "wait"
        BY <2>1 DEF LoadServed
      <3>3. [l EXCEPT !.ans = answer].ses = l.ses /\ [l EXCEPT !.ans = answer].ans = answer
        BY <3>2
      <3> HIDE DEF answer
      <3>4. \/ answer \in {"active", "early"}
            \/ l.ses \notin marked /\ \A t \in Turns : turn[t] = "sent" => on[t] # l.ses
        BY DEF answer
      <3> QED
        BY <3>1, <3>3, <3>4
    <2>4. IdleTrue'
      BY <2>2, <2>3 DEF Sole, IdleTrue, Marked, Active, Underway
    <2> QED
      BY <2>2, <2>4 DEF Sole, Alone, Marked, CurrentAlone, Current, Reads, ReadyWatches, Watched,
                        Active, Underway
  <1>6. CASE \E l \in loads : LoadApplied(l) \/ LoadFails(l)
    <2>1. PICK l \in loads : LoadApplied(l) \/ LoadFails(l)
      BY <1>6
    <2>2. /\ loads' \subseteq loads /\ UNCHANGED <<turn, on, marked, gen, sgen, stream, due, view>>
      BY <2>1 DEF LoadApplied, LoadFails, app, streams, daemon, server, engine
    <2>3. Alone' /\ Marked' /\ IdleTrue'
      BY <2>2 DEF Sole, Alone, Marked, IdleTrue, Active, Underway
    <2>4. reqId' = reqId \/ reqId' \notin Turns
      <3>1. reqId' \in {reqId, l.ses, None}
        BY <2>1 DEF LoadApplied, LoadFails
      <3> QED
        BY <3>1 DEF Located, Generations
    <2>5. CurrentAlone'
      BY <2>2, <2>4 DEF Sole, CurrentAlone, Current, Reads, Active, Underway
    <2>6. ReadyWatches'
      <3>1. CASE ~Awaited(l)
        <4>1. UNCHANGED <<reqId, busy, recovery>>
          BY <2>1, <3>1 DEF LoadApplied, LoadFails, gate
        <4> QED
          BY <2>2, <4>1 DEF Sole, ReadyWatches, Watched, Active, Underway
      <3>2. CASE Awaited(l) /\ (LoadFails(l) \/ l.ans = "active")
        BY <2>1, <3>2 DEF LoadApplied, LoadFails, ReadyWatches
      <3>3. CASE Awaited(l) /\ LoadApplied(l) /\ l.ans # "active"
        <4>1. ~Overtakes /\ l.ans \notin {"wait", "active", "early"}
          BY <3>3 DEF LoadApplied
        <4>2. \A t \in Turns : ~(Underway(t) /\ on[t] = view)
          BY <2>1, <3>3, <4>1 DEF Sole, IdleTrue, Awaited, Overtakes, Sent, Active, Underway
        <4> QED
          BY <2>2, <4>2 DEF ReadyWatches, Active, Underway
      <3> QED
        BY <2>1, <3>1, <3>2, <3>3
    <2> QED
      BY <2>3, <2>5, <2>6 DEF Sole
  <1>7. CASE \E p \in stops : StopServed(p)
    <2>1. PICK p \in stops : StopServed(p)
      BY <1>7
    <2>2. UNCHANGED sole
      BY <2>1 DEF StopServed, sole, app, refs, gate, streams, server
    <2>3. \A t \in Turns : (Active(t)' => Active(t)) /\ (Underway(t)' => Underway(t))
      <3>1. PICK stopped \in BOOLEAN :
              turn' = [t \in Turns |-> IF ~stopped \/ ~Names(p, t) THEN turn[t]
                                      ELSE IF stream[t] = "open" THEN "stopped" ELSE "over"]
        BY <2>1 DEF StopServed
      <3> QED
        BY <3>1 DEF Active, Underway, Names
    <2> QED
      BY <2>2, <2>3, SoleKept
  <1>8. CASE \E p \in stops : StopOk(p) \/ StopFails(p)
    <2>1. PICK p \in stops : StopOk(p) \/ StopFails(p)
      BY <1>8
    <2>2. UNCHANGED <<turn, on, marked, loads, gen, sgen, stream, due, view>>
      BY <2>1 DEF StopOk, StopFails, app, refs, streams, daemon, server, engine
    <2>3. reqId' \in {reqId, None}
      BY <2>1 DEF StopOk, StopFails, refs
    <2>4. \/ UNCHANGED <<reqId, busy, recovery>>
          \/ recovery' = "terminal_unknown"
          \/ ~StillRuns
      BY <2>1 DEF StopOk, StopFails, gate, refs
    <2>5. Alone' /\ Marked' /\ IdleTrue'
      BY <2>2 DEF Sole, Alone, Marked, IdleTrue, Active, Underway
    <2>6. CurrentAlone'
      BY <2>2, <2>3 DEF Sole, CurrentAlone, Current, Reads, Active, Underway
    <2>7. ReadyWatches'
      BY <2>2, <2>4 DEF Sole, ReadyWatches, StillRuns, Watched, Active, Underway
    <2> QED
      BY <2>5, <2>6, <2>7 DEF Sole
  <1>9. CASE \E t \in Turns : Send(t) \/ Drain(t)
    <2>1. PICK t \in Turns : ~due /\ AllowSend /\ ~busy /\ Deliver(t)
      BY <1>9 DEF Send, Drain, DrainDue, MayType, Settled
    <2> QED
      BY <2>1, SendSole
  \* the turns
  <1>10. CASE \E t \in Turns : AskPermission(t) \/ ToolResult(t)
    <2>1. PICK t \in Turns : AskPermission(t) \/ ToolResult(t)
      BY <1>10
    <2>2. UNCHANGED sole
      BY <2>1 DEF AskPermission, ToolResult, sole, app, refs, gate, streams, daemon, server, engine
    <2>3. \A u \in Turns : (Active(u)' => Active(u)) /\ (Underway(u)' => Underway(u))
      BY <2>1 DEF AskPermission, ToolResult, Active, Underway, daemon, engine, Shapes
    <2> QED
      BY <2>2, <2>3, SoleKept
  <1>11. CASE \E t \in Turns : TurnEnds(t) \/ Orphaned(t)
    <2>1. PICK t \in Turns : TurnEnds(t) \/ Orphaned(t)
      BY <1>11
    <2>2. /\ UNCHANGED <<on, loads, gen, sgen, reqId, stream, busy, due, view, recovery>>
          /\ marked' = marked \/ (Active(t) /\ marked' = marked \ {on[t]})
      BY <2>1 DEF TurnEnds, Orphaned, Active, app, refs, gate, streams
    <2>3. /\ Underway(t) /\ \A u \in Turns : Underway(u)' => Underway(u) /\ u # t
          /\ \A u \in Turns : (Active(u)' => Active(u) /\ u # t) /\ (Active(u) => Underway(u))
      BY <2>1 DEF TurnEnds, Orphaned, Active, Underway, Shapes
    <2>4. Marked'
      BY <2>2, <2>3 DEF Sole, Marked, Alone, Housed
    <2>5. Alone' /\ IdleTrue' /\ CurrentAlone' /\ ReadyWatches'
      BY <2>2, <2>3 DEF Sole, Alone, IdleTrue, CurrentAlone, Current, Reads, ReadyWatches, Watched
    <2> QED
      BY <2>4, <2>5 DEF Sole
  <1>12. CASE \E t \in Turns : Terminal(t)
    <2>1. PICK t \in Turns : Terminal(t)
      BY <1>12
    <2>2. /\ UNCHANGED <<on, marked, loads, gen, sgen, reqId, due>>
          /\ ~Underway(t) /\ \A u \in Turns : Underway(u)' => Underway(u) /\ u # t
          /\ \A u \in Turns : Active(u)' => Active(u) /\ u # t
          /\ \A u \in Turns : u # t => stream'[u] = stream[u]
          /\ \A u \in Turns : Current(u)' => Current(u)
      BY <2>1 DEF Terminal, Active, Underway, Shapes, server, Current, Reads
    <2>3. Alone' /\ Marked' /\ IdleTrue' /\ CurrentAlone'
      BY <2>2 DEF Sole, Alone, Marked, IdleTrue, CurrentAlone
    <2>4. CASE ~Current(t)
      <3>1. UNCHANGED <<view, busy, recovery>>
        BY <2>1, <2>4 DEF Terminal, gate
      <3>2. ReadyWatches'
        BY <2>2, <3>1 DEF Sole, ReadyWatches, Watched
      <3> QED
        BY <2>3, <3>2 DEF Sole
    <2>5. CASE Current(t)
      <3>1. view' = on[t] \/ view' = view
        BY <2>1, <2>5 DEF Terminal
      <3>2. view # None => on[t] = view
        BY <2>5 DEF Located, CurrentHere, Generations, Current
      <3>3. on[t] # None => \A u \in Turns : Underway(u) => on[u] # on[t]
        BY <2>2, <2>5 DEF Sole, CurrentAlone
      <3>4. ReadyWatches'
        BY <2>2, <3>1, <3>2, <3>3 DEF ReadyWatches
      <3> QED
        BY <2>3, <3>4 DEF Sole
    <2> QED
      BY <2>4, <2>5
  <1>13. CASE \E t \in Turns : StreamEnd(t) \/ StreamLost(t)
    <2>1. PICK t \in Turns : StreamEnd(t) \/ StreamLost(t)
      BY <1>13
    <2>2. /\ UNCHANGED <<turn, on, marked, loads, gen, sgen, due, view>>
          /\ reqId' \in {reqId, None} /\ \A u \in Turns : u # t => stream'[u] = stream[u]
          /\ \A u \in Turns : Reads(u)' => Reads(u)
      BY <2>1 DEF StreamEnd, StreamLost, AliasAfter, Reads, Shapes, app, daemon, server, engine
    <2>3. Alone' /\ Marked' /\ IdleTrue' /\ CurrentAlone'
      BY <2>2 DEF Sole, Alone, Marked, IdleTrue, CurrentAlone, Current, Active, Underway
    <2>4. CASE StreamEnd(t)
      <3>1. UNCHANGED <<busy, recovery>> /\ stream[t] # "open" /\ (reqId # t => reqId' = reqId)
        BY <2>4 DEF StreamEnd, AliasAfter, gate
      <3>2. ReadyWatches'
        BY <2>2, <3>1 DEF Sole, ReadyWatches, Watched, Active, Underway
      <3> QED
        BY <2>3, <3>2 DEF Sole
    <2>5. CASE StreamLost(t) /\ Current(t)
      <3>1. ReadyWatches'
        BY <2>5 DEF StreamLost, ReadyWatches
      <3> QED
        BY <2>3, <3>1 DEF Sole
    <2>6. CASE StreamLost(t) /\ ~Current(t)
      <3>1. UNCHANGED <<busy, recovery, reqId>>
        BY <2>6 DEF StreamLost, gate
      <3>2. ReadyWatches'
        BY <2>2, <2>6, <3>1 DEF Sole, ReadyWatches, Watched, Current, Reads, Active, Underway
      <3> QED
        BY <2>3, <3>2 DEF Sole
    <2> QED
      BY <2>1, <2>4, <2>5, <2>6
  \* nothing of this is touched
  <1>14. CASE \/ Stop \/ Decide \/ BeginMode \/ Enqueue \/ RefuseSend \/ Unqueue
              \/ \E kind \in {"compact", "undo", "info"} : Command(kind)
    <2>1. UNCHANGED <<turn, sole>>
      BY <1>14 DEF Stop, Decide, BeginMode, Enqueue, RefuseSend, Unqueue, Command, sole, app,
                   refs, gate, streams, daemon, server, engine
    <2> QED
      BY <2>1, SoleKept DEF Active, Underway
  <1>15. CASE (\E d \in deciding : DecisionDone(d) \/ DecisionLost(d)) \/ ModeSettled \/ CommandDone
    <2>1. UNCHANGED <<turn, sole>>
      BY <1>15 DEF DecisionDone, DecisionLost, Dismiss, ModeSettled, CommandDone, sole, app,
                   refs, gate, streams, daemon, server, engine
    <2> QED
      BY <2>1, SoleKept DEF Active, Underway
  <1>16. CASE \E d \in deciding : DecisionServed(d)
    <2>1. /\ UNCHANGED sole
          /\ \A t \in Turns : (Active(t)' => Active(t)) /\ (Underway(t)' => Underway(t))
      BY <1>16 DEF DecisionServed, sole, app, refs, gate, streams, server, Active, Underway
    <2> QED
      BY <2>1, SoleKept
  <1>17. CASE \E t \in Turns : TurnBegins(t)
    BY <1>17, BeginSole
  <1> QED
    BY <1>1, <1>2, <1>3, <1>4, <1>5, <1>6, <1>7, <1>8, <1>9, <1>10, <1>11, <1>12, <1>13,
       <1>14, <1>15, <1>16, <1>17 DEF ChatNext, User, Effects, Answers, Turn

LEMMA StepSound == Placed /\ Sound /\ [ChatNext]_chatVars => Sound'
  <1> SUFFICES ASSUME Placed, Sound, [ChatNext]_chatVars, ~overtaken' PROVE Sole'
    BY DEF Sound, Sole
  <1>1. ~overtaken
    BY StepWaived DEF Placed
  <1>2. Sole
    BY <1>1 DEF Sound, Sole
  <1>3. CASE UNCHANGED chatVars
    <2>1. UNCHANGED <<turn, sole>>
      BY <1>3 DEF chatVars, sole, app, refs, gate, streams, daemon, server, engine
    <2> QED
      BY <1>2, <2>1, SoleKept DEF Active, Underway
  <1>4. CASE ChatNext
    BY <1>2, <1>4, StepSole DEF Placed
  <1> QED
    BY <1>3, <1>4

----------------------------------------------------------------------------
\* The tab implements TurnLock

LEMMA RunningKept ==
  ASSUME UNCHANGED overtaken, \A t \in Turns : Active(t)' <=> Active(t),
         \A t \in Turns : Active(t) => on'[t] = on[t]
  PROVE  UNCHANGED T!lockVars
  <1>1. \A s \in Sessions : {t \in Turns : Active(t)' /\ on'[t] = s} = {t \in Turns : Active(t) /\ on[t] = s}
    OBVIOUS
  <1>2. running' = running
    BY <1>1 DEF running
  <1> QED
    BY <1>2 DEF T!lockVars

LEMMA InitLock == ChatInit => T!Init
  <1> SUFFICES ASSUME ChatInit PROVE T!Init
    OBVIOUS
  <1>1. running \in [Sessions -> SUBSET Turns]
    BY DEF running
  <1>2. \A s \in Sessions : \A t, u \in running[s] : t = u
    BY DEF running, ChatInit, Active
  <1>3. overtaken = FALSE
    BY DEF ChatInit
  <1> QED
    BY <1>1, <1>2, <1>3 DEF T!Init

\* A turn that begins is a start on a session that is free.
LEMMA BeginLocks ==
  ASSUME Placed, Sound, NEW t \in Turns, TurnBegins(t)
  PROVE  T!Next
  <1>1. /\ turn[t] = "sent" /\ turn'[t] = "running" /\ overtaken' = overtaken
        /\ \A u \in Turns \ {t} : turn'[u] = turn[u]
    BY DEF TurnBegins, Placed, Shapes
  <1>0. /\ on'[t] \in Known' /\ born' \subseteq Fresh
        /\ on[t] # None => on'[t] = on[t]
        /\ on[t] = None => on'[t] \in Fresh \ born
        /\ \A u \in Turns : u # t => on'[u] = on[u]
    BY BeginsOn DEF Placed, Located
  <1>2. on'[t] \in Sessions
    BY <1>0 DEF Known, Sessions
  <1>3. running[on'[t]] = {} \/ overtaken
    <2> SUFFICES ASSUME ~overtaken PROVE running[on'[t]] = {}
      OBVIOUS
    <2>1. CASE on[t] # None
      <3>1. \A u \in Turns : Underway(u) /\ on[u] = on[t] => u = t
        BY <1>1, <2>1 DEF Sound, Alone, Underway
      <3> QED
        BY <1>0, <1>1, <1>2, <2>1, <3>1 DEF running, Underway, Active
    <2>2. CASE on[t] = None
      <3>1. \A u \in Turns : on[u] # on'[t]
        BY <1>0, <2>2, ConstantsAssumption DEF Placed, Located, Exists, Known, Sessions
      <3> QED
        BY <1>2, <3>1 DEF running
    <2> QED
      BY <2>1, <2>2
  <1>4. running' = [running EXCEPT ![on'[t]] = @ \cup {t}]
    <2>1. ~Active(t) /\ Active(t)' /\ \A u \in Turns \ {t} : Active(u)' <=> Active(u)
      BY <1>1 DEF Active
    <2>2. \A s \in Sessions :
            {u \in Turns : Active(u)' /\ on'[u] = s}
              = IF s = on'[t] THEN {u \in Turns : Active(u) /\ on[u] = s} \cup {t}
                ELSE {u \in Turns : Active(u) /\ on[u] = s}
      BY <1>0, <2>1
    <2> QED
      BY <1>2, <2>2 DEF running
  <1>5. T!Start(on'[t], t)
    BY <1>1, <1>3, <1>4 DEF T!Start
  <1> QED
    BY <1>2, <1>5 DEF T!Next

\* Turns that end on one session are an end there.
LEMMA EndUnlocks ==
  ASSUME UNCHANGED <<on, overtaken>>, NEW s \in Sessions,
         \A t \in Turns : Active(t)' => Active(t),
         \A t \in Turns : Active(t) /\ ~Active(t)' => on[t] = s
  PROVE  T!Next
  <1> DEFINE rest == {t \in Turns : Active(t)' /\ on[t] = s}
  <1>1. rest \in SUBSET running[s]
    BY DEF running
  <1>2. \A r \in Sessions :
          {t \in Turns : Active(t)' /\ on'[t] = r}
            = IF r = s THEN rest ELSE {t \in Turns : Active(t) /\ on[t] = r}
    OBVIOUS
  <1>3. running' = [running EXCEPT ![s] = rest]
    BY <1>2 DEF running
  <1>4. T!End(s)
    BY <1>1, <1>3 DEF T!End
  <1> QED
    BY <1>4 DEF T!Next

LEMMA StepLock == Placed /\ Sound /\ [ChatNext]_chatVars => [T!Next]_(T!lockVars)
  <1> SUFFICES ASSUME Placed, Sound, [ChatNext]_chatVars PROVE [T!Next]_(T!lockVars)
    OBVIOUS
  <1> USE DEF Placed
  <1>1. CASE overtaken' # overtaken
    <2>1. overtaken' = TRUE /\ UNCHANGED <<turn, on>>
      BY <1>1, StepWaived
    <2>2. running' = running
      BY <2>1 DEF running, Active
    <2> QED
      BY <2>1, <2>2 DEF T!Next, T!Waive
  <1>2. CASE overtaken' = overtaken
    <2>1. ASSUME UNCHANGED <<turn, on>> PROVE UNCHANGED T!lockVars
      BY <1>2, <2>1, RunningKept DEF Active
    <2>2. CASE \E t \in Turns : Send(t) \/ Drain(t)
      <3>1. PICK t \in Turns : Deliver(t)
        BY <2>2 DEF Send, Drain
      <3>2. \A u \in Turns : (Active(u)' <=> Active(u)) /\ (Active(u) => on'[u] = on[u])
        BY <3>1 DEF Deliver, Shapes, Active
      <3> QED
        BY <1>2, <3>2, RunningKept
    <2>3. CASE \E t \in Turns : TurnEnds(t) \/ Orphaned(t)
      <3>1. PICK t \in Turns : TurnEnds(t) \/ Orphaned(t)
        BY <2>3
      <3>2. on' = on /\ \A u \in Turns : (Active(u)' => Active(u)) /\ (u # t => turn'[u] = turn[u])
        BY <3>1 DEF TurnEnds, Orphaned, Active, Underway, Shapes
      <3>3. CASE Active(t)
        <4>1. on[t] \in Sessions
          BY <3>3 DEF Housed, Located, Exists, Known, Sessions
        <4> QED
          BY <1>2, <3>2, <4>1, EndUnlocks DEF Active
      <3>4. CASE ~Active(t)
        <4>1. \A u \in Turns : Active(u)' <=> Active(u)
          BY <3>2, <3>4 DEF Active
        <4> QED
          BY <1>2, <3>2, <4>1, RunningKept
      <3> QED
        BY <3>3, <3>4
    <2>4. CASE \E p \in stops : StopServed(p)
      <3>1. PICK p \in stops : StopServed(p)
        BY <2>4
      <3>2. PICK stopped \in BOOLEAN :
              turn' = [t \in Turns |-> IF ~stopped \/ ~Names(p, t) THEN turn[t]
                                      ELSE IF stream[t] = "open" THEN "stopped" ELSE "over"]
        BY <3>1 DEF StopServed
      <3>3. /\ on' = on /\ \A t \in Turns : Active(t)' => Active(t)
            /\ \A t \in Turns : Active(t) /\ ~Active(t)' => p.alias = t \/ p.alias = on[t]
        BY <3>1, <3>2 DEF StopServed, Active, Names
      <3>4. \A t \in Turns : Active(t) => on[t] \in Sessions
        BY DEF Housed, Located, Exists, Known, Sessions
      <3>5. CASE p.alias \in Turns
        <4>1. \A t \in Turns : Active(t) /\ ~Active(t)' => t = p.alias
          BY <3>3, <3>4, <3>5, ConstantsAssumption
        <4>2. CASE Active(p.alias)
          BY <1>2, <3>3, <3>4, <3>5, <4>1, <4>2, EndUnlocks
        <4>3. CASE ~Active(p.alias)
          BY <1>2, <3>3, <3>5, <4>1, <4>3, RunningKept
        <4> QED
          BY <4>2, <4>3
      <3>6. CASE p.alias \in Sessions
        <4>1. \A t \in Turns : Active(t) /\ ~Active(t)' => on[t] = p.alias
          BY <3>3, <3>6, ConstantsAssumption
        <4> QED
          BY <1>2, <3>3, <3>6, <4>1, EndUnlocks
      <3>7. CASE p.alias \notin Turns \cup Sessions
        <4>1. \A t \in Turns : Active(t)' <=> Active(t)
          BY <3>3, <3>4, <3>7
        <4> QED
          BY <1>2, <3>3, <4>1, RunningKept
      <3> QED
        BY <3>5, <3>6, <3>7
    <2>5. CASE \/ \E d \in deciding : DecisionServed(d)
               \/ \E t \in Turns : AskPermission(t) \/ Terminal(t)
      <3>1. on' = on
        BY <2>5 DEF DecisionServed, AskPermission, Terminal
      <3>2. \A t \in Turns : Active(t)' <=> Active(t)
        BY <2>5 DEF DecisionServed, AskPermission, Terminal, Active, Underway, Shapes
      <3> QED
        BY <1>2, <3>1, <3>2, RunningKept
    <2>6. CASE \E t \in Turns : ToolResult(t) \/ StreamEnd(t) \/ StreamLost(t)
      BY <2>1, <2>6 DEF ToolResult, StreamEnd, StreamLost, daemon, engine
    <2>7. CASE \/ \E s \in Sessions : Pick(s)
               \/ New \/ Delete \/ Created \/ CreateFails \/ Restored \/ RestoreFails \/ Reload
      BY <2>1, <2>7 DEF Pick, New, Delete, Created, CreateFails, Restored, RestoreFails, Reload,
                        daemon, engine
    <2>8. CASE \/ Stop \/ Decide \/ BeginMode \/ Enqueue \/ RefuseSend \/ Unqueue
               \/ \E kind \in {"compact", "undo", "info"} : Command(kind)
      BY <2>1, <2>8 DEF Stop, Decide, BeginMode, Enqueue, RefuseSend, Unqueue, Command, daemon,
                        engine
    <2>9. CASE \/ SwitchEffect
               \/ \E l \in loads : LoadServed(l) \/ LoadApplied(l) \/ LoadFails(l)
               \/ \E p \in stops : StopOk(p) \/ StopFails(p)
      BY <2>1, <2>9 DEF SwitchEffect, LoadServed, LoadApplied, LoadFails, StopOk, StopFails,
                        daemon, engine
    <2>10. CASE (\E d \in deciding : DecisionDone(d) \/ DecisionLost(d)) \/ ModeSettled \/ CommandDone
      BY <2>1, <2>10 DEF DecisionDone, DecisionLost, Dismiss, ModeSettled, CommandDone, daemon,
                         engine
    <2>11. CASE UNCHANGED chatVars
      BY <2>1, <2>11 DEF chatVars, daemon, engine
    <2>12. CASE \E t \in Turns : TurnBegins(t)
      BY <2>12, BeginLocks
    <2> QED
      BY <2>2, <2>3, <2>4, <2>5, <2>6, <2>7, <2>8, <2>9, <2>10, <2>11, <2>12
         DEF ChatNext, User, Effects, Answers, Turn
  <1> QED
    BY <1>1, <1>2

\* The tab implements the abstract lock: for any number of sessions, turns
\* and faults it starts no turn on a session where one of its own runs,
\* unless a late answer overtook the view before.
THEOREM ImplementsTurnLock == ChatSpec => OneTurnPerSession
  <1>1. ChatInit => Placed /\ Sound /\ T!Init
    BY InitPlaced, InitSound, InitLock
  <1>2. Placed /\ Sound /\ [ChatNext]_chatVars => (Placed /\ Sound)' /\ [T!Next]_(T!lockVars)
    BY StepPlaced, StepSound, StepLock
  <1> QED
    BY <1>1, <1>2, PTL DEF ChatSpec, OneTurnPerSession, T!Spec

----------------------------------------------------------------------------
(***************************************************************************)
(* Types, by the groups of variables that steps leave alone together.      *)
(***************************************************************************)
AppTypes ==
    /\ shown \in Sessions \cup {None} /\ creating \in BOOLEAN
    /\ restoring \in Sessions \cup {None} /\ due \in BOOLEAN
    /\ chosen \in Sessions \cup {None}
Posts == [call : Calls, up : BOOLEAN, served : BOOLEAN]
CardTypes == pending \in Calls \cup {None} /\ deciding \subseteq Posts /\ lost \subseteq Calls
RefTypes ==
    /\ view \in Sessions \cup {None}
    /\ reqId \in Aliases \cup {None} /\ reader \in (Turns \ {0}) \cup {None}
GateTypes ==
    /\ recovery \in {"ready", "checking", "detached_active", "terminal_unknown"}
    /\ busy \in BOOLEAN /\ queue \in Seq(Turns)
Tails == Turns \cup {Note, Old}
InputTypes ==
    /\ modePending \in BOOLEAN
    /\ cmd \in [kind : {"compact", "undo", "info"}, ses : Sessions \cup {None}] \cup {None}
StreamTypes ==
    stream \in [Turns -> {"none", "open", "told", "closed"}] /\ sgen \in [Turns -> Nat]
FlightTypes == loads \subseteq Loads /\ stops \subseteq Stops
States ==
    {"new", "sent", "running", "waiting", "completed", "incomplete", "stopped", "error", "over"}
EngineTypes ==
    turn \in [Turns -> States] /\ on \in [Turns -> Sessions \cup {None}] /\ calls \in [Turns -> Nat]
ServerTypes == marked \subseteq Sessions /\ born \subseteq Fresh /\ gone \subseteq Sessions
CountTypes == overtaken \in BOOLEAN /\ faults \in Nat /\ acts \in Nat

Types ==
    /\ AppTypes /\ CardTypes /\ RefTypes /\ gen \in Nat /\ GateTypes /\ tail \in Tails /\ InputTypes
    /\ StreamTypes /\ FlightTypes /\ EngineTypes /\ ServerTypes /\ CountTypes

LEMMA TypesAre == Types <=> ChatTypeOK
  BY DEF Types, AppTypes, CardTypes, Posts, RefTypes, GateTypes, Tails, InputTypes, StreamTypes, FlightTypes,
         States, EngineTypes, ServerTypes, CountTypes, ChatTypeOK

LEMMA TypesKept ==
  ASSUME Types
  PROVE  /\ UNCHANGED app => AppTypes'
         /\ UNCHANGED card => CardTypes'
         /\ UNCHANGED refs => RefTypes'
         /\ UNCHANGED gen => gen' \in Nat
         /\ UNCHANGED gate => GateTypes'
         /\ UNCHANGED tail => tail' \in Tails
         /\ UNCHANGED inputs => InputTypes'
         /\ UNCHANGED streams => StreamTypes'
         /\ UNCHANGED <<loads, stops>> => FlightTypes'
         /\ UNCHANGED engine => EngineTypes'
         /\ UNCHANGED server => ServerTypes'
         /\ UNCHANGED <<overtaken, faults, acts>> => CountTypes'
  <1> USE DEF Types
  <1>1. /\ UNCHANGED app => AppTypes'
        /\ UNCHANGED card => CardTypes'
        /\ UNCHANGED refs => RefTypes'
    BY DEF app, AppTypes, card, CardTypes, Posts, refs, RefTypes
  <1>2. /\ UNCHANGED gen => gen' \in Nat
        /\ UNCHANGED gate => GateTypes'
        /\ UNCHANGED tail => tail' \in Tails
        /\ UNCHANGED inputs => InputTypes'
    BY DEF gate, GateTypes, Tails, inputs, InputTypes
  <1>3. /\ UNCHANGED streams => StreamTypes'
        /\ UNCHANGED <<loads, stops>> => FlightTypes'
    BY DEF streams, StreamTypes, FlightTypes, Loads, Stops
  <1>4. /\ UNCHANGED engine => EngineTypes'
        /\ UNCHANGED server => ServerTypes'
        /\ UNCHANGED <<overtaken, faults, acts>> => CountTypes'
    BY DEF engine, EngineTypes, States, server, ServerTypes, CountTypes
  <1> QED
    BY <1>1, <1>2, <1>3, <1>4

\* what is written to the last message
LEMMA NoticeTypes == AfterNotice(tail) \in {tail, Note} /\ AfterNotice(FromDisk) \in {Note, Old}
  BY DEF AfterNotice, FromDisk

LEMMA EmptyQueue == <<>> \in Seq(Turns)
  OBVIOUS

LEMMA StopType ==
  ASSUME NEW a \in Aliases, NEW b \in {"user", "switch"}, NEW d \in BOOLEAN, NEW g \in Nat,
         NEW c \in Nat
  PROVE  [alias |-> a, by |-> b, det |-> d, gen |-> g, click |-> c, served |-> FALSE] \in Stops
  BY DEF Stops

\* The card goes, the decisions being posted stay.
LEMMA CardFalls == ASSUME CardTypes, CardGone, lost' = lost PROVE CardTypes'
  <1>1. \A d \in Posts : [d EXCEPT !.up = FALSE] \in Posts
    BY DEF Posts
  <1> QED
    BY <1>1 DEF CardTypes, CardGone

LEMMA DismissTypes ==
  ASSUME CardTypes, NEW d \in deciding, Dismiss(d), lost' \in {lost, lost \cup {d.call}}
  PROVE  CardTypes'
  <1>1. pending' \in Calls \cup {None}
    BY DEF CardTypes, Dismiss, CardAfter
  <1>2. \A e \in Posts : [e EXCEPT !.up = e.up /\ pending' # None] \in Posts
    <2>1. \A e \in Posts : \A b \in BOOLEAN : [e EXCEPT !.up = b] \in Posts
      BY DEF Posts
    <2> QED
      BY <2>1
  <1>3. deciding' \subseteq Posts
    BY <1>2 DEF CardTypes, Dismiss
  <1>4. d.call \in Calls
    BY DEF CardTypes, Posts
  <1> QED
    BY <1>1, <1>3, <1>4 DEF CardTypes, Calls

LEMMA InitTypes == ChatInit => Types
  <1> SUFFICES ASSUME ChatInit PROVE Types
    OBVIOUS
  <1>1. AppTypes /\ CardTypes /\ RefTypes
    BY DEF ChatInit, AppTypes, CardTypes, RefTypes, Sessions
  <1>2. GateTypes /\ gen \in Nat /\ tail \in Tails /\ InputTypes
    BY EmptyQueue DEF ChatInit, GateTypes, Tails, InputTypes
  <1>3. StreamTypes /\ FlightTypes /\ CountTypes
    BY DEF ChatInit, StreamTypes, FlightTypes, CountTypes
  <1>4. EngineTypes /\ ServerTypes
    <2>1. PICK st \in {"new", "running"} : turn = [t \in Turns |-> IF t = 0 THEN st ELSE "new"]
      BY DEF ChatInit
    <2>2. PICK s \in Saved : /\ on = [t \in Turns |-> s]
                            /\ marked = IF turn[0] = "running" THEN {s} ELSE {}
      BY DEF ChatInit
    <2>3. calls = [t \in Turns |-> 0] /\ born = {} /\ gone = {}
      BY DEF ChatInit
    <2>4. turn \in [Turns -> States]
      BY <2>1 DEF States
    <2> QED
      BY <2>2, <2>3, <2>4 DEF EngineTypes, ServerTypes, Sessions
  <1> QED
    BY <1>1, <1>2, <1>3, <1>4 DEF Types

LEMMA StepTypes == Types /\ [ChatNext]_chatVars => Types'
  <1> SUFFICES ASSUME Types, [ChatNext]_chatVars PROVE Types'
    OBVIOUS
  <1> USE TypesKept
  <1>0. AppTypes /\ CardTypes /\ RefTypes /\ gen \in Nat /\ GateTypes /\ tail \in Tails /\ InputTypes
        /\ StreamTypes /\ FlightTypes /\ EngineTypes /\ ServerTypes /\ CountTypes
    BY DEF Types
  <1>1. CASE UNCHANGED chatVars
    BY <1>1 DEF chatVars, daemon, Types
  \* App
  <1>2. CASE \/ \E s \in Sessions : Pick(s)
             \/ New \/ Delete \/ Created \/ Restored \/ CreateFails \/ RestoreFails
    <2>1. UNCHANGED <<card, refs, gate, tail, inputs, streams, loads, stops, engine>>
      BY <1>2 DEF Pick, New, Delete, Created, Restored, CreateFails, RestoreFails, chatBelow, daemon
    <2>2. Created => NextFresh \in Fresh
      BY <1>0, SpareSession DEF Created, NextFresh, ServerTypes
    <2>3. AppTypes' /\ gen' \in Nat
      <3>0. \/ UNCHANGED <<gen, due>>
            \/ gen' \in {gen, gen + 1} /\ \E s \in Sessions \cup {None} : due' = (s # view)
        <4>1. ASSUME NEW s \in Sessions \cup {None}, Show(s)
              PROVE  gen' \in {gen, gen + 1} /\ due' = (s # view)
          BY <4>1 DEF Show
        <4>2. restoring \in Sessions \cup {None} /\ (Created => NextFresh \in Sessions)
          BY <1>0, <2>2 DEF AppTypes, Sessions
        <4>3. \/ UNCHANGED <<gen, due>>
              \/ \E s \in Sessions \cup {None} : Show(s)
          BY <1>2, <4>2 DEF Pick, New, Delete, Created, Restored, CreateFails, RestoreFails
        <4> QED
          BY <4>1, <4>3
      <3>1a. gen' \in Nat
        BY <1>0, <3>0
      <3>1b. due' \in BOOLEAN
        BY <1>0, <3>0 DEF AppTypes
      <3>2. shown' \in Sessions \cup {None} /\ restoring' \in Sessions \cup {None}
        BY <1>0, <1>2, <2>2 DEF Pick, New, Delete, Created, Restored, CreateFails, RestoreFails, Show,
                                AppTypes, Sessions
      <3>3. creating' \in BOOLEAN /\ chosen' \in Sessions \cup {None}
        BY <1>0, <1>2 DEF Pick, New, Delete, Created, Restored, CreateFails, RestoreFails, AppTypes
      <3> QED
        BY <3>1a, <3>1b, <3>2, <3>3 DEF AppTypes
    <2>4. ServerTypes'
      BY <1>0, <1>2, <2>2 DEF Pick, New, Delete, Created, Restored, CreateFails, RestoreFails, daemon,
                              server, ServerTypes, AppTypes
    <2>5. CountTypes'
      BY <1>0, <1>2 DEF Pick, New, Delete, Created, Restored, CreateFails, RestoreFails, chatBelow, Act,
                        Fault, CountTypes
    <2> QED
      BY <2>1, <2>3, <2>4, <2>5 DEF Types
  <1>3. CASE Reload
    <2>1. AppTypes' /\ RefTypes' /\ gen' \in Nat /\ tail' \in Tails
      <3>1. AppTypes'
        BY <1>0, <1>3 DEF Reload, AppTypes
      <3>2. RefTypes' /\ gen' \in Nat /\ tail' \in Tails
        BY <1>0, <1>3 DEF Reload, RefTypes, Tails
      <3> QED
        BY <3>1, <3>2
    <2>2. CardTypes' /\ GateTypes' /\ InputTypes' /\ FlightTypes' /\ CountTypes'
      <3>0. UNCHANGED lost /\ pending' = None /\ deciding' = {}
        BY <1>3 DEF Reload
      <3>1. CardTypes'
        BY <1>0, <3>0 DEF CardTypes
      <3>3. recovery' = "ready" /\ busy' = FALSE /\ queue' = <<>>
        BY <1>3 DEF Reload
      <3>4. GateTypes'
        BY <3>3, EmptyQueue DEF GateTypes
      <3>5. InputTypes' /\ FlightTypes'
        BY <1>3 DEF Reload, InputTypes, FlightTypes
      <3>6. UNCHANGED <<overtaken, faults>> /\ acts' = acts + 1
        BY <1>3 DEF Reload, Act
      <3>7. CountTypes'
        BY <1>0, <3>6 DEF CountTypes
      <3> QED
        BY <3>1, <3>4, <3>5, <3>7
    <2>3. StreamTypes'
      BY <1>0, <1>3 DEF Reload, StreamTypes
    <2>4. UNCHANGED <<engine, server>>
      BY <1>3 DEF Reload, daemon
    <2> QED
      BY <2>1, <2>2, <2>3, <2>4 DEF Types
  \* Chat
  <1>4. CASE SwitchEffect
    <2>1. UNCHANGED <<gen, inputs, engine, server, overtaken, faults, acts>>
      BY <1>4 DEF SwitchEffect, daemon
    <2>2. AppTypes' /\ CardTypes' /\ GateTypes' /\ tail' \in Tails
      <3>1. AppTypes' /\ CardTypes'
        BY <1>0, <1>4, CardFalls DEF SwitchEffect, AppTypes
      <3>2. GateTypes' /\ tail' \in Tails
        BY <1>4, EmptyQueue DEF SwitchEffect, RecoveryOfSwitch, GateTypes, Tails
      <3> QED
        BY <3>1, <3>2
    <2>3. RefTypes'
      BY <1>0, <1>4 DEF SwitchEffect, RefTypes, AppTypes, Aliases
    <2>4. StreamTypes'
      BY <1>0, <1>4 DEF SwitchEffect, StreamTypes
    <2>5. loads' \subseteq Loads
      BY <1>0, <1>4 DEF SwitchEffect, FlightTypes, Loads, AppTypes
    <2>6. Cancel \subseteq Stops
      BY <1>0, StopType DEF Cancel, RefTypes, CountTypes
    <2>7. FlightTypes'
      BY <1>0, <1>4, <2>5, <2>6 DEF SwitchEffect, FlightTypes, Loads, Stops
    <2> QED
      BY <2>1, <2>2, <2>3, <2>4, <2>7 DEF Types
  <1>5. CASE \E l \in loads : LoadServed(l)
    <2>1. UNCHANGED <<app, card, refs, gen, gate, tail, inputs, streams, stops, engine, server,
                      overtaken, faults, acts>>
      BY <1>5 DEF LoadServed, daemon
    <2>2. loads' \subseteq Loads
      BY <1>0, <1>5 DEF LoadServed, FlightTypes, Loads
    <2>3. FlightTypes'
      BY <1>0, <2>1, <2>2 DEF FlightTypes, Loads, Stops
    <2> QED
      BY <2>1, <2>3 DEF Types
  <1>6. CASE \E l \in loads : LoadApplied(l) \/ LoadFails(l)
    <2>1. PICK l \in loads : LoadApplied(l) \/ LoadFails(l)
      BY <1>6
    <2>2. UNCHANGED <<app, card, gen, view, reader, inputs, streams, stops, engine, server, acts>>
      BY <2>1 DEF LoadApplied, LoadFails, daemon
    <2>3. l.ses \in Aliases
      BY <1>0 DEF FlightTypes, Loads, Aliases
    <2>4. reqId' \in {reqId, l.ses, None} /\ tail' \in Tails
      BY <1>0, <2>1, NoticeTypes DEF LoadApplied, LoadFails, FromDisk, Tails
    <2>5. RefTypes'
      BY <1>0, <2>2, <2>3, <2>4 DEF RefTypes
    <2>6. GateTypes'
      <3>1. /\ recovery' \in {recovery, "ready", "detached_active", "terminal_unknown"}
            /\ busy' \in {busy, FALSE} /\ queue' \in {queue, <<>>}
        BY <2>1 DEF LoadApplied, LoadFails, gate
      <3> QED
        BY <1>0, <3>1, EmptyQueue DEF GateTypes
    <2>7. FlightTypes'
      BY <1>0, <2>1, <2>2 DEF LoadApplied, LoadFails, FlightTypes, Loads, Stops
    <2>8. CountTypes'
      <3>1. \/ overtaken' = overtaken \/ overtaken' = (overtaken \/ Overtakes)
            \/ overtaken' = (overtaken \/ Overtakes \/ l.ans = "early")
        BY <2>1 DEF LoadApplied, LoadFails
      <3>2. overtaken' \in BOOLEAN
        BY <1>0, <3>1 DEF CountTypes
      <3>3. faults' \in {faults, faults + 1}
        BY <2>1 DEF LoadApplied, LoadFails, Fault
      <3> QED
        BY <1>0, <2>2, <3>2, <3>3 DEF CountTypes
    <2> QED
      BY <2>2, <2>4, <2>5, <2>6, <2>7, <2>8 DEF Types
  <1>7. CASE \E p \in stops : StopServed(p)
    <2>1. PICK p \in stops : StopServed(p)
      BY <1>7
    <2>2. UNCHANGED <<app, card, refs, gen, gate, tail, inputs, streams, loads, on, calls, server,
                      overtaken, faults, acts>>
      BY <2>1 DEF StopServed
    <2>3. stops' \subseteq Stops
      BY <1>0, <2>1 DEF StopServed, FlightTypes, Stops
    <2>4. turn' \in [Turns -> States]
      BY <1>0, <2>1 DEF StopServed, EngineTypes, States
    <2>5. FlightTypes' /\ EngineTypes'
      BY <1>0, <2>2, <2>3, <2>4 DEF FlightTypes, EngineTypes, Loads, Stops, States
    <2> QED
      BY <2>2, <2>5 DEF Types
  <1>8. CASE \E p \in stops : StopOk(p) \/ StopFails(p)
    <2>1. PICK p \in stops : StopOk(p) \/ StopFails(p)
      BY <1>8
    <2>2. UNCHANGED <<app, lost, view, reader, gen, inputs, streams, loads, engine, server, acts>>
      BY <2>1 DEF StopOk, StopFails, card, refs, daemon
    <2>3. RefTypes' /\ CardTypes'
      <3>1. RefTypes'
        BY <1>0, <2>1 DEF StopOk, StopFails, refs, RefTypes
      <3>2. UNCHANGED card \/ (CardGone /\ lost' = lost)
        BY <2>1 DEF StopOk, StopFails, card
      <3> QED
        BY <1>0, <3>1, <3>2, CardFalls
    <2>4. GateTypes'
      <3>1. /\ recovery' \in {recovery, "ready", "terminal_unknown"} /\ queue' \in {queue, <<>>}
            /\ busy' = busy \/ busy' = FALSE \/ busy' = (busy /\ reader # None)
        BY <2>1 DEF StopOk, StopFails, QueueOnLock, gate
      <3>2. busy' \in BOOLEAN
        BY <1>0, <3>1 DEF GateTypes
      <3> QED
        BY <1>0, <3>1, <3>2, EmptyQueue DEF GateTypes
    <2>5. tail' \in Tails
      BY <1>0, <2>1, NoticeTypes DEF StopOk, StopFails, Tails
    <2>6. FlightTypes'
      BY <1>0, <2>1, <2>2 DEF StopOk, StopFails, FlightTypes, Loads, Stops
    <2>7. CountTypes'
      <3>1. overtaken' = overtaken \/ overtaken' = (overtaken \/ StillRuns)
        BY <2>1 DEF StopOk, StopFails
      <3>2. overtaken' \in BOOLEAN
        BY <1>0, <3>1 DEF CountTypes
      <3>3. faults' \in {faults, faults + 1}
        BY <2>1 DEF StopOk, StopFails, Fault
      <3> QED
        BY <1>0, <2>2, <3>2, <3>3 DEF CountTypes
    <2> QED
      BY <2>2, <2>3, <2>4, <2>5, <2>6, <2>7 DEF Types
  <1>9. CASE \E t \in Turns : Send(t) \/ Drain(t)
    <2>1. PICK t \in Turns : Send(t) \/ Drain(t)
      BY <1>9
    <2>2. Deliver(t)
      BY <2>1 DEF Send, Drain
    <2>3. UNCHANGED <<app, card, view, gen, recovery, inputs, loads, stops, calls, server, overtaken,
                      faults>>
      BY <2>2 DEF Deliver, server
    <2>4. t \in Turns \ {0} /\ t \in Aliases
      BY <2>2 DEF Deliver, Aliases
    <2>5. RefTypes' /\ tail' \in Tails
      BY <1>0, <2>2, <2>4 DEF Deliver, RefTypes, Tails
    <2>6. queue' \in Seq(Turns)
      <3>1. queue' = queue \/ (queue # <<>> /\ queue' = Tail(queue))
        BY <2>1 DEF Send, Drain, DrainDue
      <3> QED
        BY <1>0, <3>1 DEF GateTypes
    <2>7. GateTypes'
      BY <1>0, <2>2, <2>6 DEF Deliver, GateTypes
    <2>8. StreamTypes'
      BY <1>0, <2>2 DEF Deliver, StreamTypes
    <2>9. EngineTypes'
      BY <1>0, <2>2 DEF Deliver, EngineTypes, AppTypes, States
    <2>10. CountTypes'
      BY <1>0, <2>1, <2>3 DEF Send, Drain, Act, CountTypes
    <2> QED
      BY <2>3, <2>5, <2>7, <2>8, <2>9, <2>10 DEF Types
  <1>10. CASE Enqueue \/ Unqueue
    <2>1. UNCHANGED <<app, card, refs, gen, recovery, busy, tail, inputs, streams, loads, stops, engine,
                      server, overtaken, faults>>
      BY <1>10 DEF Enqueue, Unqueue, daemon
    <2>2. queue' \in Seq(Turns)
      <3>1. \/ reqId \in Turns /\ queue' = Append(queue, reqId)
            \/ queue # <<>> /\ queue' = Tail(queue)
        BY <1>10 DEF Enqueue, Unqueue, Sent
      <3> QED
        BY <1>0, <3>1 DEF GateTypes
    <2>3. GateTypes'
      BY <1>0, <2>1, <2>2 DEF GateTypes
    <2>4. CountTypes'
      BY <1>0, <1>10, <2>1 DEF Enqueue, Unqueue, Act, CountTypes
    <2> QED
      BY <2>1, <2>3, <2>4 DEF Types
  <1>11. CASE Stop
    <2>1. UNCHANGED <<app, card, refs, gen, gate, tail, inputs, streams, loads, engine, server,
                      overtaken, faults>>
      BY <1>11 DEF Stop, daemon
    <2>2. stops' \subseteq Stops
      <3>1. /\ reqId \in Aliases /\ gen \in Nat /\ acts \in Nat
            /\ stops' = stops \cup {[alias |-> reqId, by |-> "user", det |-> reader = None, gen |-> gen,
                                     click |-> acts, served |-> FALSE]}
        BY <1>0, <1>11 DEF Stop, RefTypes, CountTypes
      <3>2. (reader = None) \in BOOLEAN
        OBVIOUS
      <3>3. [alias |-> reqId, by |-> "user", det |-> reader = None, gen |-> gen, click |-> acts,
             served |-> FALSE] \in Stops
        BY <3>1, <3>2, StopType
      <3> QED
        BY <1>0, <3>1, <3>3 DEF FlightTypes
    <2>3. FlightTypes' /\ CountTypes'
      BY <1>0, <1>11, <2>1, <2>2 DEF Stop, Act, FlightTypes, CountTypes, Loads, Stops
    <2> QED
      BY <2>1, <2>3 DEF Types
  <1>12. CASE RefuseSend \/ BeginMode \/ ModeSettled \/ Decide
    <2>1. UNCHANGED <<app, refs, gen, gate, streams, loads, stops, engine, server, overtaken, faults>>
      BY <1>12 DEF RefuseSend, BeginMode, ModeSettled, Decide, daemon
    <2>2. tail' \in Tails
      BY <1>0, <1>12, NoticeTypes DEF RefuseSend, BeginMode, ModeSettled, Decide, Tails
    <2>3. InputTypes' /\ CountTypes'
      <3>1. modePending' \in {modePending, TRUE, FALSE} /\ cmd' = cmd
        BY <1>12 DEF RefuseSend, BeginMode, ModeSettled, Decide, inputs
      <3>2. InputTypes'
        BY <1>0, <3>1 DEF InputTypes
      <3>3. acts' \in {acts, acts + 1}
        BY <1>12 DEF RefuseSend, BeginMode, ModeSettled, Decide, Act
      <3> QED
        BY <1>0, <2>1, <3>2, <3>3 DEF CountTypes
    <2>4. CardTypes'
      <3>1. UNCHANGED <<pending, lost>>
            /\ \/ deciding' = deciding
               \/ /\ pending # None
                  /\ deciding' = deciding \cup {[call |-> pending, up |-> TRUE, served |-> FALSE]}
        BY <1>12 DEF RefuseSend, BeginMode, ModeSettled, Decide, card
      <3>2. pending \in Calls => [call |-> pending, up |-> TRUE, served |-> FALSE] \in Posts
        BY DEF Posts
      <3>3. pending \in Calls \cup {None} /\ lost \subseteq Calls /\ deciding \subseteq Posts
        BY <1>0 DEF CardTypes
      <3>4. deciding' \subseteq Posts
        BY <3>1, <3>2, <3>3
      <3> QED
        BY <3>1, <3>3, <3>4 DEF CardTypes
    <2> QED
      BY <2>1, <2>2, <2>3, <2>4 DEF Types
  <1>13. CASE CommandDone \/ \E kind \in {"compact", "undo", "info"} : Command(kind)
    <2>1. UNCHANGED <<app, card, refs, gen, gate, streams, loads, stops, engine, server>>
      BY <1>13 DEF CommandDone, Command, daemon
    <2>2. tail' \in Tails
      BY <1>0, <1>13, NoticeTypes DEF CommandDone, Command, Tails
    <2>3. InputTypes'
      BY <1>0, <1>13 DEF CommandDone, Command, InputTypes, AppTypes
    <2>4. CountTypes'
      BY <1>0, <1>13 DEF CommandDone, Command, Act, CountTypes, GateTypes
    <2> QED
      BY <2>1, <2>2, <2>3, <2>4 DEF Types
  \* the card
  <1>14. CASE \E d \in deciding : DecisionServed(d)
    <2>1. UNCHANGED <<app, pending, lost, refs, gen, gate, tail, inputs, streams, loads, stops, on, calls,
                      server, overtaken, faults, acts>>
      BY <1>14 DEF DecisionServed
    <2>2. turn' \in [Turns -> States]
      BY <1>0, <1>14 DEF DecisionServed, EngineTypes, States
    <2>3. deciding' \subseteq Posts
      BY <1>0, <1>14 DEF DecisionServed, CardTypes, Posts
    <2>4. EngineTypes' /\ CardTypes'
      BY <1>0, <2>1, <2>2, <2>3 DEF EngineTypes, States, CardTypes, Calls
    <2> QED
      BY <2>1, <2>4 DEF Types
  <1>15. CASE \E d \in deciding : DecisionDone(d) \/ DecisionLost(d)
    <2>1. UNCHANGED <<app, refs, gen, gate, tail, inputs, streams, loads, stops, engine, server,
                      overtaken, acts>>
      BY <1>15 DEF DecisionDone, DecisionLost, Dismiss, daemon
    <2>2. CardTypes'
      BY <1>0, <1>15, DismissTypes DEF DecisionDone, DecisionLost
    <2>3. CountTypes'
      BY <1>0, <1>15 DEF DecisionDone, DecisionLost, Dismiss, Fault, CountTypes
    <2> QED
      BY <2>1, <2>2, <2>3 DEF Types
  \* the turns
  <1>16. CASE \E t \in Turns : AskPermission(t)
    <2>1. PICK t \in Turns : AskPermission(t)
      BY <1>16
    <2>2. UNCHANGED <<app, deciding, lost, refs, gen, gate, tail, inputs, streams, loads, stops, on, server,
                      overtaken, faults, acts>>
      BY <2>1 DEF AskPermission
    <2>3. turn' \in [Turns -> States] /\ calls' \in [Turns -> Nat]
      BY <1>0, <2>1 DEF AskPermission, EngineTypes, States
    <2>4. <<t, calls'[t]>> \in Calls
      BY <2>3 DEF Calls
    <2>5. pending' \in {pending, <<t, calls'[t]>>}
      BY <2>1 DEF AskPermission
    <2>6. EngineTypes' /\ CardTypes'
      BY <1>0, <2>2, <2>3, <2>4, <2>5 DEF EngineTypes, States, CardTypes, Calls
    <2> QED
      BY <2>2, <2>6 DEF Types
  <1>17. CASE \E t \in Turns : TurnEnds(t) \/ Orphaned(t) \/ ToolResult(t)
    <2>1. PICK t \in Turns : TurnEnds(t) \/ Orphaned(t) \/ ToolResult(t)
      BY <1>17
    <2>2. UNCHANGED <<app, lost, refs, gen, gate, tail, inputs, streams, loads, stops, on, calls,
                      born, gone, overtaken, faults, acts>>
      BY <2>1 DEF TurnEnds, Orphaned, ToolResult, card, daemon, server, engine
    <2>3. EngineTypes'
      BY <1>0, <2>1, <2>2 DEF TurnEnds, Orphaned, ToolResult, daemon, engine, EngineTypes, States
    <2>4. ServerTypes'
      BY <1>0, <2>1, <2>2 DEF TurnEnds, Orphaned, ToolResult, daemon, server, ServerTypes
    <2>5. CardTypes'
      <3>1. UNCHANGED card \/ (CardGone /\ lost' = lost)
        BY <2>1, <2>2 DEF TurnEnds, Orphaned, ToolResult
      <3> QED
        BY <1>0, <3>1, CardFalls
    <2> QED
      BY <2>2, <2>3, <2>4, <2>5 DEF Types
  <1>18. CASE \E t \in Turns : Terminal(t)
    <2>1. PICK t \in Turns : Terminal(t)
      BY <1>18
    <2>2. UNCHANGED <<creating, restoring, due, chosen, lost, gen, reqId, reader, tail, inputs,
                      sgen, loads, stops, server, on, calls, overtaken, faults, acts>>
      BY <2>1 DEF Terminal
    <2>3. /\ shown' \in {shown, on[t]} /\ view' \in {view, on[t]}
          /\ on[t] \in Sessions \cup {None}
          /\ UNCHANGED card \/ (CardGone /\ lost' = lost)
      BY <1>0, <2>1 DEF Terminal, EngineTypes, card
    <2>4. AppTypes' /\ RefTypes' /\ CardTypes'
      <3>1. AppTypes' /\ RefTypes'
        BY <1>0, <2>2, <2>3 DEF AppTypes, RefTypes
      <3> QED
        BY <1>0, <2>3, <3>1, CardFalls
    <2>5. GateTypes'
      <3>1. recovery' \in {recovery, "ready"} /\ busy' \in {busy, FALSE} /\ queue' \in {queue, <<>>}
        BY <2>1 DEF Terminal, QueueAfter, gate
      <3> QED
        BY <1>0, <3>1, EmptyQueue DEF GateTypes
    <2>6. StreamTypes'
      BY <1>0, <2>1, <2>2 DEF Terminal, StreamTypes
    <2>7. EngineTypes'
      BY <1>0, <2>1, <2>2 DEF Terminal, EngineTypes, States
    <2> QED
      BY <2>2, <2>4, <2>5, <2>6, <2>7 DEF Types
  <1>19. CASE \E t \in Turns : StreamEnd(t) \/ StreamLost(t)
    <2>1. PICK t \in Turns : StreamEnd(t) \/ StreamLost(t)
      BY <1>19
    <2>2. UNCHANGED <<app, lost, view, gen, tail, inputs, sgen, loads, stops, engine, server,
                      overtaken, acts>>
      BY <2>1 DEF StreamEnd, StreamLost, card, daemon
    <2>3. RefTypes' /\ CardTypes'
      <3>1. RefTypes'
        BY <1>0, <2>1 DEF StreamEnd, StreamLost, AliasAfter, RefTypes
      <3>2. UNCHANGED card \/ (CardGone /\ lost' = lost)
        BY <2>1 DEF StreamEnd, StreamLost, card
      <3> QED
        BY <1>0, <3>1, <3>2, CardFalls
    <2>4. GateTypes'
      <3>1. /\ recovery' \in {recovery, "terminal_unknown"} /\ busy' \in {busy, FALSE}
            /\ queue' \in {queue, <<>>}
        BY <2>1 DEF StreamEnd, StreamLost, QueueOnLock, gate
      <3> QED
        BY <1>0, <3>1, EmptyQueue DEF GateTypes
    <2>5. StreamTypes'
      BY <1>0, <2>1, <2>2 DEF StreamEnd, StreamLost, StreamTypes
    <2>6. CountTypes'
      BY <1>0, <2>1 DEF StreamEnd, StreamLost, Fault, CountTypes
    <2> QED
      BY <2>2, <2>3, <2>4, <2>5, <2>6 DEF Types
  <1>20. CASE \E t \in Turns : TurnBegins(t)
    <2>1. PICK t \in Turns : TurnBegins(t)
      BY <1>20
    <2>2. UNCHANGED <<app, card, refs, gen, gate, tail, inputs, streams, loads, stops, calls, gone,
                      overtaken, faults, acts>>
      BY <2>1 DEF TurnBegins
    <2>3. /\ on' \in [Turns -> Sessions \cup {None}] /\ on'[t] \in Sessions
          /\ born' \subseteq Fresh
      <3>1. CASE on[t] # None
        BY <1>0, <2>1, <3>1 DEF TurnBegins, EngineTypes, ServerTypes
      <3>2. CASE on[t] = None
        <4>1. NextFresh \in Fresh
          BY <1>0, <2>1, <3>2 DEF TurnBegins, NextFresh, ServerTypes
        <4> QED
          BY <1>0, <2>1, <3>2, <4>1 DEF TurnBegins, EngineTypes, ServerTypes, Sessions
      <3> QED
        BY <3>1, <3>2
    <2>4. EngineTypes'
      BY <1>0, <2>1, <2>2, <2>3 DEF TurnBegins, EngineTypes, States
    <2>5. ServerTypes'
      BY <1>0, <2>1, <2>2, <2>3 DEF TurnBegins, ServerTypes
    <2> QED
      BY <2>2, <2>4, <2>5 DEF Types
  <1> QED
    BY <1>1, <1>2, <1>3, <1>4, <1>5, <1>6, <1>7, <1>8, <1>9, <1>10, <1>11, <1>12, <1>13, <1>14, <1>15,
       <1>16, <1>17, <1>18, <1>19, <1>20 DEF ChatNext, User, Effects, Answers, Turn

\* Every variable keeps its type.
THEOREM ChatTypes == ChatSpec => []ChatTypeOK
  BY InitTypes, StepTypes, TypesAre, PTL DEF ChatSpec

----------------------------------------------------------------------------
(***************************************************************************)
(* A busy view and its queue.  The turn a view is busy with is the newest  *)
(* of this tab and was sent from this very generation; what is queued and  *)
(* not behind such a turn is behind one that completed by itself.          *)
(***************************************************************************)
Newest(u) ==
    /\ u \in Turns \ {0} /\ turn[u] # "new" /\ sgen[u] = gen
    /\ \A v \in Turns : v > u => turn[v] = "new"

\* turns are started in their order
Ordered == \A u, v \in Turns \ {0} : u < v /\ turn[v] # "new" => turn[u] # "new"

\* a busy view reads the newest turn, and holds its alias
Streams == busy /\ ~due => Newest(reader) /\ Watched(reader)

Queued ==
    queue # <<>> /\ ~due /\ ~busy =>
        \E u \in Turns : Newest(u) /\ turn[u] = "completed"

Follows == Ordered /\ Streams /\ Queued

\* what a step that starts no turn may do to the view a reply streams into
\* and to what is queued behind it
OutOfTheWay ==
    /\ busy' /\ ~due' =>
           /\ busy /\ ~due /\ UNCHANGED <<reqId, reader, gen, sgen>>
           /\ stream'[reader] = stream[reader]
    /\ queue' # <<>> /\ ~due' /\ ~busy' =>
           /\ ~due /\ UNCHANGED <<gen, sgen>>
           /\ \/ queue # <<>> /\ ~busy
              \/ \E t \in Turns : Terminal(t) /\ Current(t) /\ turn[t] = "completed" /\ busy

LEMMA FollowsKept ==
  ASSUME Follows, OutOfTheWay,
         \A t \in Turns : turn'[t] = "new" <=> turn[t] = "new",
         \A t \in Turns : turn[t] = "completed" => turn'[t] = "completed"
  PROVE  Follows'
  <1> USE DEF Follows
  <1>1. Ordered'
    BY DEF Ordered
  <1>2. ASSUME NEW u \in Turns, Newest(u), UNCHANGED <<gen, sgen>> PROVE Newest(u)'
    BY <1>2 DEF Newest
  <1>3. Streams'
    <2> SUFFICES ASSUME busy', ~due' PROVE (Newest(reader) /\ Watched(reader))'
      BY DEF Streams
    <2>1. /\ busy /\ ~due /\ UNCHANGED <<reqId, reader, gen, sgen>>
          /\ stream'[reader] = stream[reader]
      BY DEF OutOfTheWay
    <2>2. Newest(reader) /\ Watched(reader) /\ reader \in Turns
      BY <2>1 DEF Streams, Newest
    <2>3. Newest(reader)'
      BY <1>2, <2>1, <2>2 DEF Newest
    <2> QED
      BY <2>1, <2>2, <2>3 DEF Watched
  <1>4. Queued'
    <2> SUFFICES ASSUME queue' # <<>>, ~due', ~busy'
                 PROVE  \E u \in Turns : Newest(u)' /\ turn'[u] = "completed"
      BY DEF Queued
    <2>1. /\ ~due /\ UNCHANGED <<gen, sgen>>
          /\ \/ queue # <<>> /\ ~busy
             \/ \E t \in Turns : Terminal(t) /\ Current(t) /\ turn[t] = "completed" /\ busy
      BY DEF OutOfTheWay
    <2>2. PICK u \in Turns : Newest(u) /\ turn[u] = "completed"
      <3>1. CASE queue # <<>> /\ ~busy
        BY <2>1, <3>1 DEF Queued
      <3>2. CASE ~(queue # <<>> /\ ~busy)
        BY <2>1, <3>2 DEF Streams, Watched, Current
      <3> QED
        BY <3>1, <3>2
    <2> QED
      BY <1>2, <2>1, <2>2
  <1> QED
    BY <1>1, <1>3, <1>4

\* A turn sent now is the newest, in this generation.
LEMMA SendFollows ==
  ASSUME Follows, Shapes, NEW t \in Turns, Deliver(t) PROVE Follows'
  <1> USE ConstantsAssumption DEF Follows
  <1>1. /\ turn[t] = "new" /\ t # 0 /\ \A u \in 1 .. t - 1 : turn[u] # "new"
        /\ busy' = TRUE /\ reader' = t /\ reqId' = t /\ gen' = gen
        /\ stream'[t] = "open" /\ sgen'[t] = gen /\ turn'[t] = "sent"
        /\ \A u \in Turns \ {t} : turn'[u] = turn[u]
    BY DEF Deliver, Shapes
  <1>2. t \in Nat /\ Turns \subseteq Nat
    BY DEF Turns
  <1>3. \A v \in Turns : v > t => turn[v] = "new"
    BY <1>1, <1>2 DEF Ordered
  <1>4. Ordered'
    <2> SUFFICES ASSUME NEW u \in Turns \ {0}, NEW v \in Turns \ {0}, u < v, turn'[v] # "new"
                 PROVE  turn'[u] # "new"
      BY DEF Ordered
    <2>1. CASE v = t
      BY <1>1, <1>2, <2>1
    <2>2. CASE v # t
      BY <1>1, <1>2, <2>2 DEF Ordered
    <2> QED
      BY <2>1, <2>2
  <1>5. Newest(t)'
    BY <1>1, <1>2, <1>3 DEF Newest
  <1>6. Streams'
    BY <1>1, <1>5 DEF Streams, Watched
  <1>7. Queued'
    BY <1>1 DEF Queued
  <1> QED
    BY <1>4, <1>6, <1>7

\* A completed turn stays completed.
LEMMA StepCompleted ==
  Shapes /\ [ChatNext]_chatVars =>
      \A t \in Turns : turn[t] = "completed" => turn'[t] = "completed"
  <1> SUFFICES ASSUME Shapes, [ChatNext]_chatVars, NEW t \in Turns, turn[t] = "completed"
               PROVE  turn'[t] = "completed"
    OBVIOUS
  <1> USE DEF Shapes
  <1>1. ASSUME turn' = turn PROVE turn'[t] = "completed"
    BY <1>1
  <1>2. CASE \E u \in Turns : Send(u) \/ Drain(u)
    <2>1. PICK u \in Turns : Deliver(u)
      BY <1>2 DEF Send, Drain
    <2> QED
      BY <2>1 DEF Deliver
  <1>3. CASE \E u \in Turns : Turn(u)
    <2>1. PICK u \in Turns : Turn(u)
      BY <1>3
    <2>2. CASE ToolResult(u) \/ StreamEnd(u) \/ StreamLost(u)
      BY <1>1, <2>2 DEF ToolResult, StreamEnd, StreamLost, daemon, engine
    <2>3. CASE TurnBegins(u) \/ AskPermission(u) \/ TurnEnds(u) \/ Orphaned(u) \/ Terminal(u)
      BY <2>3 DEF TurnBegins, AskPermission, TurnEnds, Orphaned, Terminal, Active, Underway
    <2> QED
      BY <2>1, <2>2, <2>3 DEF Turn
  <1>4. CASE \E p \in stops : StopServed(p)
    <2>1. PICK p \in stops : StopServed(p)
      BY <1>4
    <2> QED
      BY <2>1 DEF StopServed, Names, Active
  <1>5. CASE \E d \in deciding : DecisionServed(d)
    BY <1>5 DEF DecisionServed
  <1>6. CASE \/ \E s \in Sessions : Pick(s)
             \/ New \/ Delete \/ Created \/ CreateFails \/ Restored \/ RestoreFails \/ Reload
    BY <1>1, <1>6 DEF Pick, New, Delete, Created, CreateFails, Restored, RestoreFails, Reload,
                      daemon, engine
  <1>7. CASE \/ Stop \/ Decide \/ BeginMode \/ Enqueue \/ RefuseSend \/ Unqueue
             \/ \E kind \in {"compact", "undo", "info"} : Command(kind)
    BY <1>1, <1>7 DEF Stop, Decide, BeginMode, Enqueue, RefuseSend, Unqueue, Command, daemon,
                      engine
  <1>8. CASE \/ SwitchEffect
             \/ \E l \in loads : LoadServed(l) \/ LoadApplied(l) \/ LoadFails(l)
             \/ \E p \in stops : StopOk(p) \/ StopFails(p)
    BY <1>1, <1>8 DEF SwitchEffect, LoadServed, LoadApplied, LoadFails, StopOk, StopFails,
                      daemon, engine
  <1>9. CASE (\E d \in deciding : DecisionDone(d) \/ DecisionLost(d)) \/ ModeSettled \/ CommandDone
    BY <1>1, <1>9 DEF DecisionDone, DecisionLost, Dismiss, ModeSettled, CommandDone, daemon,
                      engine
  <1>10. CASE UNCHANGED chatVars
    BY <1>1, <1>10 DEF chatVars, daemon, engine
  <1> QED
    BY <1>2, <1>3, <1>4, <1>5, <1>6, <1>7, <1>8, <1>9, <1>10 DEF ChatNext, User, Effects, Answers

\* Every step but a delivery is out of the way.
LEMMA StepOutOfTheWay ==
  Placed /\ Types /\ Follows /\ [ChatNext]_chatVars =>
      OutOfTheWay \/ \E t \in Turns : ~due /\ Deliver(t)
  <1> SUFFICES ASSUME Shapes, Located, Types, Follows, [ChatNext]_chatVars,
                      ~\E t \in Turns : ~due /\ Deliver(t)
               PROVE  OutOfTheWay
    BY DEF Placed
  <1> USE DEF OutOfTheWay
  <1>1. ASSUME UNCHANGED <<busy, queue, due, reqId, reader, gen, sgen, stream>> PROVE OutOfTheWay
    BY <1>1
  \* the turn a busy view reads is on its stream, and its alias is no session
  <1>2. busy /\ ~due => /\ reader \in Turns \ {0} /\ reqId = reader /\ reqId \notin Sessions \cup {None}
                        /\ stream[reader] = "open" /\ Current(reader)
    BY ConstantsAssumption DEF Follows, Streams, Newest, Watched, Current, Reads
  <1>3. ASSUME busy' = FALSE, queue' = <<>> PROVE OutOfTheWay
    BY <1>3
  <1>4. CASE UNCHANGED chatVars
    BY <1>1, <1>4 DEF chatVars, app, refs, gate, streams
  \* App
  <1>5. CASE \/ \E s \in Sessions : Pick(s)
             \/ New \/ Delete \/ Created \/ Restored
    <2>1. ~due /\ UNCHANGED <<busy, queue, reqId, reader, sgen, stream>>
      BY <1>5 DEF Pick, New, Delete, Created, Restored, Act, Settled, chatBelow, refs, gate, streams
    <2>2. \E s : Show(s)
      BY <1>5 DEF Pick, New, Delete, Created, Restored
    <2>3. ~due' => gen' = gen
      BY <2>2 DEF Show
    <2> QED
      BY <2>1, <2>3
  <1>6. CASE CreateFails \/ RestoreFails
    BY <1>1, <1>6 DEF CreateFails, RestoreFails, chatBelow, refs, gate, streams
  <1>7. CASE Reload
    BY <1>3, <1>7 DEF Reload
  \* Chat
  <1>8. CASE SwitchEffect
    BY <1>3, <1>8 DEF SwitchEffect
  <1>9. CASE \E l \in loads : LoadServed(l) \/ LoadApplied(l) \/ LoadFails(l)
    <2>1. PICK l \in loads : LoadServed(l) \/ LoadApplied(l) \/ LoadFails(l)
      BY <1>9
    <2>2. UNCHANGED <<due, reader, gen, sgen, stream>>
      BY <2>1 DEF LoadServed, LoadApplied, LoadFails, app, refs, streams
    <2>3. l.ses \in Sessions
      BY DEF Located, Generations
    <2>4. \/ busy' = FALSE /\ queue' = <<>>
          \/ UNCHANGED <<busy, queue>> /\ reqId' \in {reqId, IF reqId = l.ses THEN None ELSE reqId}
      BY <2>1 DEF LoadServed, LoadApplied, LoadFails, gate, refs
    <2> QED
      BY <1>2, <2>2, <2>3, <2>4
  <1>10. CASE \E p \in stops : StopServed(p) \/ StopOk(p) \/ StopFails(p)
    <2>1. PICK p \in stops : StopServed(p) \/ StopOk(p) \/ StopFails(p)
      BY <1>10
    <2>2. UNCHANGED <<due, reader, gen, sgen, stream>>
      BY <2>1 DEF StopServed, StopOk, StopFails, app, refs, streams
    <2>3. \/ busy' = FALSE /\ queue' = <<>>
          \/ UNCHANGED <<busy, queue, reqId>>
          \/ queue' = <<>> /\ (busy' => busy) /\ reqId' = reqId
      BY <2>1 DEF StopServed, StopOk, StopFails, gate, refs, QueueOnLock
    <2> QED
      BY <2>2, <2>3
  <1>11. CASE \E t \in Turns : Send(t) \/ Drain(t)
    BY <1>11 DEF Send, Drain, MayType, Settled
  <1>12. CASE Enqueue \/ Unqueue
    <2>1. /\ UNCHANGED <<busy, due, reqId, reader, gen, sgen, stream>>
          /\ busy \/ queue # <<>>
          /\ Settled
      BY <1>12 DEF Enqueue, Unqueue, MayType, app, refs, streams
    <2> QED
      BY <2>1 DEF Settled
  <1>13. CASE \/ Stop \/ Decide \/ BeginMode \/ RefuseSend
              \/ \E kind \in {"compact", "undo", "info"} : Command(kind)
    BY <1>1, <1>13 DEF Stop, Decide, BeginMode, RefuseSend, Command, app, refs, gate, streams
  <1>14. CASE Decisions \/ ModeSettled \/ CommandDone
    BY <1>1, <1>14 DEF Decisions, DecisionServed, DecisionDone, DecisionLost, Dismiss, ModeSettled,
                       CommandDone, app, refs, gate, streams
  \* the turns
  <1>15. CASE \E t \in Turns : \/ TurnBegins(t) \/ AskPermission(t) \/ TurnEnds(t)
                            \/ ToolResult(t) \/ Orphaned(t)
    BY <1>1, <1>15 DEF TurnBegins, AskPermission, TurnEnds, ToolResult, Orphaned, app, refs, gate,
                       streams
  <1>16. CASE \E t \in Turns : Terminal(t)
    <2>1. PICK t \in Turns : Terminal(t)
      BY <1>16
    <2>2. /\ UNCHANGED <<due, reqId, reader, gen, sgen>>
          /\ \A u \in Turns \ {t} : stream'[u] = stream[u]
      BY <2>1 DEF Terminal, Shapes
    <2>3. CASE ~Current(t)
      <3>1. UNCHANGED <<busy, queue>>
        BY <2>1, <2>3 DEF Terminal, gate
      <3> QED
        BY <1>2, <2>2, <2>3, <3>1
    <2>4. CASE Current(t)
      <3>1. busy' = FALSE /\ (queue' = <<>> \/ (queue' = queue /\ turn[t] = "completed"))
        BY <2>1, <2>4 DEF Terminal, QueueAfter
      <3> QED
        BY <2>1, <2>2, <2>4, <3>1
    <2> QED
      BY <2>3, <2>4
  <1>17. CASE \E t \in Turns : StreamEnd(t)
    <2>1. PICK t \in Turns : StreamEnd(t)
      BY <1>17
    <2>2. /\ UNCHANGED <<busy, queue, due, gen, sgen>> /\ stream[t] = "told"
          /\ \A u \in Turns \ {t} : stream'[u] = stream[u]
          /\ reader # t => reader' = reader
          /\ reqId # t => reqId' = reqId
      BY <2>1 DEF StreamEnd, AliasAfter, app, gate, Shapes
    <2> QED
      BY <1>2, <2>2
  <1>18. CASE \E t \in Turns : StreamLost(t)
    <2>1. PICK t \in Turns : StreamLost(t)
      BY <1>18
    <2>2. /\ UNCHANGED <<due, reqId, gen, sgen>>
          /\ \A u \in Turns \ {t} : stream'[u] = stream[u]
          /\ reader # t => reader' = reader
      BY <2>1 DEF StreamLost, app, Shapes
    <2>3. CASE Current(t)
      BY <1>3, <2>1, <2>3 DEF StreamLost, QueueOnLock
    <2>4. CASE ~Current(t)
      <3>1. UNCHANGED <<busy, queue>>
        BY <2>1, <2>4 DEF StreamLost, gate
      <3> QED
        BY <1>2, <2>2, <2>4, <3>1
    <2> QED
      BY <2>3, <2>4
  <1> QED
    BY <1>4, <1>5, <1>6, <1>7, <1>8, <1>9, <1>10, <1>11, <1>12, <1>13, <1>14, <1>15, <1>16, <1>17,
       <1>18 DEF ChatNext, User, Effects, Answers, Turn, Decisions

LEMMA InitFollows == ChatInit => Follows /\ ReadersSent
  <1> SUFFICES ASSUME ChatInit PROVE Follows /\ ReadersSent
    OBVIOUS
  <1>1. busy = FALSE /\ queue = <<>> /\ reader = None /\ \A t \in Turns : stream[t] = "none"
    BY DEF ChatInit
  <1>2. \A t \in Turns \ {0} : turn[t] = "new"
    BY DEF ChatInit
  <1> QED
    BY <1>1, <1>2 DEF Follows, Ordered, Streams, Queued, ReadersSent

LEMMA StepFollows ==
  Placed /\ Types /\ ReadersSent /\ Follows /\ [ChatNext]_chatVars => Follows' /\ ReadersSent'
  <1> SUFFICES ASSUME Placed, Types, ReadersSent, Follows, [ChatNext]_chatVars
               PROVE  Follows' /\ ReadersSent'
    OBVIOUS
  <1> USE DEF Placed
  <1>1. CASE \E t \in Turns : Deliver(t)
    BY <1>1, SendFollows, StepTurns
  <1>2. CASE ~\E t \in Turns : Deliver(t)
    <2>1. ReadersSent' /\ \A t \in Turns : turn'[t] = "new" <=> turn[t] = "new"
      BY <1>2, StepTurns DEF Send, Drain
    <2>2. OutOfTheWay
      BY <1>2, StepOutOfTheWay
    <2> QED
      BY <2>1, <2>2, StepCompleted, FollowsKept
  <1> QED
    BY <1>1, <1>2

\* where a view is, what it may send, and what it follows
Viewed == Placed /\ Types /\ ReadersSent /\ Follows

LEMMA InitViewed == ChatInit => Viewed
  BY InitPlaced, InitTypes, InitFollows DEF Viewed

LEMMA StepViewed == Viewed /\ [ChatNext]_chatVars => Viewed'
  BY StepPlaced, StepTypes, StepFollows DEF Viewed

\* While a view is busy with a turn, its Stop button has the alias of exactly
\* that turn, whatever earlier streams end late and whatever answers arrive.
THEOREM BusyIsStoppable == ChatSpec => []BusyHasAlias
  <1>1. Viewed => BusyHasAlias
    BY ConstantsAssumption DEF Viewed, Follows, Streams, Newest, Watched, BusyHasAlias
  <1> QED
    BY <1>1, InitViewed, StepViewed, PTL DEF ChatSpec

\* A typed-ahead message never follows a turn that was stopped, failed or left
\* incomplete, nor one of another view.
THEOREM DrainsFollowCompletion == ChatSpec => DrainOnlyAfterCompletion
  <1>1. Viewed => \A t \in Turns : Drain(t) => turn[t - 1] = "completed" /\ sgen[t - 1] = gen
    <2> SUFFICES ASSUME Viewed, NEW t \in Turns, Drain(t)
                 PROVE  turn[t - 1] = "completed" /\ sgen[t - 1] = gen
      OBVIOUS
    <2>1. /\ turn[t] = "new" /\ t # 0 /\ \A u \in 1 .. t - 1 : turn[u] # "new"
          /\ queue # <<>> /\ ~due /\ ~busy
      BY DEF Drain, DrainDue, Deliver
    <2>2. PICK u \in Turns : Newest(u) /\ turn[u] = "completed"
      BY <2>1 DEF Viewed, Follows, Queued
    <2>3. t \in Nat /\ u \in Nat \ {0} /\ t - 1 \in Turns
      BY <2>1, <2>2, ConstantsAssumption DEF Turns, Newest
    <2>4. u <= t - 1
      BY <2>1, <2>2, <2>3 DEF Viewed, Follows, Ordered, Newest
    <2>5. ~(t - 1 > u)
      <3> SUFFICES ASSUME t - 1 > u PROVE FALSE
        OBVIOUS
      <3>1. turn[t - 1] = "new"
        BY <2>2, <2>3 DEF Newest
      <3>2. t - 1 \in 1 .. t - 1
        BY <2>3
      <3> QED
        BY <2>1, <3>1, <3>2
    <2>6. u = t - 1
      BY <2>3, <2>4, <2>5
    <2> QED
      BY <2>2, <2>6 DEF Newest
  <1>2. Viewed => [\A t \in Turns : Drain(t) => turn[t - 1] = "completed" /\ sgen[t - 1] = gen]_chatVars
    BY <1>1
  <1> QED
    BY <1>2, InitViewed, StepViewed, PTL DEF ChatSpec, DrainOnlyAfterCompletion

----------------------------------------------------------------------------
(***************************************************************************)
(* The last message.  While a view is busy only a transcript from disk can *)
(* take the place of the reply, and that is a late answer overtaking it.   *)
(***************************************************************************)
Owns == busy /\ ~due /\ ~overtaken => tail = reader

\* a line told while a reply streams goes above its bubble
LEMMA NoticeAbove == busy => AfterNotice(tail) = tail
  BY DEF AfterNotice

LEMMA StepTail ==
  Viewed /\ [ChatNext]_chatVars /\ busy /\ ~due /\ busy' /\ ~overtaken' =>
      tail' = tail \/ \E t \in Turns : Deliver(t)
  <1> SUFFICES ASSUME Viewed, [ChatNext]_chatVars, busy, ~due, busy', ~overtaken',
                      ~\E t \in Turns : Deliver(t)
               PROVE  tail' = tail
    OBVIOUS
  <1> USE NoticeAbove
  <1>1. CASE UNCHANGED chatVars
    BY <1>1 DEF chatVars
  <1>2. CASE \/ \E s \in Sessions : Pick(s)
             \/ New \/ Delete \/ Created \/ CreateFails \/ Restored \/ RestoreFails
    BY <1>2 DEF Pick, New, Delete, Created, CreateFails, Restored, RestoreFails, chatBelow
  <1>3. CASE Reload \/ SwitchEffect
    BY <1>3 DEF Reload, SwitchEffect
  <1>4. CASE \E l \in loads : LoadServed(l) \/ LoadApplied(l) \/ LoadFails(l)
    <2>1. PICK l \in loads : LoadServed(l) \/ LoadApplied(l) \/ LoadFails(l)
      BY <1>4
    <2>2. CASE LoadApplied(l) /\ Awaited(l)
      <3>1. reader \in Turns \ {0} /\ turn[reader] # "new" /\ sgen[reader] = gen
        BY DEF Viewed, Follows, Streams, Newest
      <3>2. Overtakes
        BY <3>1 DEF Overtakes, Sent
      <3> QED
        BY <2>2, <3>2 DEF LoadApplied
    <2>3. CASE ~(LoadApplied(l) /\ Awaited(l))
      BY <2>1, <2>3 DEF LoadServed, LoadApplied, LoadFails
    <2> QED
      BY <2>2, <2>3
  <1>5. CASE \E p \in stops : StopServed(p) \/ StopOk(p) \/ StopFails(p)
    BY <1>5 DEF StopServed, StopOk, StopFails
  <1>6. CASE \E t \in Turns : Send(t) \/ Drain(t)
    BY <1>6 DEF Send, Drain
  <1>7. CASE \/ Stop \/ Decide \/ BeginMode \/ Enqueue \/ RefuseSend \/ Unqueue
             \/ \E kind \in {"compact", "undo", "info"} : Command(kind)
    BY <1>7 DEF Stop, Decide, BeginMode, Enqueue, RefuseSend, Unqueue, Command
  <1>8. CASE Decisions \/ ModeSettled
    BY <1>8 DEF Decisions, DecisionServed, DecisionDone, DecisionLost, Dismiss, ModeSettled
  <1>9. CASE CommandDone
    BY <1>9 DEF CommandDone
  <1>10. CASE \E t \in Turns : Turn(t)
    BY <1>10 DEF Turn, TurnBegins, AskPermission, TurnEnds, ToolResult, Orphaned, Terminal, StreamEnd,
                 StreamLost
  <1> QED
    BY <1>1, <1>2, <1>3, <1>4, <1>5, <1>6, <1>7, <1>8, <1>9, <1>10
       DEF ChatNext, User, Effects, Answers, Decisions

LEMMA StepOwns == Viewed /\ Owns /\ [ChatNext]_chatVars => Owns'
  <1> SUFFICES ASSUME Viewed, Owns, [ChatNext]_chatVars, busy', ~due', ~overtaken'
               PROVE  tail' = reader'
    BY DEF Owns
  <1>1. CASE \E t \in Turns : Deliver(t)
    BY <1>1 DEF Deliver
  <1>2. CASE ~\E t \in Turns : Deliver(t)
    <2>1. busy /\ ~due /\ reader' = reader
      BY <1>2, StepOutOfTheWay DEF Viewed, OutOfTheWay
    <2>2. ~overtaken
      BY StepWaived DEF Viewed, Placed
    <2> QED
      BY <1>2, <2>1, <2>2, StepTail DEF Owns
  <1> QED
    BY <1>1, <1>2

\* While a reply streams, its bubble stays the last message, so that its text
\* is never appended to a notice or to another reply.
THEOREM RepliesStayWhole == ChatSpec => []StreamOwnsTail
  <1>1. ChatInit => Owns
    BY DEF ChatInit, Owns
  <1>2. Viewed /\ Owns => StreamOwnsTail
    <2>1. None \notin Turns
      BY ConstantsAssumption
    <2> QED
      BY <2>1 DEF Viewed, Follows, Streams, Newest, Owns, StreamOwnsTail, WrittenTo
  <1> QED
    BY <1>1, <1>2, InitViewed, StepViewed, StepOwns, PTL DEF ChatSpec

----------------------------------------------------------------------------
(***************************************************************************)
(* The approval card.  A served decision is no longer waited for: its turn *)
(* went on, or asks for a later call.                                      *)
(***************************************************************************)
CardAsked == pending # None => pending[2] <= calls[pending[1]]

DecisionAsked ==
    \A d \in deciding :
        LET c == d.call
        IN /\ c[2] <= calls[c[1]]
           /\ d.served => turn[c[1]] # "waiting" \/ calls[c[1]] # c[2]

Answerable ==
    \A t \in Turns : turn[t] = "waiting" /\ Current(t) =>
        pending = <<t, calls[t]>> \/ <<t, calls[t]>> \in lost

Asked == CardAsked /\ DecisionAsked /\ Answerable

\* The card is left alone, or is taken away when nobody waits for it.
LEMMA AskedKept ==
  ASSUME Asked, UNCHANGED <<calls, lost>>, pending' \in {pending, None},
         \A e \in deciding' : \E d \in deciding : e.call = d.call /\ e.served = d.served,
         \A t \in Turns : turn'[t] = "waiting" => turn[t] = "waiting",
         \A d \in deciding : d.call[1] \in Turns,
         \A t \in Turns : turn'[t] = "waiting" /\ Current(t)' => Current(t) /\ pending' = pending
  PROVE  Asked'
  <1> USE DEF Asked
  <1>1. CardAsked'
    BY DEF CardAsked
  <1>2. DecisionAsked'
    BY DEF DecisionAsked
  <1>3. Answerable'
    BY DEF Answerable
  <1> QED
    BY <1>1, <1>2, <1>3

\* A card that goes leaves its decisions as they are.
LEMMA GoneKeeps ==
  ASSUME deciding \subseteq Posts, CardGone
  PROVE  \A e \in deciding' : \E d \in deciding : e.call = d.call /\ e.served = d.served
  <1> SUFFICES ASSUME NEW e \in deciding'
               PROVE  \E d \in deciding : e.call = d.call /\ e.served = d.served
    OBVIOUS
  <1>1. PICK d \in deciding : e = [d EXCEPT !.up = FALSE]
    BY DEF CardGone
  <1>2. e.call = d.call /\ e.served = d.served
    BY <1>1 DEF Posts
  <1> QED
    BY <1>2

LEMMA DismissKeeps ==
  ASSUME deciding \subseteq Posts, NEW d \in deciding, Dismiss(d)
  PROVE  \A e \in deciding' : \E o \in deciding : e.call = o.call /\ e.served = o.served
  <1> SUFFICES ASSUME NEW e \in deciding'
               PROVE  \E o \in deciding : e.call = o.call /\ e.served = o.served
    OBVIOUS
  <1>1. PICK o \in deciding : e = [o EXCEPT !.up = o.up /\ pending' # None]
    BY DEF Dismiss
  <1>2. e.call = o.call /\ e.served = o.served
    BY <1>1 DEF Posts
  <1> QED
    BY <1>2

LEMMA StepAsked == Viewed /\ Asked /\ [ChatNext]_chatVars => Asked'
  <1> SUFFICES ASSUME Viewed, Asked, [ChatNext]_chatVars PROVE Asked'
    OBVIOUS
  <1>0. /\ Shapes /\ Located /\ Types
        /\ pending # None => pending \in Turns \X Nat
        /\ deciding \subseteq Posts
        /\ \A d \in deciding : d.call \in Turns \X Nat /\ d.call[1] \in Turns
        /\ calls \in [Turns -> Nat]
        /\ None \notin Turns /\ Sessions \cap Turns = {}
    BY ConstantsAssumption DEF Viewed, Placed, Types, CardTypes, Posts, EngineTypes, Calls
  <1>1. ASSUME UNCHANGED <<turn, calls, card, reqId, gen, stream, sgen>> PROVE Asked'
    BY <1>0, <1>1, AskedKept DEF card, Current, Reads
  <1>2. ASSUME UNCHANGED <<turn, calls, card>>, \A t \in Turns : Current(t)' => Current(t)
        PROVE  Asked'
    BY <1>0, <1>2, AskedKept DEF card
  <1>3. CASE UNCHANGED chatVars
    BY <1>1, <1>3 DEF chatVars, refs, streams, daemon, engine
  \* App
  <1>4. CASE \/ \E s \in Sessions : Pick(s)
             \/ New \/ Delete \/ Created \/ Restored
    <2>1. UNCHANGED <<turn, calls, card, reqId, stream, sgen>> /\ \E s : Show(s)
      BY <1>4 DEF Pick, New, Delete, Created, Restored, chatBelow, refs, streams, daemon, engine
    <2>2. ~due
      BY <1>4 DEF Pick, New, Delete, Created, Restored, Act, Settled
    <2>3. gen' \in {gen, gen + 1}
      BY <2>1 DEF Show
    <2>4. \A t \in Turns : sgen[t] \in Nat /\ sgen[t] <= gen /\ gen \in Nat
      BY <1>0 DEF Located, Generations
    <2>5. \A t \in Turns : Current(t)' => Current(t)
      BY <2>1, <2>3, <2>4 DEF Current, Reads
    <2> QED
      BY <1>2, <2>1, <2>5
  <1>5. CASE CreateFails \/ RestoreFails
    BY <1>1, <1>5 DEF CreateFails, RestoreFails, chatBelow, refs, streams, daemon, engine
  <1>6. CASE Reload
    <2>1. UNCHANGED <<turn, calls, lost>> /\ pending' = None /\ deciding' = {} /\ reqId' = None
      BY <1>6 DEF Reload, daemon, engine
    <2> QED
      BY <1>0, <2>1, AskedKept DEF Current
  \* Chat
  <1>7. CASE SwitchEffect
    <2>1. UNCHANGED <<turn, calls, lost>> /\ CardGone /\ pending' = None /\ reqId' = shown
      BY <1>7 DEF SwitchEffect, CardGone, daemon, engine
    <2>2. shown \notin Turns
      BY <1>0 DEF Types, AppTypes
    <2> QED
      BY <1>0, <2>1, <2>2, GoneKeeps, AskedKept DEF Current
  <1>8. CASE \E l \in loads : LoadServed(l) \/ LoadApplied(l) \/ LoadFails(l)
    <2>1. PICK l \in loads : LoadServed(l) \/ LoadApplied(l) \/ LoadFails(l)
      BY <1>8
    <2>2. UNCHANGED <<turn, calls, card, gen, stream, sgen>> /\ reqId' \in {reqId, l.ses, None}
      BY <2>1 DEF LoadServed, LoadApplied, LoadFails, refs, streams, daemon, engine
    <2>3. l.ses \in Sessions
      BY <1>0 DEF Located, Generations
    <2>4. \A t \in Turns : Current(t)' => Current(t)
      BY <1>0, <2>2, <2>3 DEF Current, Reads
    <2> QED
      BY <1>2, <2>2, <2>4
  <1>9. CASE \E p \in stops : StopServed(p)
    <2>1. PICK p \in stops : StopServed(p)
      BY <1>9
    <2>2. UNCHANGED <<calls, card, reqId, gen, stream, sgen>>
      BY <2>1 DEF StopServed, refs, streams
    <2>3. \A t \in Turns : turn'[t] = "waiting" => turn[t] = "waiting"
      BY <2>1 DEF StopServed
    <2> QED
      BY <1>0, <2>2, <2>3, AskedKept DEF card, Current, Reads
  <1>10. CASE \E p \in stops : StopOk(p) \/ StopFails(p)
    <2>1. PICK p \in stops : StopOk(p) \/ StopFails(p)
      BY <1>10
    <2>2. /\ UNCHANGED <<turn, calls, lost, gen, stream, sgen>>
          /\ \/ UNCHANGED <<pending, deciding, reqId>>
             \/ CardGone /\ pending' = None /\ reqId' = None
      BY <2>1 DEF StopOk, StopFails, CardGone, card, refs, streams, daemon, engine
    <2> QED
      BY <1>0, <2>2, GoneKeeps, AskedKept DEF Current, Reads
  <1>11. CASE \E t \in Turns : Send(t) \/ Drain(t)
    <2>1. PICK t \in Turns : Deliver(t)
      BY <1>11 DEF Send, Drain
    <2>2. /\ UNCHANGED <<calls, card>> /\ reqId' = t /\ turn'[t] = "sent"
          /\ \A u \in Turns \ {t} : turn'[u] = turn[u]
      BY <1>0, <2>1 DEF Deliver, Shapes
    <2> QED
      BY <1>0, <2>2, AskedKept DEF card, Current
  <1>12. CASE \/ Stop \/ BeginMode \/ Enqueue \/ RefuseSend \/ Unqueue \/ ModeSettled \/ CommandDone
              \/ \E kind \in {"compact", "undo", "info"} : Command(kind)
    BY <1>1, <1>12 DEF Stop, BeginMode, Enqueue, RefuseSend, Unqueue, Command, ModeSettled,
                       CommandDone, refs, streams, daemon, engine
  \* the card
  <1>13. CASE Decide
    <2>1. /\ UNCHANGED <<turn, calls, pending, lost, reqId, gen, stream, sgen>> /\ pending # None
          /\ deciding' = deciding \cup {[call |-> pending, up |-> TRUE, served |-> FALSE]}
      BY <1>13 DEF Decide, refs, streams, daemon, engine
    <2>2. CardAsked' /\ Answerable'
      BY <2>1 DEF Asked, CardAsked, Answerable, Current, Reads
    <2>3. DecisionAsked'
      BY <2>1 DEF Asked, CardAsked, DecisionAsked
    <2> QED
      BY <2>2, <2>3 DEF Asked
  <1>14. CASE \E d \in deciding : DecisionServed(d)
    <2>0. PICK d \in deciding : DecisionServed(d)
      BY <1>14
    <2>1. /\ UNCHANGED <<calls, pending, lost, reqId, gen, stream, sgen>>
          /\ deciding' = (deciding \ {d}) \cup {[d EXCEPT !.served = TRUE]}
          /\ \A t \in Turns : turn'[t] = "waiting" =>
                turn[t] = "waiting" /\ on[t] # on[d.call[1]]
      BY <1>0, <2>0 DEF DecisionServed, refs, streams
    <2>2. CardAsked' /\ Answerable'
      BY <2>1 DEF Asked, CardAsked, Answerable, Current, Reads
    <2>3. [d EXCEPT !.served = TRUE].call = d.call
      BY <1>0 DEF Posts
    <2>4. DecisionAsked'
      BY <1>0, <2>1, <2>3 DEF Asked, DecisionAsked
    <2> QED
      BY <2>2, <2>4 DEF Asked
  <1>15. CASE \E d \in deciding : DecisionDone(d) \/ DecisionLost(d)
    <2>0. PICK d \in deciding : DecisionDone(d) \/ DecisionLost(d)
      BY <1>15
    <2>1. /\ UNCHANGED <<turn, calls, reqId, gen, stream, sgen>>
          /\ pending' = IF pending = d.call THEN None ELSE pending
          /\ (d.served /\ lost' = lost) \/ lost' = lost \cup {d.call}
      BY <2>0 DEF DecisionDone, DecisionLost, Dismiss, CardAfter, refs, streams, daemon, engine
    <2>2. CardAsked' /\ DecisionAsked'
      <3>1. \A e \in deciding' : \E o \in deciding : e.call = o.call /\ e.served = o.served
        BY <1>0, <2>0, DismissKeeps DEF DecisionDone, DecisionLost
      <3> QED
        BY <2>1, <3>1 DEF Asked, CardAsked, DecisionAsked
    <2>3. Answerable'
      <3> SUFFICES ASSUME NEW t \in Turns, turn[t] = "waiting", Current(t)
                   PROVE  pending' = <<t, calls[t]>> \/ <<t, calls[t]>> \in lost'
        BY <2>1 DEF Answerable, Current, Reads
      <3>1. pending = <<t, calls[t]>> \/ <<t, calls[t]>> \in lost
        BY DEF Asked, Answerable
      <3>2. CASE d.call # <<t, calls[t]>>
        BY <2>1, <3>1, <3>2
      <3>3. CASE d.call = <<t, calls[t]>>
        <4>1. ~d.served
          BY <2>1, <3>3 DEF Asked, DecisionAsked
        <4> QED
          BY <2>1, <3>3, <4>1
      <3> QED
        BY <3>2, <3>3
    <2> QED
      BY <2>2, <2>3 DEF Asked
  \* the turns
  <1>16. CASE \E t \in Turns : AskPermission(t)
    <2>1. PICK t \in Turns : AskPermission(t)
      BY <1>16
    <2>2. /\ UNCHANGED <<deciding, lost, reqId, gen, stream, sgen>>
          /\ turn'[t] = "waiting" /\ calls'[t] = calls[t] + 1
          /\ \A u \in Turns \ {t} : turn'[u] = turn[u] /\ calls'[u] = calls[u]
          /\ pending' = IF Current(t) THEN <<t, calls'[t]>> ELSE pending
      BY <1>0, <2>1 DEF AskPermission, Shapes, refs, streams
    <2>3. \A u \in Turns : calls[u] \in Nat /\ calls[u] <= calls'[u]
      BY <1>0, <2>2
    <2>4. CardAsked'
      <3>1. CASE Current(t)
        BY <2>2, <2>3, <3>1 DEF CardAsked
      <3>2. CASE ~Current(t) /\ pending # None
        <4>1. pending[1] \in Turns /\ pending[2] \in Nat /\ pending[2] <= calls[pending[1]]
          BY <1>0, <3>2 DEF Asked, CardAsked
        <4>2. calls'[pending[1]] \in Nat
          BY <2>2, <2>3, <4>1
        <4> QED
          BY <2>2, <2>3, <3>2, <4>1, <4>2 DEF CardAsked
      <3>3. CASE ~Current(t) /\ pending = None
        BY <2>2, <3>3 DEF CardAsked
      <3> QED
        BY <3>1, <3>2, <3>3
    <2>5. DecisionAsked'
      <3> SUFFICES ASSUME NEW d \in deciding
                   PROVE  LET c == d.call
                          IN /\ c[2] <= calls'[c[1]]
                             /\ d.served => turn'[c[1]] # "waiting" \/ calls'[c[1]] # c[2]
        BY <2>2 DEF DecisionAsked
      <3> DEFINE c == d.call
      <3>1. /\ c[1] \in Turns /\ c[2] \in Nat /\ c[2] <= calls[c[1]]
            /\ d.served => turn[c[1]] # "waiting" \/ calls[c[1]] # c[2]
        BY <1>0 DEF Asked, DecisionAsked
      <3>2. CASE c[1] = t
        BY <2>2, <2>3, <3>1, <3>2
      <3>3. CASE c[1] # t
        BY <2>2, <2>3, <3>1, <3>3
      <3> QED
        BY <3>2, <3>3
    <2>6. Answerable'
      BY <2>2 DEF Asked, Answerable, Current, Reads
    <2> QED
      BY <2>4, <2>5, <2>6 DEF Asked
  <1>17. CASE \E t \in Turns : TurnBegins(t) \/ TurnEnds(t) \/ Orphaned(t)
    <2>1. PICK t \in Turns : TurnBegins(t) \/ TurnEnds(t) \/ Orphaned(t)
      BY <1>17
    <2>2. UNCHANGED <<calls, card, reqId, gen, stream, sgen>>
      BY <2>1 DEF TurnBegins, TurnEnds, Orphaned, refs, streams
    <2>3. \A u \in Turns : turn'[u] = "waiting" => turn[u] = "waiting"
      BY <1>0, <2>1 DEF TurnBegins, TurnEnds, Orphaned, Shapes
    <2> QED
      BY <1>0, <2>2, <2>3, AskedKept DEF card, Current, Reads
  <1>18. CASE \E t \in Turns : ToolResult(t)
    <2>1. PICK t \in Turns : ToolResult(t)
      BY <1>18
    <2>2. /\ UNCHANGED <<turn, calls, lost, reqId, gen, stream, sgen>>
          /\ CardGone /\ pending' = None
          /\ turn[t] = "running" /\ reqId = t
      BY <2>1 DEF ToolResult, CardGone, Current, refs, streams, daemon, engine
    <2> QED
      BY <1>0, <2>2, GoneKeeps, AskedKept DEF Current, Reads
  <1>19. CASE \E t \in Turns : Terminal(t)
    <2>1. PICK t \in Turns : Terminal(t)
      BY <1>19
    <2>2. /\ UNCHANGED <<calls, lost, reqId, gen, sgen>> /\ turn[t] # "waiting"
          /\ \A u \in Turns : turn'[u] = "waiting" => turn[u] = "waiting"
          /\ \A u \in Turns : Current(u)' => Current(u)
          /\ UNCHANGED <<pending, deciding>> \/ (Current(t) /\ pending' = None /\ CardGone)
      BY <1>0, <2>1 DEF Terminal, Shapes, Current, Reads, Underway, Active, CardGone
    <2>3. \A u \in Turns : turn'[u] = "waiting" /\ Current(u)' => Current(u) /\ pending' = pending
      BY <2>2 DEF Current
    <2> QED
      BY <1>0, <2>2, <2>3, GoneKeeps, AskedKept
  <1>20. CASE \E t \in Turns : StreamEnd(t) \/ StreamLost(t)
    <2>1. PICK t \in Turns : StreamEnd(t) \/ StreamLost(t)
      BY <1>20
    <2>2. /\ UNCHANGED <<turn, calls, lost, gen, sgen>> /\ reqId' \in {reqId, None}
          /\ \A u \in Turns : Reads(u)' => Reads(u) /\ u # t
          /\ UNCHANGED <<pending, deciding>> \/ (Current(t) /\ pending' = None /\ CardGone)
      BY <1>0, <2>1 DEF StreamEnd, StreamLost, AliasAfter, Reads, Shapes, card, daemon, engine, CardGone
    <2>3. \A u \in Turns : turn'[u] = "waiting" /\ Current(u)' => Current(u) /\ pending' = pending
      BY <1>0, <2>2 DEF Current
    <2> QED
      BY <1>0, <2>2, <2>3, GoneKeeps, AskedKept
  <1> QED
    BY <1>3, <1>4, <1>5, <1>6, <1>7, <1>8, <1>9, <1>10, <1>11, <1>12, <1>13, <1>14, <1>15, <1>16, <1>17,
       <1>18, <1>19, <1>20 DEF ChatNext, User, Effects, Answers, Turn

\* An approval the daemon waits for is on the card, unless the decision on it
\* was made and lost: no event, late answer or older decision takes it away.
THEOREM ApprovalsReachable == ChatSpec => []ApprovalReachable
  <1>1. ChatInit => Asked
    <2> SUFFICES ASSUME ChatInit PROVE Asked
      OBVIOUS
    <2>1. pending = None /\ deciding = {} /\ \A t \in Turns : stream[t] = "none"
      BY DEF ChatInit
    <2> QED
      BY <2>1 DEF Asked, CardAsked, DecisionAsked, Answerable, Current, Reads
  <1>2. Asked => ApprovalReachable
    BY DEF Asked, Answerable, ApprovalReachable
  <1> QED
    BY <1>1, <1>2, InitViewed, StepViewed, StepAsked, PTL DEF ChatSpec

----------------------------------------------------------------------------
(***************************************************************************)
(* What CheckEnds and QueueMoves rest on, beside fairness: whoever waits,  *)
(* waits for something that is under way.                                  *)
(***************************************************************************)
\* a locked fresh view has a check in flight that it will listen to
CheckUnderWay == recovery = "checking" /\ ~due => \E l \in loads : Awaited(l)

\* what is queued is behind a stream that is read, or may be sent
QueueUnderWay ==
    queue # <<>> /\ ~due =>
        /\ AllowSend
        /\ busy => stream[reader] = "open" /\ Current(reader)
        /\ ~busy => DrainDue \/ modePending

LEMMA StepCheckUnderWay == Placed /\ CheckUnderWay /\ [ChatNext]_chatVars => CheckUnderWay'
  <1> SUFFICES ASSUME Placed, CheckUnderWay, [ChatNext]_chatVars, recovery' = "checking", ~due'
               PROVE  \E l \in loads' : Awaited(l)'
    BY DEF CheckUnderWay
  <1>1. ASSUME recovery = "checking", ~due, UNCHANGED <<loads, view, gen>>
        PROVE  \E l \in loads' : Awaited(l)'
    BY <1>1 DEF CheckUnderWay, Awaited
  <1>2. CASE UNCHANGED chatVars
    BY <1>1, <1>2 DEF chatVars, app, refs, gate
  <1>3. CASE \/ \E s \in Sessions : Pick(s)
             \/ New \/ Delete \/ Created \/ Restored
    <2>1. ~due /\ UNCHANGED <<recovery, loads, view>>
      BY <1>3 DEF Pick, New, Delete, Created, Restored, Act, Settled, chatBelow, refs, gate
    <2>2. \E s : Show(s)
      BY <1>3 DEF Pick, New, Delete, Created, Restored
    <2>3. gen' = gen
      BY <2>2 DEF Show
    <2> QED
      BY <1>1, <2>1, <2>3
  <1>4. CASE CreateFails \/ RestoreFails
    BY <1>1, <1>4 DEF CreateFails, RestoreFails, chatBelow, refs, gate
  <1>5. CASE Reload
    BY <1>5 DEF Reload
  <1>6. CASE SwitchEffect
    <2>1. /\ shown # None /\ view' = shown /\ gen' = gen
          /\ loads' = loads \cup {[ses |-> shown, gen |-> gen, ans |-> "wait"]}
      BY <1>6 DEF SwitchEffect, RecoveryOfSwitch
    <2> DEFINE l == [ses |-> shown, gen |-> gen, ans |-> "wait"]
    <2>2. l.ses = shown /\ l.gen = gen /\ l \in loads'
      BY <2>1
    <2> QED
      BY <2>1, <2>2 DEF Awaited
  <1>7. CASE \E l \in loads : LoadServed(l) \/ LoadApplied(l) \/ LoadFails(l)
    <2>1. PICK l \in loads : LoadServed(l) \/ LoadApplied(l) \/ LoadFails(l)
      BY <1>7
    <2>2. UNCHANGED <<due, view, gen>>
      BY <2>1 DEF LoadServed, LoadApplied, LoadFails, app, refs
    <2>3. CASE LoadServed(l)
      <3>1. PICK ans \in {"active", "early", "idle"} : loads' = (loads \ {l}) \cup {[l EXCEPT !.ans = ans]}
        BY <2>3 DEF LoadServed
      <3>2. [l EXCEPT !.ans = ans].ses = l.ses /\ [l EXCEPT !.ans = ans].gen = l.gen
        OBVIOUS
      <3>3. PICK k \in loads : Awaited(k)
        BY <2>2, <2>3 DEF LoadServed, gate, CheckUnderWay
      <3>4. CASE k = l
        BY <2>2, <3>1, <3>2, <3>3, <3>4 DEF Awaited
      <3>5. CASE k # l
        BY <2>2, <3>1, <3>3, <3>5 DEF Awaited
      <3> QED
        BY <3>4, <3>5
    <2>4. CASE LoadApplied(l) \/ LoadFails(l)
      <3>1. ~Awaited(l) /\ loads' = loads \ {l} /\ recovery = "checking"
        BY <2>4 DEF LoadApplied, LoadFails, gate
      <3>2. PICK k \in loads : Awaited(k)
        BY <2>2, <3>1 DEF CheckUnderWay
      <3> QED
        BY <2>2, <3>1, <3>2 DEF Awaited
    <2> QED
      BY <2>1, <2>3, <2>4
  <1>8. CASE \E p \in stops : StopServed(p) \/ StopOk(p) \/ StopFails(p)
    <2>1. PICK p \in stops : StopServed(p) \/ StopOk(p) \/ StopFails(p)
      BY <1>8
    <2>2. UNCHANGED <<due, view, gen, loads, recovery>>
      BY <2>1 DEF StopServed, StopOk, StopFails, app, refs, gate
    <2> QED
      BY <1>1, <2>2
  <1>9. CASE \E t \in Turns : Send(t) \/ Drain(t)
    <2>1. UNCHANGED <<due, view, gen, loads, recovery>>
      BY <1>9 DEF Send, Drain, Deliver, app
    <2> QED
      BY <1>1, <2>1
  <1>10. CASE \/ Stop \/ Decide \/ BeginMode \/ Enqueue \/ RefuseSend \/ Unqueue
              \/ \E kind \in {"compact", "undo", "info"} : Command(kind)
    BY <1>1, <1>10 DEF Stop, Decide, BeginMode, Enqueue, RefuseSend, Unqueue, Command, app, refs, gate
  <1>11. CASE Decisions \/ ModeSettled \/ CommandDone
    BY <1>1, <1>11 DEF Decisions, DecisionServed, DecisionDone, DecisionLost, Dismiss, ModeSettled,
                       CommandDone, app, refs, gate
  <1>12. CASE \E t \in Turns : Turn(t)
    <2>1. PICK t \in Turns : Turn(t)
      BY <1>12
    <2>2. UNCHANGED <<due, view, gen, loads, recovery>>
      BY <2>1 DEF Turn, TurnBegins, AskPermission, TurnEnds, ToolResult, Orphaned, Terminal, StreamEnd,
                  StreamLost, app, refs, gate
    <2> QED
      BY <1>1, <2>2
  <1> QED
    BY <1>2, <1>3, <1>4, <1>5, <1>6, <1>7, <1>8, <1>9, <1>10, <1>11, <1>12
       DEF ChatNext, User, Effects, Answers, Decisions

\* A view that is locked until its check is answered always has a check in
\* flight whose answer it takes, and no message is queued where nothing would
\* ever send or drop it.
THEOREM NobodyWaitsInVain == ChatSpec => [](CheckUnderWay /\ QueueUnderWay)
  <1> DEFINE Inv == Viewed /\ QueueInv /\ CheckUnderWay
  <1>1. ChatInit => Inv
    <2> SUFFICES ASSUME ChatInit PROVE Inv
      OBVIOUS
    <2>1. recovery = "ready" /\ queue = <<>>
      BY DEF ChatInit
    <2> QED
      BY <2>1, InitViewed DEF QueueInv, LockedEmpty, CompactsEmpty, CheckUnderWay
  <1>2. Inv /\ [ChatNext]_chatVars => Inv'
    BY StepViewed, StepQueue, StepCheckUnderWay DEF Viewed
  <1>3. Inv => QueueUnderWay
    <2> SUFFICES ASSUME Inv, queue # <<>>, ~due
                 PROVE  /\ AllowSend
                        /\ busy => stream[reader] = "open" /\ Current(reader)
                        /\ ~busy => DrainDue \/ modePending
      BY DEF QueueUnderWay
    <2>1. AllowSend
      BY DEF QueueInv, LockedEmpty
    <2>2. busy => stream[reader] = "open" /\ Current(reader)
      BY DEF Viewed, Follows, Streams, Watched, Current, Reads
    <2> QED
      BY <2>1, <2>2 DEF DrainDue
  <1> QED
    BY <1>1, <1>2, <1>3, PTL DEF ChatSpec
=============================================================================
