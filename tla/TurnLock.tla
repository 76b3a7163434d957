------------------------------ MODULE TurnLock ------------------------------
(***************************************************************************)
(* What the browser tab promises the daemon: it starts a turn on a session *)
(* only while no turn it knows how to find is running there.  The promise  *)
(* is waived once the view was overtaken by a stale answer (see WebChat).  *)
(***************************************************************************)
CONSTANTS Places, Jobs    \* the sessions, and the turns

VARIABLES
    active,   \* the turns running on each session
    waived    \* the promise no longer binds

lockVars == <<active, waived>>

Init ==
    /\ active \in [Places -> SUBSET Jobs]
    /\ \A s \in Places : \A t, u \in active[s] : t = u
    /\ waived = FALSE

Start(s, t) ==
    /\ active[s] = {} \/ waived
    /\ active' = [active EXCEPT ![s] = @ \cup {t}]
    /\ UNCHANGED waived

End(s) ==
    /\ \E rest \in SUBSET active[s] : active' = [active EXCEPT ![s] = rest]
    /\ UNCHANGED waived

Waive == waived' = TRUE /\ UNCHANGED active

Next == \/ \E s \in Places, t \in Jobs : Start(s, t)
        \/ \E s \in Places : End(s)
        \/ Waive

Spec == Init /\ [][Next]_lockVars
=============================================================================
