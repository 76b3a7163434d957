----------------------------- MODULE JobService -----------------------------
(***************************************************************************)
(* What the background manager promises whoever submits a job, whatever    *)
(* its threads do: the command of a job is started at most once, at most   *)
(* `Slots` commands run at a time, and a job that was dismissed, cancelled *)
(* before its command was being started or dropped by a pool that is shut  *)
(* down, never starts one.                                                 *)
(***************************************************************************)
EXTENDS FiniteSets, Naturals

CONSTANTS Jobs, Slots    \* the jobs, and how many commands may run at a time

VARIABLES
    alive,       \* the jobs whose command runs
    over,        \* the jobs whose command ran and ended
    dismissed    \* the jobs whose command must not be started any more

serviceVars == <<alive, over, dismissed>>

Init == alive = {} /\ over = {} /\ dismissed = {}

Start(j) ==
    /\ j \notin alive \cup over \cup dismissed
    /\ Cardinality(alive) < Slots
    /\ alive' = alive \cup {j}
    /\ UNCHANGED <<over, dismissed>>

\* The command ends or is killed.
Finish(j) ==
    /\ j \in alive
    /\ alive' = alive \ {j} /\ over' = over \cup {j}
    /\ UNCHANGED dismissed

\* A cancel dismisses one job, the closing of the pool all that wait.
Dismiss(S) ==
    /\ S \cap (alive \cup over) = {}
    /\ dismissed' = dismissed \cup S
    /\ UNCHANGED <<alive, over>>

Next == \/ \E j \in Jobs : Start(j) \/ Finish(j)
        \/ \E S \in SUBSET Jobs : Dismiss(S)

Spec == Init /\ [][Next]_serviceVars
=============================================================================
