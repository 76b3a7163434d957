-------------------------------- MODULE Login --------------------------------
(***************************************************************************)
(* useAuth (LoginButton.tsx): a login is started at the server and polled  *)
(* until it is decided, given up at its deadline, or overtaken by a newer  *)
(* generation.  Several logins may be under way when the user signs out    *)
(* and in again: only the generation tells their polls apart.              *)
(***************************************************************************)
EXTENDS Naturals

CONSTANT MaxLogins    \* logins the user may start

Logins == 1 .. MaxLogins

VARIABLES
    loginBusy,    \* busyRef and busy
    generation,   \* loginGeneration
    at,           \* what each login waits for
    started,      \* the generation each login was started in
    late          \* its deadline has passed

loginVars == <<loginBusy, generation, at, started, late>>

LoginInit ==
    /\ loginBusy = FALSE /\ generation = 0
    /\ at = [l \in Logins |-> "none"] /\ started = [l \in Logins |-> 0]
    /\ late = [l \in Logins |-> FALSE]

Overtaken(l) == generation # started[l]

StartLogin(l) ==
    /\ ~loginBusy /\ at[l] = "none" /\ \A m \in 1 .. l - 1 : at[m] # "none"
    /\ loginBusy' = TRUE /\ generation' = generation + 1
    /\ at' = [at EXCEPT ![l] = "start"] /\ started' = [started EXCEPT ![l] = generation']
    /\ UNCHANGED late

\* the first poll follows at once; an error or an answer without an id frees
\* the button, also when the login was overtaken
StartAnswered(l) ==
    /\ at[l] = "start"
    /\ \/ /\ at' = [at EXCEPT ![l] = IF Overtaken(l) THEN "over" ELSE "poll"]
          /\ UNCHANGED loginBusy
       \/ at' = [at EXCEPT ![l] = "over"] /\ loginBusy' = FALSE
    /\ UNCHANGED <<generation, started, late>>

\* stopPolling: the timer it clears is the one set last
StopPolling(l) ==
    /\ loginBusy' = FALSE /\ generation' = generation + 1
    /\ at' = [m \in Logins |-> IF m = l \/ (at[m] = "timer" /\ ~Overtaken(m)) THEN "over"
                              ELSE at[m]]
    /\ UNCHANGED <<started, late>>

\* schedule
Schedule(l) ==
    /\ at' = [at EXCEPT ![l] = IF Overtaken(l) THEN "over" ELSE "timer"]
    /\ UNCHANGED <<loginBusy, generation, started, late>>

\* pending; decided; a failure, final or not
PollAnswered(l) ==
    /\ at[l] = "poll"
    /\ \/ Schedule(l)
       \/ StopPolling(l)
       \/ at' = [at EXCEPT ![l] = "refresh"] /\ UNCHANGED <<loginBusy, generation, started, late>>

\* Mutant: the timer does not look at the deadline.
Never(l) == FALSE

PastDeadline(l) == late[l]

\* poll, from the timer
TimerFires(l) ==
    /\ at[l] = "timer"
    /\ at' = [at EXCEPT ![l] = IF Overtaken(l) THEN "over"
                              ELSE IF PastDeadline(l) THEN "cancel" ELSE "poll"]
    /\ UNCHANGED <<loginBusy, generation, started, late>>

\* the user is signed in, or the server was told to forget the login
Finished(l) == at[l] \in {"refresh", "cancel"} /\ StopPolling(l)

\* doLogout
Logout == loginBusy /\ StopPolling(0)

Deadline(l) ==
    /\ at[l] # "none" /\ ~late[l] /\ late' = [late EXCEPT ![l] = TRUE]
    /\ UNCHANGED <<loginBusy, generation, at, started>>

LoginStep(l) == StartAnswered(l) \/ PollAnswered(l) \/ TimerFires(l) \/ Finished(l)

LoginNext == Logout \/ \E l \in Logins : StartLogin(l) \/ LoginStep(l) \/ Deadline(l)

\* Requests are answered or fail, timers fire, time passes.
LoginFairness == /\ WF_loginVars(\E l \in Logins : LoginStep(l))
                 /\ WF_loginVars(\E l \in Logins : Deadline(l))

\* The sign-in button never stays busy: whatever logins overtake each other,
\* a login that is not decided ends at its deadline.
LoginEnds == loginBusy ~> ~loginBusy
=============================================================================
