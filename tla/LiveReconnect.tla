---------------------------- MODULE LiveReconnect ----------------------------
(***************************************************************************)
(* The timers around the /live stream of sync mode (Chat.tsx): a stream    *)
(* that ends is retried after a growing delay and given up after Attempts  *)
(* failures; a watchdog starts a new one when no byte came for a while.    *)
(* Time is in seconds; a timer fires at or just after the second it is due *)
(* at, which is why 45 seconds may or may not count as more than 45000 ms. *)
(***************************************************************************)
EXTENDS Naturals

CONSTANT Latency    \* seconds after which a connect was accepted or refused; from
                    \* Healthy on there is no bound, as fetch has none

ASSUME LatencyAssumption == Latency \in Nat

Attempts == 6     \* scheduleReconnect gives up after so many
Cap      == 15    \* longest delay between two attempts
Healthy  == 30    \* a connection that lasted so long resets the count
Every    == 15    \* period of the watchdog
Stale    == 45    \* silence the watchdog accepts
Ping     == 15    \* KeepAlive interval of the server

VARIABLES
    link,     \* the stream; "mute": half open, neither bytes nor an error;
              \* "asked": postLiveSwitchSession is to be answered first
    age,      \* seconds since this connection was started, up to Healthy
    left,     \* seconds until the next attempt
    attempt,  \* failures counted since startLiveStream
    since,    \* seconds since lastLiveActivity; in the first look of the watchdog
              \* what is older than Stale counts as Stale
    tick,     \* seconds since the watchdog looked
    up        \* the daemon answers

timers    == <<age, left, attempt, since, tick>>
reconVars == <<link, timers, up>>

ReconInit ==
    /\ link = "off" /\ up = TRUE
    /\ age = 0 /\ left = 0 /\ attempt = 0 /\ since = 0 /\ tick = 0

AtMost(m, n) == IF m < n THEN m ELSE n

\* startLiveStream, from whatever state
StartStream ==
    /\ link' = "connecting"
    /\ age' = 0 /\ left' = 0 /\ attempt' = 0 /\ since' = 0

\* setSync(false) with stopLiveStream; the watchdog's effect ends
Off ==
    /\ link' = "off"
    /\ age' = 0 /\ left' = 0 /\ attempt' = 0 /\ since' = 0 /\ tick' = 0

TurnOn  == link = "off" /\ StartStream /\ tick' = 0 /\ UNCHANGED up
TurnOff == link # "off" /\ Off /\ UNCHANGED up

\* toggleSync with a session; the last byte may be of long ago
TurnOnAsking ==
    /\ link = "off" /\ link' = "asked" /\ since' \in 0 .. Stale /\ tick' = 0
    /\ UNCHANGED <<age, left, attempt, up>>

\* (WebLive has the answers that come when the toggle is over)
Answered == link = "asked" /\ ((StartStream /\ UNCHANGED tick) \/ Off) /\ UNCHANGED up

\* session_switched
Switched == link = "open" /\ StartStream /\ UNCHANGED <<tick, up>>

Connects ==
    /\ link = "connecting" /\ up
    /\ link' = "open" /\ since' = 0 /\ UNCHANGED <<age, left, attempt, tick, up>>

KeptAlive ==
    /\ link = "open" /\ up /\ since = Ping
    /\ since' = 0 /\ UNCHANGED <<link, age, left, attempt, tick, up>>

\* the count after this connection
Counted == IF age >= Healthy THEN 1 ELSE attempt + 1

Delay(n) == AtMost(2 ^ (n - 1), Cap)

\* scheduleReconnect
Ended ==
    /\ link \in {"connecting", "open"} /\ UNCHANGED up
    /\ IF Counted > Attempts THEN Off
       ELSE /\ link' = "waiting" /\ attempt' = Counted /\ left' = Delay(Counted)
            /\ age' = 0 /\ UNCHANGED <<since, tick>>

Retry ==
    /\ link = "waiting" /\ left = 0
    /\ link' = "connecting" /\ age' = 0 /\ UNCHANGED <<left, attempt, since, tick, up>>

\* a proxy drops the connection and nobody is told
GoesMute ==
    /\ link = "open"
    /\ link' = "mute" /\ age' = 0 /\ UNCHANGED <<left, attempt, since, tick, up>>

\* Mutant: only a stream believed open is looked at.
SilentOpen == since > Stale /\ link = "open"

Silent == since > Stale

Watchdog ==
    /\ link # "off" /\ tick = Every /\ tick' = 0 /\ UNCHANGED up
    /\ \/ (Silent \/ since = Stale) /\ StartStream
       \/ ~Silent /\ UNCHANGED <<link, age, left, attempt, since>>

\* Time moves up to the next timer.
Pass(d) ==
    /\ link # "off" /\ tick + d <= Every
    /\ link = "connecting" => age + d <= Latency
    /\ link = "open" => up /\ since + d <= Ping
    /\ link = "waiting" => d <= left
    /\ age' = IF link \in {"connecting", "open"} THEN AtMost(age + d, Healthy) ELSE 0
    /\ left' = IF link = "waiting" THEN left - d ELSE 0
    /\ since' = since + d /\ tick' = tick + d
    /\ UNCHANGED <<link, attempt, up>>

Gone == up /\ up' = FALSE /\ UNCHANGED <<link, timers>>
Back == ~up /\ up' = TRUE /\ UNCHANGED <<link, timers>>

ReconNext ==
    \/ TurnOn \/ TurnOnAsking \/ Answered \/ TurnOff \/ Switched \/ Connects \/ KeptAlive \/ Ended \/ Retry
    \/ GoesMute \/ Watchdog \/ Gone \/ Back
    \/ \E d \in 1 .. Every : Pass(d)

ReconSpec == ReconInit /\ [][ReconNext]_reconVars

\* Time passes, timers fire, and a connection to a daemon that is gone ends
\* or falls silent.
ReconFairness ==
    /\ WF_reconVars(\E d \in 1 .. Every : Pass(d))
    /\ WF_reconVars(Ended \/ GoesMute) /\ WF_reconVars(Retry) /\ WF_reconVars(Watchdog)

FairReconSpec == ReconSpec /\ ReconFairness

\* A stream that fell silent is noticed: with sync on, never more than a
\* minute goes by without a byte or a new start, also when the first stream
\* waits for the answer to the toggle.
StalenessBounded == since <= Stale + Every

\* "After a run of failures (daemon genuinely gone) we fall back to non-sync so
\* the user isn't stuck": it does not hold.  The watchdog may find 45 seconds of
\* silence before the seventh failure is counted; it starts a new stream and
\* with it a new count, and so on for ever.
FallsBack == ~up ~> (up \/ link = "off")
=============================================================================
