------------------------- MODULE LiveReconnect_Proofs -------------------------
(***************************************************************************)
(* The bound on the silence of the live stream, for every latency: between *)
(* two looks of the watchdog the silence grows by no more than the time    *)
(* since the last look, so that its sum with the time to the next look     *)
(* never exceeds what the watchdog accepts and one period.                 *)
(***************************************************************************)
EXTENDS LiveReconnect, TLAPS

\* At the watchdog's last look the silence was at most Stale.
SilenceInv ==
    /\ since \in Nat /\ tick \in 0 .. Every
    /\ since <= Stale + tick

LEMMA InitSilence == ReconInit => SilenceInv
  BY DEF ReconInit, SilenceInv, Every, Stale

\* No step lets the silence outgrow the time since the watchdog looked.
LEMMA StepSilence == SilenceInv /\ [ReconNext]_reconVars => SilenceInv'
  <1> SUFFICES ASSUME SilenceInv, [ReconNext]_reconVars PROVE SilenceInv'
    OBVIOUS
  <1> USE DEF SilenceInv, Every, Stale
  <1>1. CASE TurnOn
    BY <1>1 DEF TurnOn, StartStream
  \* sync is on before the stream is, with a silence of any length
  <1>9. CASE TurnOnAsking
    BY <1>9 DEF TurnOnAsking
  <1>10. CASE Answered
    BY <1>10 DEF Answered, StartStream, Off
  <1>2. CASE TurnOff
    BY <1>2 DEF TurnOff, Off
  <1>3. CASE Switched
    BY <1>3 DEF Switched, StartStream
  <1>4. CASE Connects \/ KeptAlive \/ Retry \/ GoesMute
    BY <1>4 DEF Connects, KeptAlive, Retry, GoesMute
  <1>5. CASE Ended
    BY <1>5 DEF Ended, Off
  \* it may start a stream at Stale seconds of silence already, and does above
  <1>6. CASE Watchdog
    <2>1. CASE StartStream
      BY <1>6, <2>1 DEF Watchdog, StartStream
    <2>2. CASE ~Silent /\ UNCHANGED since
      BY <1>6, <2>2 DEF Watchdog, Silent
    <2> QED
      BY <1>6, <2>1, <2>2 DEF Watchdog
  <1>7. CASE \E d \in 1 .. Every : Pass(d)
    <2>1. PICK d \in 1 .. Every : Pass(d)
      BY <1>7
    <2>2. since' = since + d /\ tick' = tick + d /\ tick + d <= Every
      BY <2>1 DEF Pass
    <2> QED
      BY <2>1, <2>2
  <1>8. CASE Gone \/ Back \/ UNCHANGED reconVars
    BY <1>8 DEF Gone, Back, reconVars, timers
  <1> QED
    BY <1>1, <1>2, <1>3, <1>4, <1>5, <1>6, <1>7, <1>8, <1>9, <1>10 DEF ReconNext

\* With sync on, no more than a minute passes without a byte or a new start,
\* however long a connect takes, and whether the watchdog finds 45 seconds of
\* silence too long or not.
THEOREM SilenceBounded == ReconSpec => []StalenessBounded
  <1>1. SilenceInv => StalenessBounded
    BY DEF SilenceInv, StalenessBounded, Every, Stale
  <1> QED
    BY <1>1, InitSilence, StepSilence, PTL DEF ReconSpec
=============================================================================
