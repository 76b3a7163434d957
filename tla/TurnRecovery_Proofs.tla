------------------------ MODULE TurnRecovery_Proofs ------------------------
(***************************************************************************)
(* Theorems about TurnRecovery, for every value of its constants.          *)
(***************************************************************************)
EXTENDS TurnRecovery, SequenceTheorems, FiniteSetTheorems, TLAPS

----------------------------------------------------------------------------
(***************************************************************************)
(* The types, with what each point of the program adds to them.            *)
(***************************************************************************)
Typed ==
    /\ TypeOK
    /\ pc # "idle" => turn \in Turns /\ path # "none"
    /\ pc \in {"save", "write", "record"} => round < MaxRounds
    /\ pc \in {"loop", "issue", "exec", "ran", "log", "round_end"} => round >= 0
    /\ pc \in {"issue", "exec", "ran", "log", "round_end"} => round < MaxRounds
    /\ pc \in {"issue", "exec", "ran"} => got < MaxItems
    /\ ownRollout => rollouts # <<>>

\* The rollout file of this process is the last of a nonempty sequence.
LEMMA OwnRolloutType ==
    ASSUME Typed
    PROVE  /\ OwnRollout \in Seq(Snapshot \cup {None})
           /\ Len(OwnRollout) \in 1 .. Len(OwnRollout)
           /\ OwnRollout # <<>>
<1>1. CASE ownRollout
  <2>1. rollouts \in Seq(Snapshot \cup {None}) /\ rollouts # <<>> /\ OwnRollout = rollouts
    BY <1>1 DEF Typed, TypeOK, OwnRollout
  <2> QED BY <2>1
<1>2. CASE ~ownRollout
  <2>1. rollouts \in Seq(Snapshot \cup {None}) /\ OwnRollout = Append(rollouts, None)
    BY <1>2 DEF Typed, TypeOK, OwnRollout
  <2> QED BY <2>1
<1> QED BY <1>1, <1>2

\* Replacing the last event of the own file keeps the type.
LEMMA OwnRolloutReplaced ==
    ASSUME Typed, NEW e \in Snapshot \cup {None}
    PROVE  /\ [OwnRollout EXCEPT ![Len(OwnRollout)] = e] \in Seq(Snapshot \cup {None})
           /\ [OwnRollout EXCEPT ![Len(OwnRollout)] = e] # <<>>
<1> DEFINE new == [OwnRollout EXCEPT ![Len(OwnRollout)] = e]
<1>1. new \in Seq(Snapshot \cup {None}) /\ Len(new) = Len(OwnRollout)
  BY OwnRolloutType, ExceptSeq
<1>2. Len(new) >= 1
  BY <1>1, OwnRolloutType
<1> QED BY <1>1, <1>2

\* What a resume loads is a snapshot.
LEMMA LoadType == ASSUME Typed, NEW a \in FileNames \cup {None}
                  PROVE  LoadedBy(a) \in Snapshot \cup {None}
<1>1. Rebuilt \in Snapshot \cup {None}
  <2>1. CASE \E i \in DOMAIN rollouts : NewestLive(i)
    <3> DEFINE i == CHOOSE i \in DOMAIN rollouts : NewestLive(i)
    <3>1. i \in DOMAIN rollouts
      BY <2>1
    <3>2. rollouts[i] \in Snapshot \cup {None}
      BY <3>1 DEF Typed, TypeOK
    <3> QED BY <2>1, <3>2 DEF Rebuilt
  <2>2. CASE ~\E i \in DOMAIN rollouts : NewestLive(i)
    BY <2>2 DEF Rebuilt
  <2> QED BY <2>1, <2>2
<1> QED BY <1>1 DEF LoadedBy

\* The types are kept by every step.
LEMMA TypedInvariant == Spec => []Typed
<1>1. Init => Typed
  BY ConstantsAssumption DEF Init, Typed, TypeOK, FileNames
<1>2. Typed /\ [Next]_vars => Typed'
  <2> SUFFICES ASSUME Typed, [Next]_vars PROVE Typed'
    OBVIOUS
  <2> USE ConstantsAssumption, SentinelAssumption DEF Typed, TypeOK, Turns, Rounds, memory, disk, history
  <2>1. ASSUME Step PROVE Typed'
    <3>1. CASE SaveOpen BY <3>1 DEF SaveOpen, FileNames
    <3>2. CASE SaveWrite BY <3>2 DEF SaveWrite, FileNames, Snapshot
    <3>3. CASE SaveFails BY <3>3 DEF SaveFails
    <3>4. CASE RecordSnapshot
      <4>1. rollouts' \in Seq(Snapshot \cup {None}) /\ rollouts' # <<>>
        <5>1. CASE round = -1
          <6>1. [turn |-> turn, round |-> -1, got |-> got] \in Snapshot
            BY <3>4 DEF RecordSnapshot, Snapshot
          <6> QED BY <3>4, <5>1, <6>1, OwnRolloutReplaced DEF RecordSnapshot
        <5>2. CASE round # -1
          BY <3>4, <5>2, OwnRolloutType DEF RecordSnapshot
        <5> QED BY <5>1, <5>2
      <4>2. CASE round = -1 BY <3>4, <4>1, <4>2 DEF RecordSnapshot, AfterSave
      <4>3. CASE round # -1 BY <3>4, <4>1, <4>3 DEF RecordSnapshot, AfterSave
      <4> QED BY <4>2, <4>3
    <3>5. CASE RecordFails
      <4>1. CASE round = -1 BY <3>5, <4>1 DEF RecordFails, AfterSave
      <4>2. CASE round # -1 BY <3>5, <4>2 DEF RecordFails, AfterSave
      <4> QED BY <4>1, <4>2
    <3>6. CASE BudgetPause BY <3>6 DEF BudgetPause
    <3>7. CASE RoundsSpent BY <3>7 DEF RoundsSpent
    <3>8. CASE ModelError
      <4>1. pc' \in {"idle", "loop", "clear"} /\ round' \in {round, round + 1}
            /\ then' \in {then, "idle"} /\ pc = "loop" /\ round < MaxRounds
        BY <3>8 DEF ModelError
      <4> QED BY <3>8, <4>1 DEF ModelError
    <3>9. CASE Truncated BY <3>9 DEF Truncated
    <3>10. CASE Answer BY <3>10 DEF Answer
    <3>11. CASE AskTools BY <3>11 DEF AskTools
    <3>12. CASE JournalCall BY <3>12 DEF JournalCall, Journaled, Here, Items
    <3>13. CASE ExecTool
      <4>1. Here \in Items
        BY <3>13 DEF ExecTool, Here, Items
      <4>2. path \in {"stream", "sync", "resume"}
        BY <3>13 DEF ExecTool
      <4>3. ran' \subseteq Items \X {"stream", "sync", "resume"} /\ hidden' \subseteq ran'
        BY <3>13, <4>1, <4>2 DEF ExecTool
      <4> QED BY <3>13, <4>3 DEF ExecTool
    <3>14. CASE HeedNote BY <3>14 DEF HeedNote
    <3>15. CASE KeepResult
      <4>1. Here \in Items
        BY <3>15 DEF KeepResult, Here, Items
      <4>2. journal' \in [calls : SUBSET Items, results : SUBSET Items] /\ archived' \subseteq Items
        BY <3>15, <4>1 DEF KeepResult, Journaled
      <4> QED BY <3>15, <4>2 DEF KeepResult
    <3>16. CASE LogRound
      <4>1. \A i \in roundStart + 1 .. got : <<turn, i>> \in Items
        BY <3>16 DEF LogRound, Items
      <4>2. \/ pc' = "round_end" /\ UNCHANGED <<journal, archived>>
            \/ pc' = pc /\ \E i \in roundStart + 1 .. got : Journaled({<<turn, i>>}, {})
        BY <3>16 DEF LogRound
      <4>3. journal' \in [calls : SUBSET Items, results : SUBSET Items] /\ archived' \subseteq Items
        BY <4>1, <4>2 DEF Journaled
      <4> QED BY <3>16, <4>2, <4>3 DEF LogRound
    <3>17. CASE NextRound BY <3>17 DEF NextRound
    <3>18. CASE StopAfterRound BY <3>18 DEF StopAfterRound
    <3>19. CASE Deliver BY <3>19 DEF Deliver
    <3>20. CASE Finalize BY <3>20 DEF Finalize
    <3>21. CASE ClearActive BY <3>21 DEF ClearActive, FileNames
    <3>22. CASE ClearMain BY <3>22 DEF ClearMain
    <3>23. CASE ClearEvent
      <4>1. [OwnRollout EXCEPT ![Len(OwnRollout)] = None] \in Seq(Snapshot \cup {None})
            /\ [OwnRollout EXCEPT ![Len(OwnRollout)] = None] # <<>>
        BY OwnRolloutReplaced
      <4>2. rollouts' \in Seq(Snapshot \cup {None}) /\ ownRollout' \in BOOLEAN
            /\ (ownRollout' => rollouts' # <<>>)
        <5>1. \/ rollouts' = [OwnRollout EXCEPT ![Len(OwnRollout)] = None] /\ ownRollout' = TRUE
              \/ UNCHANGED <<rollouts, ownRollout>>
          BY <3>23 DEF ClearEvent
        <5>2. CASE UNCHANGED <<rollouts, ownRollout>>
          BY <5>2
        <5>3. CASE rollouts' = [OwnRollout EXCEPT ![Len(OwnRollout)] = None] /\ ownRollout' = TRUE
          <6> HIDE DEF Typed, TypeOK
          <6> QED BY <4>1, <5>3
        <5> QED BY <5>1, <5>2, <5>3
      <4>3. pc' \in {"idle", "deliver", "wipe"}
        BY <3>23 DEF ClearEvent
      <4>4. faults' \in 0 .. MaxFaults
        BY <3>23 DEF ClearEvent
      <4>5. cleared' \subseteq Turns /\ ended' \subseteq Turns
        BY <3>23 DEF ClearEvent
      <4> QED BY <3>23, <4>2, <4>3, <4>4, <4>5 DEF ClearEvent
    <3>24. CASE WipeJournal BY <3>24 DEF WipeJournal
    <3> QED BY <2>1, <3>1, <3>2, <3>3, <3>4, <3>5, <3>6, <3>7, <3>8, <3>9, <3>10, <3>11, <3>12,
               <3>13, <3>14, <3>15, <3>16, <3>17, <3>18, <3>19, <3>20, <3>21, <3>22, <3>23, <3>24 DEF Step
  <2>2. ASSUME NEW p \in Paths, StartTurn(p) PROVE Typed'
    <3>1. p \in {"stream", "sync"}
      OBVIOUS
    <3>2. turn' \in Turns /\ turn' \in 0 .. MaxTurns /\ lastTurn' \in 0 .. MaxTurns
      BY <2>2 DEF StartTurn
    <3>3. round' \in -1 .. MaxRounds /\ round' < MaxRounds
      BY <2>2 DEF StartTurn
    <3>4. got' \in 0 .. MaxItems /\ roundStart' \in 0 .. MaxItems
      BY <2>2 DEF StartTurn
    <3> QED BY <2>2, <3>1, <3>2, <3>3, <3>4 DEF StartTurn
  <2>3. CASE Interrupt BY <2>3 DEF Interrupt
  <2>4. CASE CrashRestart
    <3>1. TypeOK'
      <4>1. restarts' \in 0 .. MaxRestarts
        BY <2>4 DEF CrashRestart
      <4>2. round' \in -1 .. MaxRounds
        BY <2>4 DEF CrashRestart
      <4> QED BY <2>4, <4>1, <4>2 DEF CrashRestart
    <3>2. pc' = "idle" /\ ~ownRollout'
      BY <2>4 DEF CrashRestart
    <3> QED BY <3>1, <3>2
  <2>5. CASE Resume
    <3>1. Load \in Snapshot
      BY <2>5, LoadType DEF Resume, Load
    <3>2. turn' \in Turns /\ round' \in 0 .. MaxRounds /\ got' \in 0 .. MaxItems
          /\ roundStart' \in 0 .. MaxItems
      BY <2>5, <3>1 DEF Resume, Snapshot
    <3>3. active' \in FileNames \cup {None}
      BY <2>5 DEF Resume, FileNames
    <3>4. turn' \in 0 .. MaxTurns
      BY <3>2 DEF Turns
    <3>5. cleared' \subseteq Turns /\ ended' \subseteq Turns /\ note' \subseteq Items /\ cut' \subseteq Items
      BY <2>5 DEF Resume, Notes
    <3> QED BY <2>5, <3>2, <3>3, <3>4, <3>5 DEF Resume
  <2>6. CASE UNCHANGED vars BY <2>6 DEF vars
  <2> QED BY <2>1, <2>2, <2>3, <2>4, <2>5, <2>6 DEF Next
<1> QED BY <1>1, <1>2, PTL DEF Spec

----------------------------------------------------------------------------
(***************************************************************************)
(* What a new process would load, and what the rollouts alone would give.  *)
(***************************************************************************)
Kept(t)  == LoadedBy(None) \in Snapshot /\ LoadedBy(None).turn = t
InLog(t) == Rebuilt \in Snapshot /\ Rebuilt.turn = t

InRound == {"loop", "issue", "exec", "ran", "log", "round_end"}
InSave  == {"save", "write", "record"}

(***************************************************************************)
(* While no disk operation failed: the begun turn is kept; the pointer, if *)
(* it names a round file, names a whole one, of a turn that is also kept,  *)
(* and in the rollouts too unless this is a resumed turn, so that the next *)
(* turn may truncate the main file; a round is saved under a new name.     *)
(***************************************************************************)
Recoverable ==
    faults = 0 =>
    /\ begun => Kept(turn)
    /\ begun /\ path \in {"stream", "sync"} => InLog(turn)
    /\ active \in Rounds =>
           /\ files[active] \in Snapshot /\ files[active].round = active
           /\ Kept(files[active].turn)
           /\ path # "resume" => InLog(files[active].turn)
           /\ path = "resume" => pc \notin {"idle", "clear_main", "clear_event", "wipe"}
           /\ pc \in {"loop", "issue", "exec", "ran"} => active < round
           /\ pc \in {"save", "write"} /\ round # -1 => active < round
           /\ pc \in {"record", "log", "round_end"} => active <= round
    /\ pc \in InRound => begun
    /\ pc \in InSave /\ round # -1 => begun
    /\ pc \in InSave /\ round = -1 => ~begun /\ path \in {"stream", "sync"}
    /\ pc = "record" /\ round = -1 =>
           active = -1 /\ files[-1] \in Snapshot /\ files[-1].turn = turn
    /\ pc \in {"clear_main", "clear_event", "wipe"} => ~begun /\ active = None
    /\ then = "deliver" => path = "sync"
    /\ pc = "deliver" => path # "resume"

\* The rollouts answer the same as long as they are not written.
LEMMA RebuiltStays == rollouts' = rollouts => Rebuilt' = Rebuilt
  BY DEF Rebuilt, NewestLive

\* A snapshot recorded by this process is what the rollouts answer.
LEMMA RebuiltIsNew ==
    ASSUME Typed, NEW e \in Snapshot,
           rollouts' = [OwnRollout EXCEPT ![Len(OwnRollout)] = e]
    PROVE  Rebuilt' = e
<1> DEFINE n == Len(OwnRollout)
<1>1. DOMAIN rollouts' = 1 .. n /\ n \in 1 .. n /\ rollouts'[n] = e
  BY OwnRolloutType
<1>2. \A i \in DOMAIN rollouts' : NewestLive(i)' <=> i = n
  BY <1>1, SentinelAssumption DEF NewestLive
<1>3. (CHOOSE i \in DOMAIN rollouts : NewestLive(i))' = n
  BY <1>1, <1>2
<1> QED BY <1>1, <1>2, <1>3 DEF Rebuilt

\* A new file without a snapshot changes nothing of what the rollouts answer.
LEMMA RebuiltIgnoresEmpty ==
    ASSUME Typed, rollouts' = OwnRollout
    PROVE  Rebuilt' = Rebuilt
<1>1. CASE ownRollout
  BY <1>1, RebuiltStays DEF OwnRollout
<1>2. CASE ~ownRollout
  <2>1. rollouts \in Seq(Snapshot \cup {None}) /\ rollouts' = Append(rollouts, None)
    BY <1>2 DEF OwnRollout, Typed, TypeOK
  <2>2. DOMAIN rollouts = 1 .. Len(rollouts) /\ DOMAIN rollouts' = 1 .. Len(rollouts) + 1
        /\ rollouts'[Len(rollouts) + 1] = None
        /\ \A i \in DOMAIN rollouts : rollouts'[i] = rollouts[i]
    BY <2>1
  <2>3. Len(rollouts) \in Nat
    BY <2>1
  <2>4. \A i : i \in DOMAIN rollouts' /\ NewestLive(i)' <=> i \in DOMAIN rollouts /\ NewestLive(i)
    BY <2>2, <2>3 DEF NewestLive
  <2>5. (CHOOSE i \in DOMAIN rollouts : NewestLive(i))' = CHOOSE i \in DOMAIN rollouts : NewestLive(i)
    BY <2>4
  <2>6. CASE \E i \in DOMAIN rollouts : NewestLive(i)
    <3> DEFINE i == CHOOSE i \in DOMAIN rollouts : NewestLive(i)
    <3>1. i \in DOMAIN rollouts
      BY <2>6
    <3>2. Rebuilt = rollouts[i] /\ Rebuilt' = rollouts'[i]
      BY <2>4, <2>5, <2>6 DEF Rebuilt
    <3> QED BY <2>2, <3>1, <3>2
  <2>7. CASE ~\E i \in DOMAIN rollouts : NewestLive(i)
    BY <2>4, <2>7 DEF Rebuilt
  <2> QED BY <2>6, <2>7
<1> QED BY <1>1, <1>2

\* Every step keeps the recovery points.
LEMMA RecoverableInvariant == Spec => []Recoverable
<1>1. Init => Recoverable
  BY SentinelAssumption DEF Init, Recoverable, InRound, InSave, Rounds, FileNames
<1>2. Typed /\ Typed' /\ Recoverable /\ [Next]_vars => Recoverable'
  <2> SUFFICES ASSUME Typed, Typed', Recoverable, [Next]_vars PROVE Recoverable'
    OBVIOUS
  <2> USE ConstantsAssumption, SentinelAssumption DEF Recoverable, Kept, InLog, LoadedBy, InRound,
          InSave, Typed, TypeOK, Snapshot, FileNames, Rounds, AfterSave, memory, disk, history
  <2>1. ASSUME Step PROVE Recoverable'
    <3>1. CASE SaveOpen BY <3>1, RebuiltStays DEF SaveOpen
    <3>2. CASE SaveWrite BY <3>2, RebuiltStays DEF SaveWrite
    <3>3. CASE SaveFails BY <3>3, RebuiltStays DEF SaveFails
    <3>4. CASE RecordSnapshot
      <4>1. CASE round = -1
        <5>1. Rebuilt' = [turn |-> turn, round |-> -1, got |-> got]
          <6> DEFINE e == [turn |-> turn, round |-> -1, got |-> got]
          <6>1. e \in Snapshot
            BY <3>4 DEF RecordSnapshot
          <6>2. rollouts' = [OwnRollout EXCEPT ![Len(OwnRollout)] = e]
            BY <3>4, <4>1 DEF RecordSnapshot
          <6> HIDE DEF e
          <6>3. Rebuilt' = e
            BY <6>1, <6>2, RebuiltIsNew
          <6> QED BY <6>3 DEF e
        <5> QED BY <3>4, <4>1, <5>1 DEF RecordSnapshot, AfterSave
      <4>2. CASE round # -1
        <5>1. Rebuilt' = Rebuilt
          BY <3>4, <4>2, RebuiltIgnoresEmpty DEF RecordSnapshot
        <5> QED BY <3>4, <4>2, <5>1 DEF RecordSnapshot, AfterSave
      <4> QED BY <4>1, <4>2
    <3>5. CASE RecordFails BY <3>5, RebuiltStays DEF RecordFails
    <3>6. CASE BudgetPause BY <3>6, RebuiltStays DEF BudgetPause
    <3>7. CASE RoundsSpent BY <3>7, RebuiltStays DEF RoundsSpent
    <3>8. CASE ModelError BY <3>8, RebuiltStays DEF ModelError
    <3>9. CASE Truncated BY <3>9, RebuiltStays DEF Truncated
    <3>10. CASE Answer BY <3>10, RebuiltStays DEF Answer
    <3>11. CASE AskTools BY <3>11, RebuiltStays DEF AskTools
    <3>12. CASE JournalCall BY <3>12, RebuiltStays DEF JournalCall
    <3>13. CASE ExecTool BY <3>13, RebuiltStays DEF ExecTool
    <3>14. CASE HeedNote BY <3>14, RebuiltStays DEF HeedNote
    <3>15. CASE KeepResult BY <3>15, RebuiltStays DEF KeepResult
    <3>16. CASE LogRound BY <3>16, RebuiltStays DEF LogRound
    <3>17. CASE NextRound BY <3>17, RebuiltStays DEF NextRound
    <3>18. CASE StopAfterRound BY <3>18, RebuiltStays DEF StopAfterRound
    <3>19. CASE Deliver BY <3>19, RebuiltStays DEF Deliver
    <3>20. CASE Finalize BY <3>20, RebuiltStays DEF Finalize
    <3>21. CASE ClearActive BY <3>21, RebuiltStays DEF ClearActive
    <3>22. CASE ClearMain BY <3>22, RebuiltStays DEF ClearMain
    <3>23. CASE ClearEvent BY <3>23, RebuiltStays DEF ClearEvent
    <3>24. CASE WipeJournal BY <3>24, RebuiltStays DEF WipeJournal
    <3> QED BY <2>1, <3>1, <3>2, <3>3, <3>4, <3>5, <3>6, <3>7, <3>8, <3>9, <3>10, <3>11, <3>12,
               <3>13, <3>14, <3>15, <3>16, <3>17, <3>18, <3>19, <3>20, <3>21, <3>22, <3>23, <3>24 DEF Step
  <2>2. ASSUME NEW p \in Paths, StartTurn(p) PROVE Recoverable'
    BY <2>2, RebuiltStays DEF StartTurn
  <2>3. CASE Interrupt BY <2>3, RebuiltStays DEF Interrupt
  <2>4. CASE CrashRestart BY <2>4, RebuiltStays DEF CrashRestart
  <2>5. CASE Resume
    <3>1. Load \in Snapshot /\ Rebuilt' = Rebuilt /\ files' = files
      BY <2>5, LoadType, RebuiltStays DEF Resume, Load
    <3>2. LoadedBy(None)' = LoadedBy(None)
      BY <3>1
    <3>3. CASE active \in Rounds
      <4>1. faults = 0 => Load = files[active] /\ Kept(Load.turn) /\ Load.round = active
        BY <3>3 DEF Load
      <4>2. active' = active
        BY <2>5, <3>3 DEF Resume
      <4> QED BY <2>5, <3>1, <3>3, <4>1, <4>2 DEF Resume
    <3>4. CASE active \notin Rounds
      <4>1. Load = LoadedBy(None) /\ active' \notin Rounds
        BY <2>5, <3>4 DEF Resume, Load
      <4>2. Kept(Load.turn)
        BY <3>1, <4>1
      <4> QED BY <2>5, <3>1, <4>1, <4>2 DEF Resume
    <3> QED BY <3>3, <3>4
  <2>6. CASE UNCHANGED vars BY <2>6, RebuiltStays DEF vars
  <2> QED BY <2>1, <2>2, <2>3, <2>4, <2>5, <2>6 DEF Next
<1> QED BY <1>1, <1>2, TypedInvariant, PTL DEF Spec

----------------------------------------------------------------------------
(***************************************************************************)
(* What is on disk is of turns that were started, whatever fails.          *)
(***************************************************************************)
Of(e, t) == e \in Snapshot /\ e.turn = t

Past ==
    /\ turn <= lastTurn
    /\ cleared \subseteq 1 .. lastTurn
    /\ \A e \in ran : e[1][1] <= lastTurn
    /\ \A n \in FileNames : files[n] \in Snapshot => files[n].turn <= lastTurn
    /\ \A i \in DOMAIN rollouts : rollouts[i] \in Snapshot => rollouts[i].turn <= lastTurn
    /\ pc # "idle" /\ path \in {"stream", "sync"} => turn = lastTurn

\* Writing the last event of the own rollout file leaves the other files alone.
LEMMA RolloutWritten ==
    ASSUME Typed, NEW e \in Snapshot \cup {None},
           rollouts' = [OwnRollout EXCEPT ![Len(OwnRollout)] = e]
    PROVE  \A i \in DOMAIN rollouts' :
              \/ i = Len(OwnRollout) /\ rollouts'[i] = e
              \/ i # Len(OwnRollout) /\ i \in DOMAIN rollouts /\ rollouts'[i] = rollouts[i]
<1>1. DOMAIN rollouts' = 1 .. Len(OwnRollout) /\ Len(OwnRollout) \in Nat
      /\ rollouts'[Len(OwnRollout)] = e
      /\ \A i \in DOMAIN rollouts' : i # Len(OwnRollout) => rollouts'[i] = OwnRollout[i]
  BY OwnRolloutType
<1>2. CASE ownRollout
  BY <1>1, <1>2 DEF OwnRollout, Typed, TypeOK
<1>3. CASE ~ownRollout
  <2>1. rollouts \in Seq(Snapshot \cup {None}) /\ OwnRollout = Append(rollouts, None)
    BY <1>3 DEF OwnRollout, Typed, TypeOK
  <2>2. /\ Len(OwnRollout) = Len(rollouts) + 1 /\ Len(rollouts) \in Nat
        /\ DOMAIN rollouts = 1 .. Len(rollouts)
        /\ \A i \in DOMAIN rollouts : OwnRollout[i] = rollouts[i]
    BY <2>1
  <2> QED BY <1>1, <2>2
<1> QED BY <1>2, <1>3

\* Opening the own rollout file adds no snapshot.
LEMMA RolloutOpened ==
    ASSUME Typed, rollouts' = OwnRollout
    PROVE  \A i \in DOMAIN rollouts' :
              rollouts'[i] = None \/ (i \in DOMAIN rollouts /\ rollouts'[i] = rollouts[i])
<1>1. CASE ownRollout
  BY <1>1 DEF OwnRollout
<1>2. CASE ~ownRollout
  <2>1. rollouts \in Seq(Snapshot \cup {None}) /\ rollouts' = Append(rollouts, None)
    BY <1>2 DEF OwnRollout, Typed, TypeOK
  <2> QED BY <2>1
<1> QED BY <1>1, <1>2

\* What is loaded is one of the files or of the rollouts.
LEMMA RebuiltFrom ==
    ASSUME Rebuilt # None
    PROVE  \E i \in DOMAIN rollouts : NewestLive(i) /\ Rebuilt = rollouts[i]
  BY DEF Rebuilt

LEMMA SnapshotFields == \A e \in Snapshot : e.turn \in Nat /\ e.got \in Nat
  BY ConstantsAssumption DEF Snapshot, Turns

\* Past is kept by every step.
LEMMA PastInvariant == Spec => []Past
<1>1. Init => Past
  BY SentinelAssumption DEF Init, Past
<1>2. Typed /\ Typed' /\ Past /\ [Next]_vars => Past'
  <2> SUFFICES ASSUME Typed, Typed', Past, [Next]_vars PROVE Past'
    OBVIOUS
  <2>0. ASSUME UNCHANGED <<turn, lastTurn, cleared, ran, files, rollouts, path>>,
               pc # "idle" \/ pc' = "idle"
        PROVE  Past'
    BY <2>0 DEF Past
  <2> USE ConstantsAssumption, SentinelAssumption DEF Past, Typed, TypeOK, Snapshot, Turns, Rounds,
          FileNames, AfterSave, memory, disk, history
  <2>1. ASSUME Step PROVE Past'
    <3>1. CASE SaveOpen BY <3>1 DEF SaveOpen
    <3>2. CASE SaveWrite BY <3>2 DEF SaveWrite
    <3>3. CASE SaveFails BY <3>3 DEF SaveFails
    <3>4. CASE RecordSnapshot
      <4>1. \A i \in DOMAIN rollouts' : rollouts'[i] \in Snapshot => rollouts'[i].turn <= lastTurn
        <5> DEFINE e == [turn |-> turn, round |-> -1, got |-> got]
        <5>1. CASE round = -1
          <6>1. e \in Snapshot /\ e.turn = turn
            BY <3>4 DEF RecordSnapshot
          <6>2. rollouts' = [OwnRollout EXCEPT ![Len(OwnRollout)] = e]
            BY <3>4, <5>1 DEF RecordSnapshot
          <6> HIDE DEF e
          <6> QED BY <6>1, <6>2, RolloutWritten
        <5>2. CASE round # -1
          <6>1. rollouts' = OwnRollout
            BY <3>4, <5>2 DEF RecordSnapshot
          <6> QED BY <6>1, RolloutOpened
        <5> QED BY <5>1, <5>2
      <4> QED BY <3>4, <4>1 DEF RecordSnapshot
    <3>5. CASE RecordFails BY <3>5 DEF RecordFails
    <3>6. CASE BudgetPause \/ RoundsSpent \/ ModelError \/ Truncated \/ Answer \/ AskTools
      <4> HIDE DEF Past, Typed, TypeOK
      <4> QED BY <2>0, <3>6 DEF BudgetPause, RoundsSpent, ModelError, Truncated, Answer, AskTools
    <3>7. CASE ExecTool
      BY <3>7 DEF ExecTool, Here
    <3>8. CASE JournalCall \/ HeedNote \/ KeepResult \/ LogRound \/ NextRound \/ StopAfterRound
      <4> HIDE DEF Past, Typed, TypeOK
      <4> QED BY <2>0, <3>8 DEF JournalCall, HeedNote, KeepResult, LogRound, NextRound, StopAfterRound
    <3>9. CASE Deliver \/ Finalize \/ WipeJournal
      <4> HIDE DEF Past, Typed, TypeOK
      <4> QED BY <2>0, <3>9 DEF Deliver, Finalize, WipeJournal
    <3>10. CASE ClearActive BY <3>10 DEF ClearActive
    <3>11. CASE ClearMain BY <3>11 DEF ClearMain
    <3>12. CASE ClearEvent
      <4>1. \A i \in DOMAIN rollouts' : rollouts'[i] \in Snapshot => rollouts'[i].turn <= lastTurn
        <5>1. CASE rollouts' = [OwnRollout EXCEPT ![Len(OwnRollout)] = None]
          BY <5>1, RolloutWritten
        <5>2. CASE rollouts' = rollouts
          BY <5>2
        <5> QED BY <3>12, <5>1, <5>2 DEF ClearEvent
      <4>2. cleared' \subseteq 1 .. lastTurn
        BY <3>12 DEF ClearEvent
      <4> QED BY <3>12, <4>1, <4>2 DEF ClearEvent
    <3> QED BY <2>1, <3>1, <3>2, <3>3, <3>4, <3>5, <3>6, <3>7, <3>8, <3>9, <3>10, <3>11, <3>12 DEF Step
  <2>2. ASSUME NEW p \in Paths, StartTurn(p) PROVE Past'
    <3>1. turn' = lastTurn + 1 /\ lastTurn' = lastTurn + 1 /\ UNCHANGED <<cleared, ran, files, rollouts>>
      BY <2>2 DEF StartTurn
    <3>2. \A e \in ran : e[1][1] \in Nat
      BY DEF Items
    <3>3. \A e \in Snapshot : e.turn \in Nat
      BY SnapshotFields
    <3>4. lastTurn \in Nat
      OBVIOUS
    <3> HIDE DEF Typed, TypeOK, Snapshot, FileNames
    <3> QED BY <3>1, <3>2, <3>3, <3>4
  <2>3. CASE Interrupt
    BY <2>3, <2>0 DEF Interrupt
  <2>5. CASE CrashRestart
    BY <2>5 DEF CrashRestart
  <2>6. CASE UNCHANGED vars
    BY <2>6, <2>0 DEF vars
  <2>4. CASE Resume
    <3>1. Load.turn <= lastTurn
      BY <2>4, LoadType, RebuiltFrom DEF Resume, Load, LoadedBy
    <3> QED BY <2>4, <3>1 DEF Resume
  <2> QED BY <2>1, <2>2, <2>3, <2>4, <2>5, <2>6 DEF Next
<1> QED BY <1>1, <1>2, TypedInvariant, PTL DEF Spec

----------------------------------------------------------------------------
(***************************************************************************)
(* What a program point says of the turn it works on, whatever fails.      *)
(***************************************************************************)
\* The turn left nothing yet but its main file.
Unrecorded(t) ==
    /\ \A n \in Rounds : ~Of(files[n], t)
    /\ \A i \in DOMAIN rollouts : ~Of(rollouts[i], t)
    /\ \A e \in ran : e[1][1] # t

FreshStart ==
    pc \in InSave /\ round = -1 =>
        path \in {"stream", "sync"} /\ ~begun /\ roundStart = 0 /\ Unrecorded(turn)

\* A turn that is not resumed has executed the items before the next one.
Counted ==
    /\ pc \in InSave \cup InRound => roundStart <= got
    /\ pc # "idle" /\ path \in {"stream", "sync"} =>
          \A e \in ran : e[1][1] = turn => e[1][2] <= IF pc = "ran" THEN got + 1 ELSE got

Flow ==
    /\ pc \in InRound \/ (pc \in InSave /\ round # -1) => begun
    /\ pc \in {"clear_main", "clear_event", "wipe"} => ~begun /\ active = None
    /\ pc = "exec" => path = "stream"
    /\ then = "wipe" => path = "resume"
    /\ (then = "wipe" /\ pc \in {"clear", "clear_main", "clear_event"}) \/ pc = "wipe" =>
          turn \in finalized

Staged == FreshStart /\ Counted /\ Flow

\* A turn that starts is none of those before.
LEMMA NewTurn ==
    ASSUME Typed, Past, NEW t, t = lastTurn + 1
    PROVE  Unrecorded(t)
<1>1. \A e \in ran : e[1][1] # t
  <2>1. lastTurn \in Nat /\ \A e \in ran : e[1][1] \in Nat
    BY ConstantsAssumption DEF Typed, TypeOK, Items, Turns
  <2> QED BY <2>1 DEF Past
<1>2. lastTurn \in Nat
  BY ConstantsAssumption DEF Typed, TypeOK
<1>3. \A e \in Snapshot : e.turn <= lastTurn => ~Of(e, t)
  BY <1>2, SnapshotFields DEF Of
<1> QED BY <1>1, <1>3 DEF Past, Unrecorded, Rounds, FileNames, Of

\* Staged is kept by every step.
LEMMA StagedInvariant == Spec => []Staged
<1>1. Init => Staged
  BY DEF Init, Staged, FreshStart, Counted, Flow, InSave, InRound
<1>2. Typed /\ Typed' /\ Past /\ Staged /\ [Next]_vars => FreshStart'
  <2> SUFFICES ASSUME Typed, Typed', Past, Staged, [Next]_vars PROVE FreshStart'
    OBVIOUS
  <2> USE DEF InSave, InRound, memory, disk, history
  <2>0. ASSUME pc' \notin InSave \/ round' # -1 PROVE FreshStart'
    BY <2>0 DEF FreshStart
  <2>1. CASE SaveOpen \/ SaveWrite \/ SaveFails
    <3>1. /\ UNCHANGED <<round, path, begun, roundStart, turn, rollouts, ran>> /\ pc \in InSave
          /\ files' = files \/ \E f : files' = [files EXCEPT ![round] = f]
      BY <2>1 DEF SaveOpen, SaveWrite, SaveFails
    <3>2. CASE round = -1
      <4>1. \A n \in Rounds : files'[n] = files[n]
        BY <3>1, <3>2 DEF Typed, TypeOK, Rounds, FileNames
      <4> QED BY <3>1, <3>2, <4>1 DEF Staged, FreshStart, Unrecorded
    <3> QED BY <2>0, <3>1, <3>2
  <2>2. CASE RecordSnapshot \/ RecordFails
    BY <2>2, <2>0 DEF RecordSnapshot, RecordFails, AfterSave
  <2>3. CASE BudgetPause \/ RoundsSpent \/ ModelError \/ Truncated \/ Answer \/ AskTools
    BY <2>3, <2>0 DEF BudgetPause, RoundsSpent, ModelError, Truncated, Answer, AskTools
  <2>4. CASE JournalCall \/ ExecTool \/ HeedNote \/ LogRound \/ NextRound \/ StopAfterRound
    BY <2>4, <2>0 DEF JournalCall, ExecTool, HeedNote, LogRound, NextRound, StopAfterRound
  <2>5. CASE KeepResult
    <3>1. round' = round /\ round >= 0
      BY <2>5 DEF KeepResult, Typed
    <3>2. round' # -1
      BY <3>1
    <3> QED BY <2>0, <3>2
  <2>6. CASE Deliver \/ Finalize \/ ClearActive \/ ClearMain \/ WipeJournal
    BY <2>6, <2>0 DEF Deliver, Finalize, ClearActive, ClearMain, WipeJournal
  <2>7. CASE ClearEvent
    BY <2>7, <2>0 DEF ClearEvent, Typed, TypeOK
  <2>8. CASE \E p \in Paths : StartTurn(p)
    <3>1. /\ path' \in {"stream", "sync"} /\ ~begun' /\ roundStart' = 0 /\ turn' = lastTurn + 1
          /\ UNCHANGED <<files, rollouts, ran>>
      BY <2>8, ConstantsAssumption DEF StartTurn
    <3>2. Unrecorded(lastTurn + 1)
      BY NewTurn
    <3> QED BY <3>1, <3>2 DEF FreshStart, Unrecorded
  <2>9. CASE Interrupt \/ CrashRestart \/ Resume
    BY <2>9, <2>0 DEF Interrupt, CrashRestart, Resume
  <2>10. CASE UNCHANGED vars
    BY <2>10 DEF vars, Staged, FreshStart, Unrecorded
  <2> QED BY <2>1, <2>2, <2>3, <2>4, <2>5, <2>6, <2>7, <2>8, <2>9, <2>10 DEF Next, Step
<1>3. Typed /\ Typed' /\ Past /\ Staged /\ [Next]_vars => Counted'
  <2> SUFFICES ASSUME Typed, Typed', Past, Staged, [Next]_vars PROVE Counted'
    OBVIOUS
  <2> USE ConstantsAssumption DEF InSave, InRound, memory, disk, history
  <2>1. got \in Nat /\ roundStart \in Nat /\ turn \in Nat
    BY DEF Typed, TypeOK
  <2>0. ASSUME pc' = "idle" PROVE Counted'
    BY <2>0 DEF Counted, InSave, InRound
  <2>2. ASSUME UNCHANGED <<path, turn, got, roundStart, ran>>, pc # "idle", pc # "ran", pc' # "ran",
               pc' \in InSave \cup InRound => pc \in InSave \cup InRound
        PROVE  Counted'
    BY <2>2 DEF Staged, Counted
  <2>3. CASE SaveOpen \/ SaveWrite \/ SaveFails \/ RecordSnapshot \/ RecordFails
    BY <2>3, <2>2 DEF SaveOpen, SaveWrite, SaveFails, RecordSnapshot, RecordFails, AfterSave
  <2>4. CASE BudgetPause \/ RoundsSpent \/ ModelError \/ Truncated \/ Answer \/ AskTools
    BY <2>4, <2>2 DEF BudgetPause, RoundsSpent, ModelError, Truncated, Answer, AskTools
  <2>5. CASE JournalCall \/ LogRound \/ StopAfterRound
    BY <2>5, <2>2 DEF JournalCall, LogRound, StopAfterRound
  <2>6. CASE ExecTool
    <3>1. /\ ran' = ran \cup {<<<<turn, got + 1>>, path>>} /\ pc' = "ran" /\ pc \in {"issue", "exec"}
          /\ UNCHANGED <<path, turn, got, roundStart>>
      BY <2>6 DEF ExecTool, Here
    <3>2. \A e \in ran : e[1][2] \in Nat
      BY DEF Typed, TypeOK, Items
    <3> QED BY <2>1, <3>1, <3>2 DEF Staged, Counted
  <2>7. CASE HeedNote
    BY <2>7 DEF HeedNote, Staged, Counted
  <2>8. CASE KeepResult
    BY <2>8, <2>1 DEF KeepResult, Staged, Counted
  <2>9. CASE NextRound
    BY <2>9, <2>1 DEF NextRound, Staged, Counted
  <2>10. CASE Deliver \/ Finalize \/ ClearActive \/ ClearMain \/ WipeJournal
    BY <2>10, <2>2 DEF Deliver, Finalize, ClearActive, ClearMain, WipeJournal
  <2>11. CASE ClearEvent
    BY <2>11, <2>2 DEF ClearEvent, Typed, TypeOK
  <2>12. CASE \E p \in Paths : StartTurn(p)
    <3>1. /\ turn' = lastTurn + 1 /\ got' = 0 /\ roundStart' = 0 /\ ran' = ran
      BY <2>12 DEF StartTurn
    <3>2. \A e \in ran : e[1][1] # lastTurn + 1
      BY NewTurn DEF Unrecorded
    <3> QED BY <3>1, <3>2 DEF Counted
  <2>13. CASE Interrupt \/ CrashRestart
    BY <2>13, <2>0 DEF Interrupt, CrashRestart
  <2>14. CASE Resume
    <3>1. path' = "resume" /\ got' = roundStart' /\ got' \in Nat
      BY <2>14 DEF Resume, Typed, TypeOK
    <3> QED BY <3>1 DEF Counted
  <2>15. CASE UNCHANGED vars
    BY <2>15 DEF vars, Staged, Counted
  <2> QED BY <2>3, <2>4, <2>5, <2>6, <2>7, <2>8, <2>9, <2>10, <2>11, <2>12, <2>13, <2>14, <2>15
         DEF Next, Step
<1>4. Typed /\ Typed' /\ Staged /\ [Next]_vars => Flow'
  <2> SUFFICES ASSUME Typed, Typed', Staged, [Next]_vars PROVE Flow'
    OBVIOUS
  <2> USE DEF InSave, InRound, memory, disk, history, Staged, Flow
  <2>1. CASE SaveOpen \/ SaveWrite \/ SaveFails
    BY <2>1 DEF SaveOpen, SaveWrite, SaveFails
  <2>2. CASE RecordSnapshot \/ RecordFails
    BY <2>2 DEF RecordSnapshot, RecordFails, AfterSave
  <2>3. CASE BudgetPause \/ RoundsSpent \/ Truncated \/ AskTools
    BY <2>3 DEF BudgetPause, RoundsSpent, Truncated, AskTools
  <2>4. CASE ModelError \/ Answer
    BY <2>4 DEF ModelError, Answer
  <2>5. CASE JournalCall \/ ExecTool \/ HeedNote \/ LogRound
    BY <2>5 DEF JournalCall, ExecTool, HeedNote, LogRound
  <2>6. CASE KeepResult
    BY <2>6 DEF KeepResult
  <2>7. CASE NextRound \/ StopAfterRound
    BY <2>7 DEF NextRound, StopAfterRound
  <2>8. CASE Deliver \/ Finalize \/ WipeJournal
    BY <2>8 DEF Deliver, Finalize, WipeJournal
  <2>9. CASE ClearActive \/ ClearMain
    BY <2>9 DEF ClearActive, ClearMain
  <2>10. CASE ClearEvent
    BY <2>10 DEF ClearEvent, Typed, TypeOK
  <2>11. CASE \E p \in Paths : StartTurn(p)
    BY <2>11 DEF StartTurn
  <2>12. CASE Interrupt \/ CrashRestart
    BY <2>12 DEF Interrupt, CrashRestart
  <2>13. CASE Resume
    BY <2>13 DEF Resume
  <2>14. CASE UNCHANGED vars
    BY <2>14 DEF vars
  <2> QED BY <2>1, <2>2, <2>3, <2>4, <2>5, <2>6, <2>7, <2>8, <2>9, <2>10, <2>11, <2>12, <2>13, <2>14
         DEF Next, Step
<1>5. Typed /\ Typed' /\ Past /\ Staged /\ [Next]_vars => Staged'
  BY <1>2, <1>3, <1>4 DEF Staged
<1> QED BY <1>1, <1>5, TypedInvariant, PastInvariant, PTL DEF Spec

----------------------------------------------------------------------------
(***************************************************************************)
(* A cleared turn leaves the disk.  A turn is cleared last, when its files *)
(* are gone, and what is saved is of a turn that is not cleared.           *)
(***************************************************************************)
InTurn == InSave \cup InRound \cup {"finalize", "clear", "clear_main", "clear_event"}

OffDisk ==
    faults = 0 =>
    /\ \A n \in {-1, active} : files[n] \in Snapshot /\ n # None => files[n].turn \notin cleared
    /\ pc \in InTurn => turn \notin cleared
    /\ pc = "clear_event" => files[-1] \notin Snapshot

\* No failure is undone.
LEMMA FaultsGrow == ASSUME Typed, [Next]_vars PROVE faults \in Nat /\ faults' \in {faults, faults + 1}
<1>1. faults \in Nat
  BY ConstantsAssumption DEF Typed, TypeOK
<1>2. CASE Step
  BY <1>1, <1>2 DEF Step, memory, disk, history, SaveOpen, SaveWrite, SaveFails, RecordSnapshot, RecordFails,
     BudgetPause, RoundsSpent, ModelError, Truncated, Answer, AskTools, JournalCall, ExecTool, HeedNote,
     KeepResult, LogRound, NextRound, StopAfterRound, Deliver, Finalize, ClearActive, ClearMain,
     ClearEvent, WipeJournal
<1>3. CASE Interrupt \/ CrashRestart \/ Resume \/ UNCHANGED vars \/ \E p \in Paths : StartTurn(p)
  BY <1>1, <1>3 DEF StartTurn, Interrupt, CrashRestart, Resume, vars, history
<1> QED BY <1>1, <1>2, <1>3 DEF Next

LEMMA OffDiskInvariant == Spec => []OffDisk
<1>1. Init => OffDisk
  BY SentinelAssumption DEF Init, OffDisk, FileNames
<1>2. Typed /\ Typed' /\ Past /\ Staged /\ OffDisk /\ [Next]_vars => OffDisk'
  <2> SUFFICES ASSUME Typed, Typed', Past, Staged, OffDisk, [Next]_vars, faults' = 0 PROVE OffDisk'
    BY DEF OffDisk
  <2> USE ConstantsAssumption, SentinelAssumption DEF InSave, InRound, InTurn, memory, disk, history
  <2>1. faults = 0 /\ faults \in Nat
    <3>1. faults \in Nat /\ faults' \in {faults, faults + 1}
      BY FaultsGrow
    <3> QED BY <3>1
  <2>2. /\ \A n \in {-1, active} : files[n] \in Snapshot /\ n # None => files[n].turn \notin cleared
        /\ pc \in InTurn => turn \notin cleared
        /\ pc = "clear_event" => files[-1] \notin Snapshot
    BY <2>1 DEF OffDisk
  <2>3. ASSUME UNCHANGED <<files, active, cleared, turn>>, pc' # "clear_event",
               pc' \in InTurn => pc \in InTurn
        PROVE  OffDisk'
    BY <2>2, <2>3 DEF OffDisk
  <2>4. CASE SaveOpen
    <3>1. files' = [files EXCEPT ![round] = Torn] /\ UNCHANGED <<active, cleared, turn>>
          /\ pc \in InTurn /\ pc' = "write" /\ round \in FileNames
      BY <2>4 DEF SaveOpen, Typed, TypeOK, FileNames
    <3>2. \A n \in FileNames : files'[n] = IF n = round THEN Torn ELSE files[n]
      BY <3>1 DEF Typed, TypeOK
    <3>3. -1 \in FileNames /\ active \in FileNames \cup {None}
      BY DEF Typed, TypeOK, FileNames
    <3> QED BY <2>2, <3>1, <3>2, <3>3 DEF OffDisk
  <2>5. CASE SaveWrite
    <3> DEFINE e == [turn |-> turn, round |-> round, got |-> got]
    <3>1. files' = [files EXCEPT ![round] = e] /\ active' = round /\ UNCHANGED <<cleared, turn>>
          /\ pc \in InTurn /\ pc' = "record" /\ round \in FileNames /\ e.turn = turn
      BY <2>5 DEF SaveWrite, Typed, TypeOK, FileNames
    <3> HIDE DEF e
    <3>2. \A n \in FileNames : files'[n] = IF n = round THEN e ELSE files[n]
      BY <3>1 DEF Typed, TypeOK
    <3>3. -1 \in FileNames
      BY DEF FileNames
    <3> QED BY <2>2, <3>1, <3>2, <3>3 DEF OffDisk
  <2>6. CASE SaveFails
    BY <2>6, <2>1 DEF SaveFails
  <2>7. CASE RecordSnapshot \/ RecordFails
    BY <2>7, <2>3 DEF RecordSnapshot, RecordFails, AfterSave
  <2>8. CASE BudgetPause \/ RoundsSpent \/ ModelError \/ Truncated \/ Answer \/ AskTools
    BY <2>8, <2>3 DEF BudgetPause, RoundsSpent, ModelError, Truncated, Answer, AskTools
  <2>9. CASE JournalCall \/ ExecTool \/ HeedNote \/ KeepResult \/ LogRound \/ NextRound \/ StopAfterRound
    BY <2>9, <2>3 DEF JournalCall, ExecTool, HeedNote, KeepResult, LogRound, NextRound, StopAfterRound
  <2>10. CASE Deliver \/ Finalize \/ WipeJournal
    BY <2>10, <2>3 DEF Deliver, Finalize, WipeJournal
  <2>11. CASE ClearActive
    <3>1. /\ active' = None /\ UNCHANGED <<cleared, turn>> /\ pc = "clear" /\ pc' = "clear_main"
          /\ files' = files \/ files' = [files EXCEPT ![active] = None]
      BY <2>11 DEF ClearActive
    <3>2. files'[-1] \in {files[-1], None}
      BY <3>1 DEF Typed, TypeOK, FileNames
    <3> QED BY <2>2, <3>1, <3>2 DEF OffDisk
  <2>12. CASE ClearMain
    <3>1. /\ files' = [files EXCEPT ![-1] = None] /\ pc = "clear_main" /\ pc' = "clear_event"
          /\ UNCHANGED <<active, cleared, turn>>
      BY <2>12, <2>1 DEF ClearMain
    <3>2. files'[-1] = None /\ active = None
      BY <3>1 DEF Typed, TypeOK, FileNames, Staged, Flow
    <3> QED BY <2>2, <3>1, <3>2 DEF OffDisk
  <2>13. CASE ClearEvent
    <3>1. /\ files[-1] \notin Snapshot /\ active = None /\ UNCHANGED <<files, active, turn>>
          /\ pc' \in {"idle", "deliver", "wipe"}
      BY <2>13, <2>2 DEF ClearEvent, Staged, Flow, Typed, TypeOK
    <3> QED BY <3>1 DEF OffDisk
  <2>14. CASE \E p \in Paths : StartTurn(p)
    <3>1. turn' = lastTurn + 1 /\ UNCHANGED <<files, active, cleared>> /\ pc' = "save"
      BY <2>14 DEF StartTurn
    <3>2. lastTurn + 1 \notin cleared
      BY DEF Past, Typed, TypeOK
    <3> QED BY <2>2, <3>1, <3>2 DEF OffDisk
  <2>15. CASE Interrupt
    BY <2>15, <2>3 DEF Interrupt
  <2>16. CASE CrashRestart
    BY <2>16, <2>2 DEF CrashRestart, OffDisk
  <2>17. CASE Resume
    <3>1. /\ files' = files /\ cleared' = cleared \ {turn'} /\ pc' = "loop"
          /\ active' \in {active, -1}
      BY <2>17 DEF Resume
    <3> QED BY <2>2, <3>1 DEF OffDisk
  <2>18. CASE UNCHANGED vars
    BY <2>18, <2>2 DEF vars, OffDisk
  <2> QED BY <2>4, <2>5, <2>6, <2>7, <2>8, <2>9, <2>10, <2>11, <2>12, <2>13, <2>14, <2>15, <2>16,
             <2>17, <2>18 DEF Next, Step
<1> QED BY <1>1, <1>2, TypedInvariant, PastInvariant, StagedInvariant, PTL DEF Spec

----------------------------------------------------------------------------
(***************************************************************************)
(* What this process would load continues the turn it works on.  A round   *)
(* is counted as begun (roundStart) only when the one before it is saved,  *)
(* and it is saved under a name that is not the pointer's, so that a save  *)
(* cut off in the middle leaves the last one to be loaded.                 *)
(***************************************************************************)
Continued ==
    faults = 0 =>
    /\ path # "none" /\ begun => Of(Load, turn) /\ Load.got >= roundStart
    /\ pc \in {"record", "log", "round_end"} /\ round # -1 =>
          active = round /\ files[active] \in Snapshot /\ files[active].got = got

LEMMA ContinuedInvariant == Spec => []Continued
<1>1. Init => Continued
  BY DEF Init, Continued
<1>2. Typed /\ Typed' /\ Past /\ Staged /\ Recoverable /\ Continued /\ [Next]_vars => Continued'
  <2> SUFFICES ASSUME Typed, Typed', Staged, Recoverable, Continued, [Next]_vars, faults' = 0
               PROVE  Continued'
    BY DEF Continued
  <2> USE ConstantsAssumption, SentinelAssumption DEF InSave, InRound, memory, disk, history
  <2>1. faults = 0
    <3>1. faults \in Nat /\ faults' \in {faults, faults + 1}
      BY FaultsGrow
    <3> QED BY <3>1
  <2>2. /\ path # "none" /\ begun => Of(Load, turn) /\ Load.got >= roundStart
        /\ pc \in {"record", "log", "round_end"} /\ round # -1 =>
              active = round /\ files[active] \in Snapshot /\ files[active].got = got
    BY <2>1 DEF Continued
  <2>0. ASSUME ~begun', pc' \notin {"record", "log", "round_end"} \/ round' = -1 PROVE Continued'
    BY <2>0 DEF Continued
  <2>3. ASSUME UNCHANGED <<turn, path, begun, roundStart, files, active>>, Rebuilt' = Rebuilt,
               pc' \in {"record", "log", "round_end"} /\ round' # -1 =>
                   pc \in {"record", "log", "round_end"} /\ round' = round /\ got' = got
        PROVE  Continued'
    BY <2>2, <2>3 DEF Continued, Load, LoadedBy, Of
  <2>4. CASE SaveOpen
    <3>1. UNCHANGED <<turn, path, begun, roundStart, active, rollouts, round>> /\ pc' = "write"
      BY <2>4 DEF SaveOpen
    <3>2. CASE begun
      <4>1. round # -1
        BY <2>4, <3>2 DEF Staged, FreshStart, SaveOpen
      <4>2. active \in FileNames \cup {None} /\ round \in FileNames
            /\ (active \in Rounds => active < round)
        BY <2>4, <2>1, <4>1 DEF SaveOpen, Typed, TypeOK, FileNames, Recoverable
      <4>3. files'[IF active = None THEN -1 ELSE active] = files[IF active = None THEN -1 ELSE active]
        BY <2>4, <4>1, <4>2 DEF SaveOpen, Typed, TypeOK, FileNames, Rounds
      <4>4. Load' = Load
        BY <3>1, <4>3, RebuiltStays DEF Load, LoadedBy
      <4> QED BY <2>2, <3>1, <4>4 DEF Continued, Of
    <3>3. CASE ~begun
      BY <3>1, <3>3, <2>0
    <3> QED BY <3>2, <3>3
  <2>5. CASE SaveWrite
    <3> DEFINE e == [turn |-> turn, round |-> round, got |-> got]
    <3>1. /\ UNCHANGED <<turn, path, begun, roundStart, round, got>> /\ active' = round
          /\ files' = [files EXCEPT ![round] = e] /\ round \in FileNames
          /\ e \in Snapshot /\ e.turn = turn /\ e.got = got /\ roundStart <= got
      BY <2>5 DEF SaveWrite, Typed, TypeOK, FileNames, Snapshot, Rounds, Staged, Counted
    <3> HIDE DEF e
    <3>2. files'[round] = e /\ round # None
      BY <3>1 DEF Typed, TypeOK
    <3>3. Load' = e
      BY <3>1, <3>2 DEF Load, LoadedBy
    <3> QED BY <3>1, <3>2, <3>3 DEF Continued, Of, Typed, TypeOK
  <2>6. CASE SaveFails \/ RecordFails
    BY <2>6, <2>1 DEF SaveFails, RecordFails
  <2>7. CASE RecordSnapshot
    <3>1. UNCHANGED <<turn, path, roundStart, files, active, got>>
      BY <2>7 DEF RecordSnapshot
    <3>2. CASE round = -1
      <4>1. active = -1 /\ files[-1] \in Snapshot /\ files[-1].turn = turn /\ roundStart = 0
        BY <2>7, <2>1, <3>2 DEF RecordSnapshot, Recoverable, Staged, FreshStart
      <4>2. Load' = files[-1] /\ files[-1].got >= 0
        BY <3>1, <4>1, SnapshotFields DEF Load, LoadedBy, FileNames
      <4>3. pc' = "loop"
        BY <2>7, <3>2 DEF RecordSnapshot, AfterSave
      <4> QED BY <3>1, <4>1, <4>2, <4>3 DEF Continued, Of
    <3>3. CASE round # -1
      <4>1. Rebuilt' = Rebuilt
        BY <2>7, <3>3, RebuiltIgnoresEmpty DEF RecordSnapshot
      <4>2. pc = "record" /\ UNCHANGED <<round, begun>>
        BY <2>7, <3>3 DEF RecordSnapshot, AfterSave
      <4> QED BY <2>3, <3>1, <4>1, <4>2
    <3> QED BY <3>2, <3>3
  <2>8. CASE BudgetPause \/ RoundsSpent \/ ModelError \/ Truncated \/ Answer \/ AskTools
    BY <2>8, <2>3, RebuiltStays DEF BudgetPause, RoundsSpent, ModelError, Truncated, Answer, AskTools
  <2>9. CASE JournalCall \/ ExecTool \/ HeedNote \/ KeepResult \/ LogRound \/ StopAfterRound
    BY <2>9, <2>3, RebuiltStays DEF JournalCall, ExecTool, HeedNote, KeepResult, LogRound, StopAfterRound
  <2>10. CASE NextRound
    <3>1. /\ UNCHANGED <<turn, path, begun, files, active, rollouts>> /\ roundStart' = got /\ pc' = "loop"
          /\ pc = "round_end" /\ round # -1
      BY <2>10 DEF NextRound, Typed
    <3>2. active = round /\ files[active] \in Snapshot /\ files[active].got = got /\ active # None
      BY <2>2, <3>1 DEF Typed, TypeOK, Rounds, FileNames
    <3>3. Load = files[active] /\ Load' = Load /\ got \in Nat
      BY <3>1, <3>2, RebuiltStays DEF Load, LoadedBy, Typed, TypeOK
    <3> QED BY <2>2, <3>1, <3>2, <3>3 DEF Continued, Of
  <2>11. CASE Deliver \/ Finalize
    BY <2>11, <2>3, RebuiltStays DEF Deliver, Finalize
  <2>12. CASE WipeJournal
    BY <2>12, <2>3, RebuiltStays DEF WipeJournal
  <2>13. CASE ClearActive
    BY <2>13, <2>0 DEF ClearActive
  <2>14. CASE ClearMain
    BY <2>14, <2>0 DEF ClearMain, Staged, Flow
  <2>15. CASE ClearEvent
    BY <2>15, <2>0 DEF ClearEvent, Staged, Flow, Typed, TypeOK
  <2>16. CASE \E p \in Paths : StartTurn(p)
    BY <2>16, <2>0 DEF StartTurn
  <2>17. CASE Interrupt
    BY <2>17, <2>3, RebuiltStays DEF Interrupt
  <2>18. CASE CrashRestart
    BY <2>18 DEF CrashRestart, Continued
  <2>19. CASE Resume
    <3>1. /\ Load \in Snapshot /\ turn' = Load.turn /\ roundStart' = Load.got /\ pc' = "loop"
          /\ UNCHANGED <<files, rollouts>>
          /\ active' = IF active = None /\ files[-1] \in Snapshot THEN -1 ELSE active
      BY <2>19, LoadType DEF Resume, Load, Typed, TypeOK
    <3>2. Load' = Load /\ Load.got \in Nat
      BY <3>1, RebuiltStays, SnapshotFields DEF Load, LoadedBy, FileNames
    <3> QED BY <3>1, <3>2 DEF Continued, Of
  <2>20. CASE UNCHANGED vars
    BY <2>20, <2>3, RebuiltStays DEF vars
  <2> QED BY <2>4, <2>5, <2>6, <2>7, <2>8, <2>9, <2>10, <2>11, <2>12, <2>13, <2>14, <2>15, <2>16,
             <2>17, <2>18, <2>19, <2>20 DEF Next, Step
<1> QED BY <1>1, <1>2, TypedInvariant, PastInvariant, StagedInvariant, RecoverableInvariant, PTL DEF Spec

----------------------------------------------------------------------------
(***************************************************************************)
(* The newest turn keeps a copy of its prompt, in the rollouts or in the   *)
(* main file, through one failed disk operation: its start writes both,    *)
(* and nothing but the start of a turn or its clear touches either.        *)
(***************************************************************************)
OneCopy(t) == InLog(t) \/ Of(files[-1], t)

Spared ==
    faults <= 1 =>
    /\ begun /\ turn = lastTurn => OneCopy(lastTurn)
    /\ active \in Rounds /\ Of(files[active], lastTurn) => OneCopy(lastTurn)

LEMMA SparedInvariant == Spec => []Spared
<1>1. Init => Spared
  BY SentinelAssumption DEF Init, Spared, Rounds, FileNames
<1>2. Typed /\ Typed' /\ Past /\ Staged /\ Recoverable /\ Spared /\ [Next]_vars => Spared'
  <2> SUFFICES ASSUME Typed, Typed', Past, Staged, Recoverable, Spared, [Next]_vars, faults' <= 1
               PROVE  Spared'
    BY DEF Spared
  <2> USE ConstantsAssumption, SentinelAssumption DEF InSave, InRound, memory, disk, history
  <2>1. faults <= 1
    <3>1. faults \in Nat /\ faults' \in {faults, faults + 1}
      BY FaultsGrow
    <3> QED BY <3>1
  <2>2. /\ begun /\ turn = lastTurn => OneCopy(lastTurn)
        /\ active \in Rounds /\ Of(files[active], lastTurn) => OneCopy(lastTurn)
    BY <2>1 DEF Spared
  <2>3. ASSUME UNCHANGED <<turn, lastTurn, begun, files, active>>, Rebuilt' = Rebuilt
        PROVE  Spared'
    BY <2>2, <2>3 DEF Spared, OneCopy, InLog, Of
  <2>4. ASSUME ~begun', active' \notin Rounds PROVE Spared'
    BY <2>4 DEF Spared
  <2>5. ASSUME NEW e, files' = [files EXCEPT ![round] = e], round \in FileNames, pc \in InSave,
               e \in Snapshot => e.turn = turn, UNCHANGED <<turn, lastTurn, begun, rollouts>>,
               active' = active \/ active' = round
        PROVE  Spared'
    <3>1. \A n \in FileNames : files'[n] = IF n = round THEN e ELSE files[n]
      BY <2>5 DEF Typed, TypeOK
    <3>2. active \in FileNames \cup {None} /\ lastTurn' = lastTurn
      BY <2>5 DEF Typed, TypeOK
    <3>3. Rounds \subseteq FileNames /\ -1 \in FileNames /\ -1 \notin Rounds
      BY DEF Rounds, FileNames
    <3>4. CASE round = -1
      <4>1. ~begun'
        BY <2>5, <3>4 DEF Staged, FreshStart
      <4>2. active' \in Rounds => ~Of(files'[active'], lastTurn)
        <5>1. turn = lastTurn /\ \A n \in Rounds : ~Of(files[n], lastTurn)
          BY <2>5, <3>4 DEF Staged, FreshStart, Unrecorded, Past
        <5>2. \A n \in Rounds : files'[n] = files[n]
          BY <3>1, <3>3, <3>4
        <5> QED BY <5>1, <5>2
      <4> QED BY <3>2, <4>1, <4>2 DEF Spared, Of
    <3>5. CASE round # -1
      <4>1. files'[-1] = files[-1] /\ begun
        BY <2>5, <3>1, <3>3, <3>5 DEF Staged, Flow
      <4>2. OneCopy(lastTurn)' <=> OneCopy(lastTurn)
        BY <2>5, <4>1, RebuiltStays DEF OneCopy, InLog, Of
      <4>3. active' \in Rounds /\ Of(files'[active'], lastTurn) => OneCopy(lastTurn)
        <5>1. CASE active' = round
          <6>1. files'[active'] = e
            BY <2>5, <3>1, <5>1
          <6> QED BY <2>2, <2>5, <4>1, <6>1 DEF Of
        <5>2. CASE active' # round
          <6>1. active' = active /\ (active \in Rounds => files'[active] = files[active])
            BY <2>5, <3>1, <3>3, <5>2
          <6> QED BY <2>2, <6>1
        <5> QED BY <5>1, <5>2
      <4> QED BY <2>2, <2>5, <3>2, <4>2, <4>3 DEF Spared, Of
    <3> QED BY <3>4, <3>5
  <2>18. CASE SaveOpen
    <3>1. /\ files' = [files EXCEPT ![round] = Torn] /\ round \in FileNames /\ pc \in InSave
          /\ UNCHANGED <<turn, lastTurn, begun, rollouts, active>>
      BY <2>18 DEF SaveOpen, Typed, TypeOK, FileNames
    <3> QED BY <2>5, <3>1
  <2>19. CASE SaveWrite
    <3> DEFINE e == [turn |-> turn, round |-> round, got |-> got]
    <3>1. /\ files' = [files EXCEPT ![round] = e] /\ round \in FileNames /\ pc \in InSave
          /\ UNCHANGED <<turn, lastTurn, begun, rollouts>> /\ active' = round /\ e.turn = turn
      BY <2>19 DEF SaveWrite, Typed, TypeOK, FileNames
    <3> HIDE DEF e
    <3> QED BY <2>5, <3>1
  <2>6. CASE SaveFails
    BY <2>6, <2>3, RebuiltStays DEF SaveFails
  <2>7. CASE RecordSnapshot
    <3>1. CASE round = -1
      <4> DEFINE e == [turn |-> turn, round |-> -1, got |-> got]
      <4>1. e \in Snapshot /\ e.turn = lastTurn /\ lastTurn' = lastTurn
        BY <2>7, <3>1 DEF RecordSnapshot, Snapshot, Typed, TypeOK, Staged, FreshStart, Past, Rounds
      <4>2. rollouts' = [OwnRollout EXCEPT ![Len(OwnRollout)] = e]
        BY <2>7, <3>1 DEF RecordSnapshot
      <4> HIDE DEF e
      <4>3. Rebuilt' = e
        BY <4>1, <4>2, RebuiltIsNew
      <4> QED BY <4>1, <4>3 DEF Spared, OneCopy, InLog
    <3>2. CASE round # -1
      BY <2>7, <3>2, <2>3, RebuiltIgnoresEmpty DEF RecordSnapshot, AfterSave
    <3> QED BY <3>1, <3>2
  <2>8. CASE RecordFails
    <3>1. CASE round = -1
      <4>1. faults = 0 /\ UNCHANGED <<turn, lastTurn, files>>
        BY <2>8, FaultsGrow DEF RecordFails
      <4>2. Of(files[-1], turn) /\ turn = lastTurn
        BY <2>8, <3>1, <4>1 DEF RecordFails, Recoverable, Of, Staged, FreshStart, Past
      <4> QED BY <4>1, <4>2 DEF Spared, OneCopy, Of
    <3>2. CASE round # -1
      BY <2>8, <3>2, <2>3, RebuiltStays DEF RecordFails, AfterSave
    <3> QED BY <3>1, <3>2
  <2>9. CASE BudgetPause \/ RoundsSpent \/ ModelError \/ Truncated \/ Answer \/ AskTools
    BY <2>9, <2>3, RebuiltStays DEF BudgetPause, RoundsSpent, ModelError, Truncated, Answer, AskTools
  <2>10. CASE JournalCall \/ ExecTool \/ HeedNote \/ KeepResult \/ LogRound \/ NextRound \/ StopAfterRound
    BY <2>10, <2>3, RebuiltStays
       DEF JournalCall, ExecTool, HeedNote, KeepResult, LogRound, NextRound, StopAfterRound
  <2>11. CASE Deliver \/ Finalize \/ WipeJournal
    BY <2>11, <2>3, RebuiltStays DEF Deliver, Finalize, WipeJournal
  <2>12. CASE ClearActive \/ ClearMain \/ ClearEvent
    <3>1. ~begun' /\ active' = None
      BY <2>12 DEF ClearActive, ClearMain, ClearEvent, Staged, Flow
    <3> QED BY <2>4, <3>1 DEF Rounds, FileNames
  <2>13. CASE \E p \in Paths : StartTurn(p)
    <3>1. ~begun' /\ lastTurn' = lastTurn + 1 /\ UNCHANGED <<files, active>>
      BY <2>13 DEF StartTurn
    <3>2. \A n \in Rounds : ~Of(files[n], lastTurn + 1)
      BY NewTurn DEF Unrecorded
    <3> QED BY <3>1, <3>2 DEF Spared, Of
  <2>14. CASE Interrupt
    BY <2>14, <2>3, RebuiltStays DEF Interrupt
  <2>15. CASE CrashRestart
    <3>1. UNCHANGED <<turn, lastTurn, begun, files>> /\ active' \notin Rounds /\ Rebuilt' = Rebuilt
      BY <2>15, RebuiltStays DEF CrashRestart, Rounds, FileNames
    <3> QED BY <2>2, <3>1 DEF Spared, OneCopy, InLog, Of
  <2>16. CASE Resume
    <3>1. /\ Load \in Snapshot /\ turn' = Load.turn /\ UNCHANGED <<files, lastTurn>> /\ Rebuilt' = Rebuilt
          /\ active' \in {active, -1}
      BY <2>16, LoadType, RebuiltStays DEF Resume, Load, Typed, TypeOK
    <3>2. OneCopy(lastTurn)' <=> OneCopy(lastTurn)
      BY <3>1 DEF OneCopy, InLog, Of
    <3>3. Load.turn = lastTurn => OneCopy(lastTurn)
      <4>1. CASE active \in Rounds /\ files[active] \in Snapshot
        BY <2>2, <4>1 DEF Load, LoadedBy, Of, Rounds, FileNames
      <4>2. CASE ~(active \in Rounds /\ files[active] \in Snapshot)
        BY <3>1, <4>2 DEF Load, LoadedBy, OneCopy, InLog, Of, Rounds, FileNames, Typed, TypeOK
      <4> QED BY <4>1, <4>2
    <3> QED BY <2>2, <3>1, <3>2, <3>3 DEF Spared, Rounds
  <2>17. CASE UNCHANGED vars
    BY <2>17, <2>3, RebuiltStays DEF vars
  <2> QED BY <2>6, <2>7, <2>8, <2>9, <2>10, <2>11, <2>12, <2>13, <2>14, <2>15, <2>16, <2>17, <2>18, <2>19
         DEF Next, Step
<1> QED BY <1>1, <1>2, TypedInvariant, PastInvariant, StagedInvariant, RecoverableInvariant, PTL DEF Spec

----------------------------------------------------------------------------
(***************************************************************************)
(* What a resumed model is told of the newest turn.  The rollouts answer   *)
(* with that turn from its first tool call to its clear; while they do,    *)
(* nothing else is resumed, and every item the streaming loop executed for *)
(* it is in the journal.  Once they no longer do, it is not resumed at all.*)
(***************************************************************************)
NewestInLog == \A i \in DOMAIN rollouts : Of(rollouts[i], lastTurn) => NewestLive(i)

\* e is an item of the newest turn that the streaming loop executed.
Streamed(e) == e \in ran /\ e[2] = "stream" /\ e[1][1] = lastTurn

\* The newest turn is the only one to continue.
Sole ==
    InLog(lastTurn) =>
    /\ turn = lastTurn
    /\ files[-1] \in Snapshot => files[-1].turn = lastTurn
    /\ active \in Rounds /\ files[active] \in Snapshot => files[active].turn = lastTurn

\* The newest turn cannot be continued.
Gone ==
    /\ ~InLog(lastTurn) /\ ~Of(files[-1], lastTurn)
    /\ active # None => ~Of(files[active], lastTurn)
    /\ pc \in InTurn => turn # lastTurn

Traced == \A e : Streamed(e) => InLog(lastTurn) \/ Gone

Reported ==
    InLog(lastTurn) /\ lastTurn \notin finalized =>
        \A e : Streamed(e) => e[1] \in journal.calls \cup archived

Told ==
    InLog(lastTurn) /\ lastTurn \notin finalized /\ path = "resume" /\ pc # "idle" =>
        \A e : Streamed(e) => e[1] \in note \cup archived \cup cut

Shown ==
    \A e \in hidden :
        e[2] = "stream" /\ e[1][1] = lastTurn /\ lastTurn \notin finalized
            => e[1] \in archived \cup cut

Disclosed ==
    /\ NewestInLog
    /\ pc = "exec" => Here \in journal.calls
    /\ faults = 0 => Sole /\ Traced /\ Reported /\ Told /\ Shown

\* There is one newest live file.
LEMMA NewestIsRebuilt ==
    ASSUME Typed, NEW i \in DOMAIN rollouts, NewestLive(i)
    PROVE  Rebuilt = rollouts[i]
<1>1. DOMAIN rollouts \subseteq Int
  <2>1. rollouts \in Seq(Snapshot \cup {None})
    BY DEF Typed, TypeOK
  <2> QED BY <2>1
<1>2. \A j \in DOMAIN rollouts : NewestLive(j) => j = i
  BY <1>1 DEF NewestLive
<1> QED BY <1>2 DEF Rebuilt

\* Clearing the own file does not bring the newest turn back.
LEMMA ClearedStays ==
    ASSUME Typed, NewestInLog, rollouts' = [OwnRollout EXCEPT ![Len(OwnRollout)] = None]
    PROVE  Of(Rebuilt', lastTurn) => InLog(lastTurn)
<1> SUFFICES ASSUME Of(Rebuilt', lastTurn) PROVE InLog(lastTurn)
  OBVIOUS
<1>1. Rebuilt' # None
  BY SentinelAssumption DEF Of
<1>2. PICK i \in DOMAIN rollouts' : Rebuilt' = rollouts'[i]
  BY <1>1 DEF Rebuilt
<1>3. rollouts'[i] # None
  BY <1>1, <1>2
<1>4. i \in DOMAIN rollouts /\ rollouts'[i] = rollouts[i]
  BY <1>3, RolloutWritten
<1>5. Of(rollouts[i], lastTurn)
  BY <1>2, <1>4
<1>6. NewestLive(i)
  BY <1>4, <1>5 DEF NewestInLog
<1>7. Rebuilt = rollouts[i]
  BY <1>4, <1>6, NewestIsRebuilt
<1> QED BY <1>5, <1>7 DEF InLog, Of

\* The newest turn is in at most one file, and no snapshot comes after it.
LEMMA NewestKept ==
    ASSUME Typed, Typed', Past, Staged, NewestInLog, [Next]_vars
    PROVE  NewestInLog'
<1> USE DEF memory, disk, history
<1>1. ASSUME UNCHANGED <<rollouts, lastTurn>> PROVE NewestInLog'
  BY <1>1 DEF NewestInLog, NewestLive
<1>2. CASE RecordSnapshot
  <2>1. lastTurn' = lastTurn /\ DOMAIN rollouts \subseteq Int /\ DOMAIN rollouts' \subseteq Int
    <3>1. rollouts \in Seq(Snapshot \cup {None}) /\ rollouts' \in Seq(Snapshot \cup {None})
      BY DEF Typed, TypeOK
    <3> QED BY <1>2, <3>1 DEF RecordSnapshot
  <2>2. CASE round = -1
    <3> DEFINE e == [turn |-> turn, round |-> -1, got |-> got]
    <3>1. e \in Snapshot
      BY <1>2, <2>2, ConstantsAssumption DEF RecordSnapshot, Snapshot, Typed, TypeOK, Rounds
    <3>2. rollouts' = [OwnRollout EXCEPT ![Len(OwnRollout)] = e]
      BY <1>2, <2>2 DEF RecordSnapshot
    <3>3. turn = lastTurn /\ \A i \in DOMAIN rollouts : ~Of(rollouts[i], lastTurn)
      BY <1>2, <2>2 DEF RecordSnapshot, Staged, FreshStart, Unrecorded, Past, InSave
    <3> HIDE DEF e
    <3>4. DOMAIN rollouts' = 1 .. Len(OwnRollout) /\ Len(OwnRollout) \in Nat
          /\ rollouts'[Len(OwnRollout)] = e
      BY <3>1, <3>2, OwnRolloutType
    <3>5. \A i \in DOMAIN rollouts' : Of(rollouts'[i], lastTurn) => i = Len(OwnRollout)
      BY <3>1, <3>2, <3>3, RolloutWritten
    <3>6. e # None
      BY <3>1, SentinelAssumption
    <3> QED BY <2>1, <3>4, <3>5, <3>6 DEF NewestInLog, NewestLive
  <2>3. CASE round # -1
    <3>1. rollouts' = OwnRollout
      BY <1>2, <2>3 DEF RecordSnapshot
    <3> QED BY <2>1, <3>1, RolloutOpened, SentinelAssumption DEF NewestInLog, NewestLive, Of
  <2> QED BY <2>2, <2>3
<1>3. CASE ClearEvent
  <2>1. CASE rollouts' = [OwnRollout EXCEPT ![Len(OwnRollout)] = None]
    <3>1. \A i \in DOMAIN rollouts' :
             rollouts'[i] = None \/ (i \in DOMAIN rollouts /\ rollouts'[i] = rollouts[i])
      BY <2>1, RolloutWritten
    <3>2. lastTurn' = lastTurn
      BY <1>3 DEF ClearEvent
    <3> QED BY <3>1, <3>2, SentinelAssumption DEF NewestInLog, NewestLive, Of
  <2>2. CASE rollouts' = rollouts
    BY <1>1, <1>3, <2>2 DEF ClearEvent
  <2> QED BY <1>3, <2>1, <2>2 DEF ClearEvent
<1>4. CASE \E p \in Paths : StartTurn(p)
  <2>1. lastTurn' = lastTurn + 1 /\ rollouts' = rollouts
    BY <1>4 DEF StartTurn
  <2>2. \A i \in DOMAIN rollouts : ~Of(rollouts[i], lastTurn + 1)
    BY NewTurn DEF Unrecorded
  <2> QED BY <2>1, <2>2 DEF NewestInLog
<1>5. CASE SaveOpen \/ SaveWrite \/ SaveFails \/ RecordFails
  BY <1>1, <1>5 DEF SaveOpen, SaveWrite, SaveFails, RecordFails
<1>6. CASE BudgetPause \/ RoundsSpent \/ ModelError \/ Truncated \/ Answer \/ AskTools
  BY <1>1, <1>6 DEF BudgetPause, RoundsSpent, ModelError, Truncated, Answer, AskTools
<1>7. CASE JournalCall \/ ExecTool \/ HeedNote \/ KeepResult \/ LogRound \/ NextRound \/ StopAfterRound
  BY <1>1, <1>7 DEF JournalCall, ExecTool, HeedNote, KeepResult, LogRound, NextRound, StopAfterRound
<1>8. CASE Deliver \/ Finalize \/ ClearActive \/ ClearMain \/ WipeJournal
  BY <1>1, <1>8 DEF Deliver, Finalize, ClearActive, ClearMain, WipeJournal
<1>9. CASE Interrupt \/ CrashRestart \/ Resume \/ UNCHANGED vars
  BY <1>1, <1>9 DEF Interrupt, CrashRestart, Resume, vars
<1> QED BY <1>2, <1>3, <1>4, <1>5, <1>6, <1>7, <1>8, <1>9 DEF Next, Step

\* The journal and its archive only grow while a turn runs.
LEMMA JournalGrows ==
    ASSUME NEW calls, NEW results, Journaled(calls, results)
    PROVE  /\ archived \subseteq archived'
           /\ journal.calls \cup archived \subseteq journal'.calls \cup archived'
           /\ calls \subseteq journal'.calls
  BY DEF Journaled

\* A note that leaves out a call of the journal is full.
LEMMA NoteOrCut ==
    ASSUME Typed, Resume
    PROVE  journal.calls \subseteq note' \cup cut' /\ cut \subseteq cut'
<1>1. IsFiniteSet(journal.calls)
  <2>1. IsFiniteSet(Turns) /\ IsFiniteSet(1 .. MaxItems)
    BY ConstantsAssumption, FS_Interval DEF Turns
  <2>2. IsFiniteSet(Items)
    BY <2>1, FS_Product DEF Items
  <2> QED BY <2>2, FS_Subset DEF Typed, TypeOK
<1>2. PICK done \in SUBSET journal.calls, pending \in SUBSET (journal.calls \ journal.results) :
         /\ note' = done \cup pending
         /\ done = journal.calls \/ Cardinality(done) = NoteCap
  BY DEF Resume, Notes
<1>3. CASE Cardinality(journal.calls) > NoteCap
  BY <1>3 DEF Resume
<1>4. CASE ~(Cardinality(journal.calls) > NoteCap)
  <2>1. cut' = cut
    BY <1>4 DEF Resume
  <2>2. Cardinality(journal.calls) \in Nat /\ Cardinality(done) <= Cardinality(journal.calls)
        /\ (Cardinality(done) = Cardinality(journal.calls) => done = journal.calls)
    BY <1>1, FS_CardinalityType, FS_Subset
  <2>3. NoteCap \in Nat
    BY ConstantsAssumption
  <2> HIDE DEF Resume
  <2>4. done = journal.calls
    BY <1>2, <1>4, <2>2, <2>3
  <2> QED BY <1>2, <2>1, <2>4
<1> QED BY <1>3, <1>4

Disclosing == Sole /\ Traced /\ Reported /\ Told /\ Shown

\* Disclosed is kept by every step.
LEMMA DisclosedInvariant == Spec => []Disclosed
<1>1. Init => Disclosed
  <2> SUFFICES ASSUME Init PROVE Disclosed
    OBVIOUS
  <2>1. DOMAIN rollouts = {} /\ ran = {} /\ hidden = {} /\ pc = "idle"
    BY DEF Init
  <2>2. Rebuilt = None
    BY <2>1 DEF Rebuilt
  <2> QED BY <2>1, <2>2, SentinelAssumption
         DEF Disclosed, NewestInLog, Sole, Traced, Reported, Told, Shown, Streamed, InLog
<1>2. ASSUME Typed, pc = "exec" => Here \in journal.calls, [Next]_vars
      PROVE  pc' = "exec" => Here' \in journal'.calls
  <2> USE <1>2 DEF memory, disk, history
  <2>2. CASE JournalCall
    BY <2>2, JournalGrows DEF JournalCall, Here
  <2>3. CASE UNCHANGED vars
    BY <2>3 DEF vars, Here
  <2>4. CASE SaveOpen \/ SaveWrite \/ SaveFails \/ RecordSnapshot \/ RecordFails
    BY <2>4 DEF SaveOpen, SaveWrite, SaveFails, RecordSnapshot, RecordFails, AfterSave
  <2>5. CASE BudgetPause \/ RoundsSpent \/ ModelError \/ Truncated \/ Answer \/ AskTools
    BY <2>5 DEF BudgetPause, RoundsSpent, ModelError, Truncated, Answer, AskTools
  <2>6. CASE ExecTool \/ HeedNote \/ KeepResult \/ LogRound \/ NextRound \/ StopAfterRound
    BY <2>6 DEF ExecTool, HeedNote, KeepResult, LogRound, NextRound, StopAfterRound
  <2>7. CASE Deliver \/ Finalize \/ ClearActive \/ ClearMain \/ ClearEvent \/ WipeJournal
    BY <2>7 DEF Deliver, Finalize, ClearActive, ClearMain, ClearEvent, WipeJournal, Typed, TypeOK
  <2>8. CASE Interrupt \/ CrashRestart \/ Resume \/ \E p \in Paths : StartTurn(p)
    BY <2>8 DEF Interrupt, CrashRestart, Resume, StartTurn
  <2> QED BY <2>2, <2>3, <2>4, <2>5, <2>6, <2>7, <2>8 DEF Next, Step
<1>3. ASSUME Typed, Typed', Past, Staged, Recoverable, OffDisk, NewestInLog, Disclosing,
             pc = "exec" => Here \in journal.calls, faults = 0, faults' = 0, [Next]_vars
      PROVE  Disclosing'
  <2> USE <1>3, ConstantsAssumption, SentinelAssumption DEF InSave, InRound, InTurn, memory, disk, history
  <2>0. ASSUME UNCHANGED <<turn, lastTurn, files, active, ran, hidden, note, path>>, Rebuilt' = Rebuilt,
               pc' \in InTurn => pc \in InTurn, pc' # "idle" => pc # "idle",
               finalized \subseteq finalized', archived \subseteq archived', cut' = cut,
               journal.calls \cup archived \subseteq journal'.calls \cup archived'
        PROVE  Disclosing'
    <3> HIDE DEF InTurn
    <3>1. (\A t : InLog(t)' <=> InLog(t)) /\ \A e : Streamed(e)' <=> Streamed(e)
      BY <2>0 DEF InLog, Streamed
    <3>2. Sole' /\ Shown'
      BY <2>0, <3>1 DEF Disclosing, Sole, Shown
    <3>3. Traced'
      BY <2>0, <3>1 DEF Disclosing, Traced, Gone, Of
    <3>4. Reported' /\ Told'
      BY <2>0, <3>1 DEF Disclosing, Reported, Told
    <3> QED BY <3>2, <3>3, <3>4 DEF Disclosing
  <2>1. ASSUME NEW e, NEW n \in FileNames, files' = [files EXCEPT ![n] = e],
               e \in Snapshot => e.turn = turn, active' \in {active, None, n},
               UNCHANGED <<turn, lastTurn, rollouts, ran, hidden, note, path, journal, archived, cut, finalized>>,
               pc \in InTurn, pc' # "idle"
        PROVE  Disclosing'
    <3> HIDE DEF InTurn
    <3>1. (\A t : InLog(t)' <=> InLog(t)) /\ \A x : Streamed(x)' <=> Streamed(x)
      BY <2>1, RebuiltStays DEF InLog, Streamed
    <3>2. \A m \in FileNames : files'[m] = IF m = n THEN e ELSE files[m]
      BY <2>1 DEF Typed, TypeOK
    <3>3. Rounds \subseteq FileNames /\ -1 \in FileNames /\ active \in FileNames \cup {None}
      BY DEF Rounds, FileNames, Typed, TypeOK
    <3>4. Sole'
      BY <2>1, <3>1, <3>2, <3>3 DEF Disclosing, Sole
    <3>5. Traced'
      BY <2>1, <3>1, <3>2, <3>3 DEF Disclosing, Traced, Gone, Of
    <3>6. Reported' /\ Told' /\ Shown'
      BY <2>1, <3>1 DEF Disclosing, Reported, Told, Shown, InTurn
    <3> QED BY <3>4, <3>5, <3>6 DEF Disclosing
  <2>2. CASE SaveOpen
    <3>1. /\ files' = [files EXCEPT ![round] = Torn] /\ round \in FileNames /\ pc \in InTurn /\ pc' # "idle"
          /\ UNCHANGED <<turn, lastTurn, rollouts, ran, hidden, note, path, journal, archived, cut, finalized, active>>
      BY <2>2 DEF SaveOpen, Typed, TypeOK, FileNames
    <3> QED BY <2>1, <3>1
  <2>3. CASE SaveWrite
    <3> DEFINE e == [turn |-> turn, round |-> round, got |-> got]
    <3>1. /\ files' = [files EXCEPT ![round] = e] /\ round \in FileNames /\ pc \in InTurn /\ pc' # "idle"
          /\ UNCHANGED <<turn, lastTurn, rollouts, ran, hidden, note, path, journal, archived, cut, finalized>>
          /\ active' = round /\ e.turn = turn
      BY <2>3 DEF SaveWrite, Typed, TypeOK, FileNames
    <3> HIDE DEF e
    <3> QED BY <2>1, <3>1
  <2>4. CASE SaveFails \/ RecordFails
    BY <2>4 DEF SaveFails, RecordFails
  <2>5. CASE RecordSnapshot
    <3>1. UNCHANGED <<turn, lastTurn, files, active, ran, hidden, note, path, journal, archived, cut, finalized>>
          /\ pc = "record"
      BY <2>5 DEF RecordSnapshot
    <3>2. CASE round = -1
      <4> DEFINE e == [turn |-> turn, round |-> -1, got |-> got]
      <4>1. /\ e \in Snapshot /\ turn = lastTurn /\ e.turn = lastTurn /\ path # "resume"
            /\ \A x \in ran : x[1][1] # lastTurn
        BY <2>5, <3>2 DEF RecordSnapshot, Snapshot, Typed, TypeOK, Staged, FreshStart, Unrecorded, Past, Rounds
      <4>2. rollouts' = [OwnRollout EXCEPT ![Len(OwnRollout)] = e]
        BY <2>5, <3>2 DEF RecordSnapshot
      <4>3. active = -1 /\ files[-1] \in Snapshot /\ files[-1].turn = turn
        BY <3>1, <3>2 DEF Recoverable
      <4> HIDE DEF e
      <4>4. InLog(lastTurn)'
        BY <3>1, <4>1, <4>2, RebuiltIsNew DEF InLog
      <4>5. \A x : ~Streamed(x)'
        BY <3>1, <4>1 DEF Streamed
      <4>6. Sole'
        BY <3>1, <4>1, <4>3 DEF Sole
      <4> QED BY <3>1, <4>1, <4>5, <4>6 DEF Disclosing, Traced, Reported, Told, Shown
    <3>3. CASE round # -1
      <4>1. Rebuilt' = Rebuilt /\ pc' # "idle"
        BY <2>5, <3>3, RebuiltIgnoresEmpty DEF RecordSnapshot, AfterSave
      <4> QED BY <2>0, <3>1, <4>1
    <3> QED BY <3>2, <3>3
  <2>6. CASE BudgetPause \/ RoundsSpent \/ ModelError \/ Truncated \/ Answer \/ AskTools
    BY <2>6, <2>0, RebuiltStays DEF BudgetPause, RoundsSpent, ModelError, Truncated, Answer, AskTools
  <2>7. CASE JournalCall \/ KeepResult \/ LogRound
    <3>1. archived \subseteq archived' /\ journal.calls \cup archived \subseteq journal'.calls \cup archived'
      BY <2>7, JournalGrows DEF JournalCall, KeepResult, LogRound
    <3>2. UNCHANGED <<turn, lastTurn, files, active, ran, hidden, note, path, rollouts, cut, finalized>>
          /\ pc \in InTurn /\ pc # "idle"
      BY <2>7 DEF JournalCall, KeepResult, LogRound
    <3> QED BY <2>0, <3>1, <3>2, RebuiltStays
  <2>8. CASE ExecTool
    <3>1. /\ UNCHANGED <<turn, lastTurn, files, active, note, path, journal, archived, cut, finalized, rollouts>>
          /\ ran' = ran \cup {<<Here, path>>} /\ pc \in InRound /\ pc # "ran" /\ pc # "idle"
          /\ pc' = "ran" /\ pc \in InTurn /\ Here = <<turn, got + 1>>
          /\ path = "stream" => pc = "exec"
          /\ path \in {"stream", "sync", "resume"} /\ got \in Nat
      BY <2>8 DEF ExecTool, Here, Typed, TypeOK
    <3>2. hidden' \subseteq hidden \cup {e \in ran : e[1] = Here /\ Here \notin note}
      BY <2>8 DEF ExecTool
    <3>3. \A t : InLog(t)' <=> InLog(t)
      BY <3>1, RebuiltStays DEF InLog
    <3>4. path = "stream" => InLog(lastTurn) /\ turn = lastTurn
      BY <3>1 DEF Recoverable, Past
    <3>5. \A e : Streamed(e)' => Streamed(e) \/ (path = "stream" /\ e[1] = Here)
      BY <3>1 DEF Streamed
    <3>6. Sole'
      BY <3>1, <3>3 DEF Disclosing, Sole
    <3>7. Traced'
      <4>1. Gone => Gone'
        BY <3>1, <3>3 DEF Gone, Of
      <4> QED BY <3>1, <3>3, <3>4, <3>5, <4>1 DEF Disclosing, Traced
    <3>8. Reported'
      BY <3>1, <3>3, <3>5 DEF Disclosing, Reported
    <3>9. Told'
      BY <3>1, <3>3, <3>5 DEF Disclosing, Told
    <3>10. Shown'
      <4> SUFFICES ASSUME NEW e \in ran, e[1] = Here, Here \notin note, e[2] = "stream",
                          e[1][1] = lastTurn, lastTurn \notin finalized
                   PROVE  e[1] \in archived \cup cut
        BY <3>1, <3>2 DEF Disclosing, Shown
      <4>1. Streamed(e) /\ turn = lastTurn /\ e[1][1] = turn /\ e[1][2] = got + 1
        BY <3>1 DEF Streamed
      <4>2. InLog(lastTurn)
        BY <3>1, <4>1 DEF Disclosing, Traced, Gone
      <4>3. path = "resume"
        BY <3>1, <4>1 DEF Staged, Counted
      <4> QED BY <3>1, <4>1, <4>2, <4>3 DEF Disclosing, Told
    <3> QED BY <3>6, <3>7, <3>8, <3>9, <3>10 DEF Disclosing
  <2>9. CASE HeedNote \/ NextRound \/ StopAfterRound
    BY <2>9, <2>0, RebuiltStays DEF HeedNote, NextRound, StopAfterRound
  <2>10. CASE Deliver \/ Finalize
    BY <2>10, <2>0, RebuiltStays DEF Deliver, Finalize
  <2>11. CASE ClearActive
    <3>1. /\ active' = None /\ pc \in InTurn /\ pc' # "idle"
          /\ UNCHANGED <<turn, lastTurn, rollouts, ran, hidden, note, path, journal, archived, cut, finalized>>
          /\ files' = IF active = None THEN files ELSE [files EXCEPT ![active] = None]
      BY <2>11 DEF ClearActive
    <3>2. CASE active = None
      BY <2>0, <3>1, <3>2, RebuiltStays
    <3>3. CASE active # None
      <4>1. active \in FileNames
        BY <3>3 DEF Typed, TypeOK
      <4> QED BY <2>1, <3>1, <3>3, <4>1
    <3> QED BY <3>2, <3>3
  <2>12. CASE ClearMain
    <3>1. /\ files' = [files EXCEPT ![-1] = None] /\ -1 \in FileNames /\ pc \in InTurn /\ pc' # "idle"
          /\ UNCHANGED <<turn, lastTurn, rollouts, ran, hidden, note, path, journal, archived, cut, finalized, active>>
      BY <2>12 DEF ClearMain, FileNames
    <3> QED BY <2>1, <3>1
  <2>13. CASE ClearEvent
    <3>1. /\ UNCHANGED <<turn, lastTurn, files, active, ran, hidden, note, path, journal, archived, cut, finalized>>
          /\ rollouts' = [OwnRollout EXCEPT ![Len(OwnRollout)] = None]
          /\ pc' \notin InTurn /\ pc # "idle"
      BY <2>13 DEF ClearEvent, Typed, TypeOK
    <3>2. InLog(lastTurn)' => InLog(lastTurn)
      BY <3>1, ClearedStays DEF InLog, Of
    <3>3. files[-1] \notin Snapshot /\ active = None
      BY <2>13 DEF ClearEvent, OffDisk, Staged, Flow
    <3>4. \A e : Streamed(e)' <=> Streamed(e)
      BY <3>1 DEF Streamed
    <3>5. Traced'
      BY <3>1, <3>3 DEF Traced, Gone, Of
    <3>6. Sole' /\ Reported'
      BY <3>1, <3>2, <3>4 DEF Disclosing, Sole, Reported
    <3>7. Told' /\ Shown'
      BY <3>1, <3>2, <3>4 DEF Disclosing, Told, Shown
    <3> QED BY <3>5, <3>6, <3>7 DEF Disclosing
  <2>14. CASE WipeJournal
    <3>1. /\ UNCHANGED <<turn, lastTurn, files, active, ran, hidden, note, path, rollouts, archived, cut, finalized>>
          /\ pc' = "idle" /\ turn \in finalized
      BY <2>14 DEF WipeJournal, Staged, Flow
    <3>2. (\A t : InLog(t)' <=> InLog(t)) /\ \A e : Streamed(e)' <=> Streamed(e)
      BY <3>1, RebuiltStays DEF InLog, Streamed
    <3>3. Sole' /\ Shown'
      BY <3>1, <3>2 DEF Disclosing, Sole, Shown
    <3>4. Traced'
      BY <3>1, <3>2 DEF Disclosing, Traced, Gone, Of
    <3>5. Reported' /\ Told'
      BY <3>1, <3>2 DEF Disclosing, Reported, Told, Sole
    <3> QED BY <3>3, <3>4, <3>5 DEF Disclosing
  <2>15. CASE \E p \in Paths : StartTurn(p)
    <3>1. /\ lastTurn' = lastTurn + 1 /\ UNCHANGED <<files, active, ran, hidden, rollouts>>
      BY <2>15 DEF StartTurn
    <3>2. /\ \A i \in DOMAIN rollouts : ~Of(rollouts[i], lastTurn + 1)
          /\ \A e \in ran : e[1][1] # lastTurn + 1
      BY NewTurn DEF Unrecorded
    <3>3. ~InLog(lastTurn)'
      BY <3>1, <3>2, RebuiltStays, RebuiltFrom DEF InLog, Of
    <3>4. \A e : ~Streamed(e)'
      BY <3>1, <3>2 DEF Streamed
    <3>5. Shown'
      BY <3>1, <3>2 DEF Shown, Typed, TypeOK
    <3> QED BY <3>3, <3>4, <3>5 DEF Disclosing, Sole, Traced, Reported, Told
  <2>16. CASE Interrupt
    BY <2>16, <2>0, RebuiltStays DEF Interrupt
  <2>17. CASE CrashRestart
    <3>1. /\ UNCHANGED <<turn, lastTurn, files, ran, hidden, journal, rollouts, archived, cut, finalized>>
          /\ pc' = "idle" /\ active' = None
      BY <2>17 DEF CrashRestart
    <3>2. (\A t : InLog(t)' <=> InLog(t)) /\ \A e : Streamed(e)' <=> Streamed(e)
      BY <3>1, RebuiltStays DEF InLog, Streamed
    <3>3. Sole' /\ Shown'
      BY <3>1, <3>2 DEF Disclosing, Sole, Shown, Rounds, FileNames
    <3>4. Traced'
      BY <3>1, <3>2 DEF Disclosing, Traced, Gone, Of
    <3>5. Reported' /\ Told'
      BY <3>1, <3>2 DEF Disclosing, Reported, Told
    <3> QED BY <3>3, <3>4, <3>5 DEF Disclosing
  <2>18. CASE Resume
    <3>1. /\ Load \in Snapshot /\ turn' = Load.turn /\ journal.calls \subseteq note' \cup cut' /\ cut \subseteq cut'
          /\ active' = IF active = None /\ files[-1] \in Snapshot THEN -1 ELSE active
          /\ UNCHANGED <<lastTurn, files, ran, hidden, journal, rollouts, archived, finalized>>
      BY <2>18, LoadType, NoteOrCut DEF Resume, Load, Typed, TypeOK
    <3>2. (\A t : InLog(t)' <=> InLog(t)) /\ \A e : Streamed(e)' <=> Streamed(e)
      BY <3>1, RebuiltStays DEF InLog, Streamed
    <3>3. -1 \notin Rounds /\ active \in Rounds \cup {-1, None} /\ -1 # None
      BY DEF Rounds, FileNames, Typed, TypeOK
    <3>4. InLog(lastTurn) => Load.turn = lastTurn
      BY <3>1, <3>3 DEF Disclosing, Sole, Load, LoadedBy, InLog
    <3>5. Gone => Load.turn # lastTurn
      BY <3>1, <3>3 DEF Gone, Load, LoadedBy, InLog, Of
    <3>6. Sole'
      BY <3>1, <3>2, <3>3, <3>4 DEF Disclosing, Sole
    <3>7. Traced'
      BY <3>1, <3>2, <3>3, <3>5 DEF Disclosing, Traced, Gone, Of
    <3>8. Reported' /\ Told' /\ Shown'
      BY <3>1, <3>2 DEF Disclosing, Reported, Told, Shown
    <3> QED BY <3>6, <3>7, <3>8 DEF Disclosing
  <2>19. CASE UNCHANGED vars
    BY <2>19, <2>0, RebuiltStays DEF vars
  <2> QED BY <2>2, <2>3, <2>4, <2>5, <2>6, <2>7, <2>8, <2>9, <2>10, <2>11, <2>12, <2>13, <2>14, <2>15,
             <2>16, <2>17, <2>18, <2>19 DEF Next, Step
<1>4. Typed /\ Typed' /\ Past /\ Staged /\ Recoverable /\ OffDisk /\ Disclosed /\ [Next]_vars => Disclosed'
  <2> SUFFICES ASSUME Typed, Typed', Past, Staged, Recoverable, OffDisk, Disclosed, [Next]_vars
               PROVE  Disclosed'
    OBVIOUS
  <2>1. faults' = 0 => faults = 0
    BY FaultsGrow
  <2>2. NewestInLog /\ (pc = "exec" => Here \in journal.calls) /\ (faults = 0 => Disclosing)
    BY DEF Disclosed, Disclosing
  <2>3. faults' = 0 => Disclosing'
    BY <1>3, <2>1, <2>2
  <2>4. NewestInLog' /\ (pc' = "exec" => Here' \in journal'.calls)
    BY <1>2, <2>2, NewestKept
  <2> QED BY <2>3, <2>4 DEF Disclosed, Disclosing
<1> QED BY <1>1, <1>4, TypedInvariant, PastInvariant, StagedInvariant, RecoverableInvariant,
           OffDiskInvariant, PTL DEF Spec

----------------------------------------------------------------------------
\* Every variable keeps its type.
THEOREM TypeCorrect == Spec => []TypeOK
<1>1. Typed => TypeOK
  BY DEF Typed
<1> QED BY <1>1, TypedInvariant, PTL

\* While no disk operation failed, a crash at any moment leaves the prompt of
\* the open turn to be found by a new process.
THEOREM PromptSurvivesCrash == Spec => []CrashKeepsPrompt
<1>1. Recoverable => CrashKeepsPrompt
  BY DEF Recoverable, CrashKeepsPrompt, Kept, Open
<1> QED BY <1>1, RecoverableInvariant, PTL

\* One failed disk operation does not lose the prompt of the newest turn, unless
\* the main file of an older turn hides it.
THEOREM PromptSurvivesFault == Spec => []OneFaultKeepsPrompt
<1>1. Typed /\ Past /\ Spared => OneFaultKeepsPrompt
  <2> SUFFICES ASSUME Typed, Past, Spared, Open, turn = lastTurn, faults = 1,
                      ~(files[-1] \in Snapshot /\ files[-1].turn < turn)
               PROVE  Of(LoadedBy(None), turn)
    BY DEF OneFaultKeepsPrompt, Of
  <2>1. OneCopy(turn)
    BY DEF Spared, Open
  <2>2. files[-1] \in Snapshot => files[-1].turn = turn
    <3>1. files[-1] \in Snapshot => files[-1].turn <= turn /\ files[-1].turn \in Nat
      BY ConstantsAssumption, SnapshotFields DEF Past, FileNames
    <3>2. turn \in Nat
      BY DEF Typed, TypeOK
    <3> QED BY <3>1, <3>2
  <2> QED BY <2>1, <2>2 DEF OneCopy, InLog, LoadedBy, Of
<1> QED BY <1>1, TypedInvariant, PastInvariant, SparedInvariant, PTL

\* Without a crash and without a failed disk operation, recovery continues the
\* open turn and repeats nothing but the round that was running.
THEOREM RecoveryContinues == Spec => []InProcessRecovery
<1>1. Continued => InProcessRecovery
  BY DEF Continued, InProcessRecovery, Open, Of
<1> QED BY <1>1, ContinuedInvariant, PTL

\* Without a failed disk operation, no checkpoint file that recovery reads is
\* of a turn that was cleared and not taken up since.
THEOREM ClearedLeavesDisk == Spec => []ClearedOffDisk
<1>1. Typed /\ OffDisk => ClearedOffDisk
  BY SentinelAssumption, ConstantsAssumption DEF OffDisk, ClearedOffDisk, FileNames
<1> QED BY <1>1, TypedInvariant, OffDiskInvariant, PTL

\* Without a failed disk operation, a model that is asked to continue the newest
\* turn executes nothing again that the streaming loop executed for it, unless
\* it was told of it, the entry was rotated away or a full note left it out.
THEOREM StreamedAreDisclosed == Spec => []StreamedCallsDisclosed
<1>1. Disclosed => StreamedCallsDisclosed
  BY DEF Disclosed, Shown, StreamedCallsDisclosed
<1> QED BY <1>1, DisclosedInvariant, PTL
=============================================================================
