---------------------------- MODULE TurnRecovery ----------------------------
(***************************************************************************)
(* One session of the assistant: its turns, the checkpoint files, the      *)
(* journal and the rollout event files they leave on disk, and recovery    *)
(* with /recover after an interrupt or a crash.                            *)
(*                                                                         *)
(* A turn is a loop of rounds.  A round is one model request, which may    *)
(* ask for tool calls.  An item <<t, i>> is the i-th piece of work of turn *)
(* t, done by one tool call; the context the model sees holds the results  *)
(* of a prefix of the items, and a model that does not see the result of   *)
(* an item asks for it (again).                                            *)
(*                                                                         *)
(* Three programs drive a turn: the streaming loop of the REPL ("stream"), *)
(* the blocking loop of submit() ("sync") and resume_interrupted()         *)
(* ("resume").  They differ in the order of execute, save and journal.     *)
(***************************************************************************)
EXTENDS Integers, Sequences, FiniteSets

CONSTANTS
    Paths,        \* the loops a user may start: a subset of {"stream", "sync"}
    MaxTurns,     \* bound: turns started in the session
    MaxRounds,    \* _resolve_max_tool_rounds
    MaxItems,     \* bound: items in one turn
    MaxRestarts,  \* bound: crashes followed by a restart
    MaxFaults,    \* bound: failed disk writes and unlinks
    JournalCap,   \* journal events after which append rotates the file away
    NoteCap,      \* entries in each of the two lists a resumed model is shown (10)
    None,         \* no file, no snapshot, no pointer
    Torn          \* a file truncated by open("w") whose text was never written

ASSUME ConstantsAssumption ==
    /\ Paths \subseteq {"stream", "sync"}
    /\ MaxTurns \in Nat /\ MaxRounds \in Nat \ {0} /\ MaxItems \in Nat \ {0}
    /\ MaxRestarts \in Nat /\ MaxFaults \in Nat /\ JournalCap \in Nat \ {0}
    /\ NoteCap \in Nat \ {0}

Turns  == 1 .. MaxTurns
Rounds == 0 .. MaxRounds - 1
Items  == Turns \X (1 .. MaxItems)

\* What one checkpoint holds: whose turn, the round it was taken after
\* (-1: at turn start) and how many items its messages show results of.
Snapshot == [turn : Turns, round : -1 .. MaxRounds - 1, got : 0 .. MaxItems]

\* The names of the checkpoint files: -1 is {session}.json, r is
\* {session}@round{r}.json.
FileNames == -1 .. MaxRounds - 1

ASSUME SentinelAssumption ==
    None # Torn /\ None \notin Snapshot \cup FileNames /\ Torn \notin Snapshot

VARIABLES
    \* the running program
    pc, then, path, turn, round, got, roundStart, note,
    \* disk, and the store's pointer into it (lost in a crash)
    files, active, rollouts, ownRollout, journal,
    \* history
    lastTurn, begun, ran, finalized, cleared, ended, hidden, archived, cut, restarts, faults

memory  == <<then, path, turn, round, got, roundStart, note>>
disk    == <<files, active, rollouts, ownRollout, journal>>
history == <<lastTurn, begun, ran, finalized, cleared, ended, hidden, archived,
             cut, restarts, faults>>
vars    == <<pc, memory, disk, history>>

----------------------------------------------------------------------------
\* The rollout file this process writes; get_engine_rollout opens a new one
\* the first time a process records anything.
OwnRollout == IF ownRollout THEN rollouts ELSE Append(rollouts, None)

\* rebuild_checkpoint_from_events: files newest first; the first one that has
\* a snapshot not followed by a checkpoint_clear in the same file wins.
NewestLive(i) == /\ rollouts[i] # None
                 /\ \A j \in DOMAIN rollouts : j > i => rollouts[j] = None

Rebuilt == IF \E i \in DOMAIN rollouts : NewestLive(i)
           THEN rollouts[CHOOSE i \in DOMAIN rollouts : NewestLive(i)]
           ELSE None

\* load_checkpoint of a store whose pointer is a: the file it names or else the
\* main file; a missing or unreadable file falls back to the rollouts.
LoadedBy(a) ==
    LET f == files[IF a = None THEN -1 ELSE a]
    IN  IF f \in Snapshot THEN f ELSE Rebuilt

Load == LoadedBy(active)

Here == <<turn, got + 1>>       \* the item the model asks for next

----------------------------------------------------------------------------
Init ==
    /\ pc = "idle" /\ then = "idle" /\ path = "none"
    /\ turn = 0 /\ round = 0 /\ got = 0 /\ roundStart = 0 /\ note = {}
    /\ files = [n \in FileNames |-> None]
    /\ active = None
    /\ rollouts = <<>> /\ ownRollout = FALSE
    /\ journal = [calls |-> {}, results |-> {}]
    /\ lastTurn = 0 /\ begun = FALSE
    /\ ran = {} /\ finalized = {} /\ cleared = {} /\ ended = {} /\ hidden = {} /\ archived = {}
    /\ cut = {} /\ restarts = 0 /\ faults = 0

\* The user submits a prompt: the messages are built and the turn-start
\* checkpoint is about to be written.
StartTurn(p) ==
    /\ pc = "idle" /\ lastTurn < MaxTurns
    /\ pc' = "save" /\ path' = p /\ then' = "idle"
    /\ turn' = lastTurn + 1 /\ lastTurn' = lastTurn + 1
    /\ round' = -1 /\ got' = 0 /\ roundStart' = 0 /\ note' = {}
    /\ begun' = FALSE
    /\ UNCHANGED <<disk, ran, finalized, cleared, ended, hidden, archived, cut, restarts, faults>>

(***************************************************************************)
(* Saving a checkpoint: write_text truncates the file, then fills it; then *)
(* the pointer moves; then the turn-start snapshot (tag None) is embedded  *)
(* in a rollout event.  A failed write is logged and the turn goes on.     *)
(***************************************************************************)
SaveOpen ==
    /\ pc = "save"
    /\ files' = [files EXCEPT ![round] = Torn]
    /\ pc' = "write"
    /\ UNCHANGED <<memory, active, rollouts, ownRollout, journal, history>>

\* Mutant: the pointer does not move to the file just written.
SaveWriteUnpointed ==
    /\ pc = "write"
    /\ files' = [files EXCEPT ![round] = [turn |-> turn, round |-> round, got |-> got]]
    /\ pc' = "record"
    /\ UNCHANGED <<memory, active, rollouts, ownRollout, journal, history>>

SaveWrite ==
    /\ pc = "write"
    /\ files' = [files EXCEPT ![round] = [turn |-> turn, round |-> round, got |-> got]]
    /\ active' = round
    /\ pc' = "record"
    /\ UNCHANGED <<memory, rollouts, ownRollout, journal, history>>

\* The write fails before the file is truncated (pc = "save") or after it.
SaveFails ==
    /\ pc \in {"save", "write"} /\ faults < MaxFaults
    /\ faults' = faults + 1
    /\ pc' = "record"
    /\ UNCHANGED <<memory, disk, lastTurn, begun, ran, finalized, cleared, ended,
                   hidden, archived, cut, restarts>>

\* What follows the save: the first round, or the end of the round just run
\* (the blocking loop first journals the calls it has already executed).
AfterSave ==
    IF round = -1 THEN /\ pc' = "loop" /\ round' = 0 /\ begun' = TRUE
    ELSE /\ pc' = IF path = "sync" THEN "log" ELSE "round_end"
         /\ UNCHANGED <<round, begun>>

\* Mutant: the turn-start event is recorded without its messages.
RecordBareEvent ==
    /\ pc = "record"
    /\ ownRollout' = TRUE /\ rollouts' = OwnRollout
    /\ AfterSave
    /\ UNCHANGED <<then, path, turn, got, roundStart, note, files, active,
                   journal, lastTurn, ran, finalized, cleared, ended, hidden, archived,
                   cut, restarts, faults>>

RecordSnapshot ==
    /\ pc = "record"
    /\ ownRollout' = TRUE
    /\ rollouts' = IF round = -1
                   THEN [OwnRollout EXCEPT ![Len(OwnRollout)] =
                            [turn |-> turn, round |-> -1, got |-> got]]
                   ELSE OwnRollout
    /\ AfterSave
    /\ UNCHANGED <<then, path, turn, got, roundStart, note, files, active,
                   journal, lastTurn, ran, finalized, cleared, ended, hidden, archived,
                   cut, restarts, faults>>

RecordFails ==
    /\ pc = "record" /\ faults < MaxFaults
    /\ faults' = faults + 1
    /\ AfterSave
    /\ UNCHANGED <<then, path, turn, got, roundStart, note, disk, lastTurn, ran,
                   finalized, cleared, ended, hidden, archived, cut, restarts>>

(***************************************************************************)
(* The head of the round loop, and the outcomes of a model request.        *)
(***************************************************************************)
\* The budget gate pauses the turn: it is finalised and its checkpoint stays.
BudgetPause ==
    /\ pc = "loop" /\ round < MaxRounds /\ path # "resume"
    /\ pc' = "deliver"
    /\ UNCHANGED <<memory, disk, history>>

\* Mutant: the bound of the round loop is off by one.
RoundsSpentLate ==
    /\ pc = "loop" /\ round > MaxRounds
    /\ pc' = IF path = "resume" THEN "finalize" ELSE "deliver"
    /\ then' = IF path = "resume" THEN "wipe" ELSE "idle"
    /\ UNCHANGED <<path, turn, round, got, roundStart, note, disk, history>>

\* All rounds are spent: a resumed turn clears its checkpoint, the two other
\* loops only finalise.
RoundsSpent ==
    /\ pc = "loop" /\ round = MaxRounds
    /\ pc' = IF path = "resume" THEN "finalize" ELSE "deliver"
    /\ then' = IF path = "resume" THEN "wipe" ELSE "idle"
    /\ UNCHANGED <<path, turn, round, got, roundStart, note, disk, history>>

\* The request fails.  The streaming loop reports it and returns; the blocking
\* loop spends the round or, at its failure limit, returns; a resumed turn drops
\* its checkpoint.
ModelError ==
    /\ pc = "loop" /\ round < MaxRounds
    /\ \/ /\ path \in {"stream", "sync"} /\ pc' = "idle"
          /\ UNCHANGED <<then, round>>
       \/ /\ path = "sync" /\ round' = round + 1
          /\ UNCHANGED <<pc, then>>
       \/ /\ path = "resume" /\ pc' = "clear" /\ then' = "idle"
          /\ UNCHANGED round
    /\ UNCHANGED <<path, turn, got, roundStart, note, disk, history>>

\* Mutant: continuations are not counted against the rounds.
TruncatedUnbounded ==
    /\ pc = "loop" /\ path # "resume"
    /\ round' = round + 1
    /\ UNCHANGED <<pc, then, path, turn, got, roundStart, note, disk, history>>

\* The reply was cut at the token limit and has no tool call: the next round
\* continues it.  (The code allows 3 continuations; MaxRounds is at most 3.)
Truncated ==
    /\ pc = "loop" /\ round < MaxRounds /\ path # "resume"
    /\ round' = round + 1
    /\ UNCHANGED <<pc, then, path, turn, got, roundStart, note, disk, history>>

\* A reply without tool calls ends the turn.  The streaming loop and resume
\* finalise and then clear, the blocking loop clears and then finalises, or,
\* when the reply was corrected as a hallucination, finalises only.
Answer ==
    /\ pc = "loop" /\ round < MaxRounds
    /\ \/ path = "stream" /\ pc' = "finalize" /\ then' = "idle"
       \/ path = "resume" /\ pc' = "finalize" /\ then' = "wipe"
       \/ path = "sync"   /\ pc' = "clear"    /\ then' = "deliver"
       \/ path = "sync"   /\ pc' = "deliver"  /\ then' = "idle"
    /\ UNCHANGED <<path, turn, round, got, roundStart, note, disk, history>>

\* The reply asks for tool calls.
AskTools ==
    /\ pc = "loop" /\ round < MaxRounds /\ got < MaxItems
    /\ pc' = "issue"
    /\ UNCHANGED <<memory, disk, history>>

(***************************************************************************)
(* A tool round.                                                           *)
(***************************************************************************)
\* SessionJournal.append of a tool_call: a journal at its cap is moved to the
\* archive directory first, out of the sight of every reader.
JournalSize == Cardinality(journal.calls) + Cardinality(journal.results)
Journaled(calls, results) ==
    IF JournalSize < JournalCap
    THEN /\ journal' = [calls   |-> journal.calls \cup calls,
                        results |-> journal.results \cup results]
         /\ UNCHANGED archived
    ELSE /\ journal' = [calls |-> calls, results |-> results]
         /\ archived' = archived \cup journal.calls

\* Mutant: the call is executed without its journal entry.
JournalNothing ==
    /\ pc = "issue" /\ path = "stream"
    /\ pc' = "exec"
    /\ UNCHANGED <<memory, disk, history>>

\* The streaming loop journals each call before it executes it.
JournalCall ==
    /\ pc = "issue" /\ path = "stream"
    /\ Journaled({Here}, {})
    /\ pc' = "exec"
    /\ UNCHANGED <<memory, files, active, rollouts, ownRollout, lastTurn, begun,
                   ran, finalized, cleared, ended, hidden, cut, restarts, faults>>

\* ran pairs each executed item with the loop that executed it.  A pair is
\* hidden when its item is executed again by a model nobody told of it.
ExecTool ==
    /\ \/ pc = "exec"
       \/ pc = "issue" /\ path \in {"sync", "resume"}
    /\ ran' = ran \cup {<<Here, path>>}
    /\ hidden' = IF Here \in note THEN hidden
                 ELSE hidden \cup {e \in ran : e[1] = Here}
    /\ pc' = "ran"
    /\ UNCHANGED <<memory, disk, lastTurn, begun, finalized, cleared, ended, archived,
                   cut, restarts, faults>>

\* A resumed model told that an item was executed may take that as done.
HeedNote ==
    /\ pc = "issue" /\ path = "resume" /\ Here \in note
    /\ pc' = "ran"
    /\ UNCHANGED <<memory, disk, history>>

\* The result joins the messages (and, streaming, the journal); the round may
\* have asked for more calls.
KeepResult ==
    /\ pc = "ran"
    /\ got' = got + 1
    /\ IF path = "stream" THEN Journaled({}, {Here})
                          ELSE UNCHANGED <<journal, archived>>
    /\ \/ pc' = "save"
       \/ got + 1 < MaxItems /\ pc' = "issue"
    /\ UNCHANGED <<then, path, turn, round, roundStart, note, files, active,
                   rollouts, ownRollout, lastTurn, begun, ran, finalized,
                   cleared, ended, hidden, cut, restarts, faults>>

\* The blocking loop journals the calls of the round after the save.
LogRound ==
    /\ pc = "log"
    /\ LET unlogged == {i \in roundStart + 1 .. got : <<turn, i>> \notin journal.calls \cup archived}
       IN  IF unlogged = {}
           THEN pc' = "round_end" /\ UNCHANGED <<journal, archived>>
           ELSE /\ \E i \in unlogged : /\ \A j \in unlogged : i <= j
                                       /\ Journaled({<<turn, i>>}, {})
                /\ UNCHANGED pc
    /\ UNCHANGED <<memory, files, active, rollouts, ownRollout, lastTurn, begun,
                   ran, finalized, cleared, ended, hidden, cut, restarts, faults>>

NextRound ==
    /\ pc = "round_end"
    /\ round' = round + 1 /\ roundStart' = got
    /\ pc' = "loop"
    /\ UNCHANGED <<then, path, turn, got, note, disk, history>>

\* The loop detector, the failure limit or decide_continue end the turn: the
\* streaming loop returns without finalising (detector, limit), all others
\* finalise; nobody clears the checkpoint.
StopAfterRound ==
    /\ pc = "round_end" /\ path # "resume"
    /\ \/ path = "stream" /\ pc' = "idle"
       \/ pc' = "deliver"
    /\ UNCHANGED <<memory, disk, history>>

(***************************************************************************)
(* The end of a turn.                                                      *)
(***************************************************************************)
\* _finalize_turn, in the exits that leave the checkpoint behind.
Deliver ==
    /\ pc = "deliver"
    /\ finalized' = finalized \cup {turn}
    /\ pc' = "idle"
    /\ UNCHANGED <<memory, disk, lastTurn, begun, ran, cleared, ended, hidden, archived,
                   cut, restarts, faults>>

\* _finalize_turn, in the exits that go on to clear the checkpoint.
Finalize ==
    /\ pc = "finalize"
    /\ finalized' = finalized \cup {turn}
    /\ pc' = "clear"
    /\ UNCHANGED <<memory, disk, lastTurn, begun, ran, cleared, ended, hidden, archived,
                   cut, restarts, faults>>

\* clear_checkpoint: unlink the file the pointer names, forget the pointer,
\* unlink the main file, append checkpoint_clear to the rollout.  The other
\* round files stay.  An unlink that fails is ignored.  The turn has then ended,
\* unless this is the error exit of a resumed turn.
ClearActive ==
    /\ pc = "clear"
    /\ \/ /\ files' = IF active = None THEN files ELSE [files EXCEPT ![active] = None]
          /\ UNCHANGED faults
       \/ /\ active # None /\ faults < MaxFaults
          /\ faults' = faults + 1
          /\ UNCHANGED files
    /\ active' = None
    /\ begun' = FALSE
    /\ pc' = "clear_main"
    /\ UNCHANGED <<memory, rollouts, ownRollout, journal, lastTurn, ran,
                   finalized, cleared, ended, hidden, archived, cut, restarts>>

\* Mutant: only the file the pointer names is removed.
ClearMainForgotten ==
    /\ pc = "clear_main"
    /\ pc' = "clear_event"
    /\ UNCHANGED <<memory, disk, history>>

ClearMain ==
    /\ pc = "clear_main"
    /\ \/ files' = [files EXCEPT ![-1] = None] /\ UNCHANGED faults
       \/ /\ files[-1] # None /\ faults < MaxFaults
          /\ faults' = faults + 1
          /\ UNCHANGED files
    /\ pc' = "clear_event"
    /\ UNCHANGED <<memory, active, rollouts, ownRollout, journal, lastTurn, begun,
                   ran, finalized, cleared, ended, hidden, archived, cut, restarts>>

ClearEvent ==
    /\ pc = "clear_event"
    /\ \/ /\ rollouts' = [OwnRollout EXCEPT ![Len(OwnRollout)] = None]
          /\ ownRollout' = TRUE
          /\ UNCHANGED faults
       \/ /\ faults < MaxFaults
          /\ faults' = faults + 1
          /\ UNCHANGED <<rollouts, ownRollout>>
    /\ cleared' = cleared \cup {turn}
    /\ ended' = IF path = "resume" /\ then = "idle" THEN ended ELSE ended \cup {turn}
    /\ pc' = then
    /\ UNCHANGED <<memory, files, active, journal, lastTurn, begun, ran,
                   finalized, hidden, archived, cut, restarts>>

\* A resumed turn that ended well deletes the journal.
WipeJournal ==
    /\ pc = "wipe"
    /\ journal' = [calls |-> {}, results |-> {}]
    /\ pc' = "idle"
    /\ UNCHANGED <<memory, files, active, rollouts, ownRollout, history>>

(***************************************************************************)
(* Interruption and recovery.                                              *)
(***************************************************************************)
\* Ctrl+C breaks off a streaming turn wherever it is; the process lives on.
Interrupt ==
    /\ path = "stream" /\ pc # "idle"
    /\ pc' = "idle"
    /\ UNCHANGED <<memory, disk, history>>

\* The process dies and the session is opened by a new one.  What it held in
\* memory is gone; turn, got, roundStart are kept as history only: from "idle"
\* every step sets them before it reads them.
CrashRestart ==
    /\ restarts < MaxRestarts
    /\ pc' = "idle" /\ path' = "none" /\ then' = "idle" /\ round' = 0 /\ note' = {}
    /\ active' = None /\ ownRollout' = FALSE
    /\ restarts' = restarts + 1
    /\ UNCHANGED <<turn, got, roundStart, files, rollouts, journal, lastTurn,
                   begun, ran, finalized, cleared, ended, hidden, archived, cut, faults>>

\* Mutant: only the calls with a result are listed.
NotesOfResults ==
    {s \in SUBSET (journal.calls \cap journal.results) :
        s = journal.calls \cap journal.results \/ Cardinality(s) = NoteCap}

\* What a resumed model is shown of the journal: the first NoteCap of the
\* executed calls, sorted by their text (so any NoteCap of them, or all when
\* they are no more), and the first NoteCap side-effect calls without a result.
Notes ==
    {done \cup pending :
        done \in {s \in SUBSET journal.calls :
                    /\ Cardinality(s) <= NoteCap
                    /\ s = journal.calls \/ Cardinality(s) = NoteCap},
        pending \in {s \in SUBSET (journal.calls \ journal.results) :
                    Cardinality(s) <= NoteCap}}

\* /recover: the loaded snapshot is continued from the round after it, with a
\* note of the calls the journal knows.  cut is history: the calls that a note
\* left out because the journal held more than NoteCap.
Resume ==
    /\ pc = "idle" /\ Load # None
    /\ turn' = Load.turn /\ round' = Load.round + 1
    /\ got' = Load.got /\ roundStart' = Load.got
    /\ note' \in Notes
    /\ cut' = IF Cardinality(journal.calls) > NoteCap
              THEN cut \cup (journal.calls \ note') ELSE cut
    /\ active' = IF active = None /\ files[-1] \in Snapshot THEN -1 ELSE active
    /\ pc' = "loop" /\ path' = "resume" /\ then' = "idle"
    /\ begun' = TRUE
    /\ cleared' = cleared \ {Load.turn} /\ ended' = ended \ {Load.turn}
    /\ UNCHANGED <<files, rollouts, ownRollout, journal, lastTurn, ran, finalized,
                   hidden, archived, restarts, faults>>

----------------------------------------------------------------------------
Step == \/ SaveOpen \/ SaveWrite \/ SaveFails \/ RecordSnapshot \/ RecordFails
        \/ BudgetPause \/ RoundsSpent \/ ModelError \/ Truncated \/ Answer \/ AskTools
        \/ JournalCall \/ ExecTool \/ HeedNote \/ KeepResult \/ LogRound
        \/ NextRound \/ StopAfterRound
        \/ Deliver \/ Finalize \/ ClearActive \/ ClearMain \/ ClearEvent \/ WipeJournal

Next == \/ \E p \in Paths : StartTurn(p)
        \/ Step
        \/ Interrupt \/ CrashRestart \/ Resume

Spec == Init /\ [][Next]_vars

\* The program runs on by itself (requests and tools carry timeouts); users,
\* Ctrl+C and crashes are under no obligation.
FairSpec == Spec /\ WF_vars(Step)

----------------------------------------------------------------------------
TypeOK ==
    /\ pc \in {"idle", "save", "write", "record", "loop", "issue", "exec", "ran",
               "log", "round_end", "deliver", "finalize", "clear", "clear_main",
               "clear_event", "wipe"}
    /\ then \in {"idle", "deliver", "wipe"}
    /\ path \in {"none", "stream", "sync", "resume"}
    /\ turn \in 0 .. MaxTurns /\ lastTurn \in 0 .. MaxTurns
    /\ round \in -1 .. MaxRounds /\ got \in 0 .. MaxItems /\ roundStart \in 0 .. MaxItems
    /\ files \in [FileNames -> Snapshot \cup {None, Torn}]
    /\ active \in FileNames \cup {None}
    /\ rollouts \in Seq(Snapshot \cup {None}) /\ ownRollout \in BOOLEAN
    /\ journal \in [calls : SUBSET Items, results : SUBSET Items]
    /\ note \subseteq Items
    /\ ran \subseteq Items \X {"stream", "sync", "resume"} /\ hidden \subseteq ran
    /\ archived \subseteq Items /\ cut \subseteq Items
    /\ begun \in BOOLEAN
    /\ finalized \subseteq Turns /\ cleared \subseteq Turns /\ ended \subseteq Turns
    /\ restarts \in 0 .. MaxRestarts /\ faults \in 0 .. MaxFaults

\* The turn last worked on was begun (its turn-start save is over), nobody has
\* started to clear it and it was not finalised: /recover should continue it.
Open == begun /\ turn \notin finalized

\* The saved tool rounds of the turn whose results the recovery point l lacks.
LostRounds(l) ==
    {r \in Rounds : files[r] \in Snapshot /\ files[r].turn = turn /\ files[r].got > l.got}

\* Recovery after an interrupt or an error return, without a restart, continues
\* the open turn and repeats nothing but the round that was running.
InProcessRecovery ==
    pc = "idle" /\ path # "none" /\ Open /\ faults = 0
        => Load \in Snapshot /\ Load.turn = turn /\ Load.got >= roundStart

\* The comment at loop_body.py:695: after a crash or kill "resume_interrupted
\* can recover from here, losing at most one round".
CrashRecovery ==
    pc = "idle" /\ path = "none" /\ Open /\ faults = 0
        => Load \in Snapshot /\ Load.turn = turn /\ Cardinality(LostRounds(Load)) <= 1

\* Once its start is saved, the prompt of the open turn survives a crash at any
\* moment: a new process, which has no pointer, loads a snapshot of that turn
\* from the main file or else from the rollouts.
CrashKeepsPrompt ==
    LET l == LoadedBy(None)
    IN  Open /\ faults = 0 => l \in Snapshot /\ l.turn = turn

\* One failed disk operation does not lose the prompt of the newest turn either,
\* unless it kept an older turn's main file from being overwritten.
OneFaultKeepsPrompt ==
    LET l == LoadedBy(None)
        stale == files[-1] \in Snapshot /\ files[-1].turn < turn
    IN  Open /\ turn = lastTurn /\ faults = 1 /\ ~stale => l \in Snapshot /\ l.turn = turn

\* A turn whose checkpoint was cleared is not found through a checkpoint file
\* again: has_checkpoint, the gate of recovery at startup, does not offer it.
ClearedOffDisk ==
    faults = 0 =>
        /\ files[-1] \in Snapshot => files[-1].turn \notin cleared
        /\ active # None /\ files[active] \in Snapshot => files[active].turn \notin cleared

\* The comment at session_store.py:325: after a normal end and clear, the old
\* snapshot must not be revived: /recover does not bring back a turn that was
\* finalised and then cleared and has not been taken up since.
NoResurrection ==
    pc = "idle" /\ Load # None /\ faults = 0 => Load.turn \notin ended

\* While the newest turn is not finalised, an item it executed is not executed
\* again by a model nobody told of it, unless its journal entry was rotated
\* away or a note with room for NoteCap entries had to leave it out.  This holds
\* of the items the streaming loop executed ...
StreamedCallsDisclosed ==
    faults = 0 => \A e \in hidden :
        e[2] = "stream" /\ e[1][1] = lastTurn /\ lastTurn \notin finalized
            => e[1] \in archived \cup cut

\* ... but not of all: submission.py:564 tells the model of "executed tool
\* signatures", and a resumed turn journals none.
CallsDisclosed ==
    faults = 0 => \A e \in hidden :
        e[1][1] = lastTurn /\ lastTurn \notin finalized => e[1] \in archived \cup cut

\* Nor without the exception of the note's length: the comment at
\* submission.py:564 says the note lets the model know which calls were
\* executed, and it names ten.
AllStreamedCallsListed ==
    faults = 0 => \A e \in hidden :
        e[2] = "stream" /\ e[1][1] = lastTurn /\ lastTurn \notin finalized
            => e[1] \in archived

\* Every turn, resumed or not, gives the prompt back to the user.
TurnEnds == pc # "idle" ~> pc = "idle"
=============================================================================
