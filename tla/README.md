# LingClaude: TLA+ models, checks and proofs

LingClaude is a coding agent: an engine and a terminal front end in Python, and a web front end (a browser UI in
TypeScript behind a small server in Rust). A user prompt starts a *turn*; the turn asks a model for replies, executes
the tool calls they contain, and keeps enough on disk to go on after an interrupt or a crash.
This directory models the parts of it where the order of steps matters: what is on disk when a turn is cut off,
what the threads that run background commands do to each other, what several processes that share a session's
archive do to each other, and what a browser tab does while its requests, streams and timers overlap. Paths below are
relative to `src/lingclaude/` for Python, and to `src/webui/src/` for `.ts` and `.tsx` files.

## 1. Inventory of the system

| part | state it keeps | operations | what is hard about it | modelled in |
|---|---|---|---|---|
| turn loops (`engine/loop/loop_body.py`, `core/submission.py`) | messages, round index, used tools | a round = model request, tool calls, save; exits by answer, error, limit, budget | many exits, three programs (streaming, blocking, resume) that order execute / save / journal differently; cut off anywhere | `TurnRecovery` |
| checkpoint store (`core/session_store.py`, half of `core/session_persist.py`) | `{session}.json`, `{session}@round{r}.json`, the in-memory pointer `_active_checkpoint` | save, load, clear, list, rewind | non-atomic writes, pointer lost in a crash, best-effort failures | `TurnRecovery` (list and rewind not yet) |
| rollout event files (`core/rollout.py`) | one append-only file per process and session | record, rebuild, fork, revert | the fallback of recovery; one logical stream spread over files of several processes | `TurnRecovery` (record, rebuild) |
| session journal (`core/session_journal.py`) | tool calls and results of the session | append with rotation, read at resume, clear | rotation in the middle of a turn; order against execution | `TurnRecovery` |
| background tasks (`engine/background.py`, `engine/tool_handlers/background_tools.py`) | job records, a pool, child processes | submit, cancel, status, shutdown | job fields shared by worker and cancellers without a lock; deadlines; exit | `BackgroundJobs` |
| session archive (`core/session_persist.py`, `core/file_lock.py`, `core/session.py`, `core/retention.py`) | `sessions/<project>/<sid>.json`, its mtime, a copy in the StateStore, a baseline in each process | persist, fork, load, reset, prune | several processes and project directories; a lock that fails open; read-then-stat; a load that may return another copy | `SessionArchive` |
| tool pipeline (`engine/tool_pipeline.py`) | tool threads, edit locks | permission, dispatch with timeout, retry | timed-out threads live on | not yet; an outcome in `TurnRecovery` |
| LLM proxy (`model/llm_proxy/`) and task router (`model/task_router.py`) | provider slots, token buckets, cooldowns, circuit breakers | chat, chat_stream, failover, refunds | retries after partial output, cooldown, unlocked counters | not yet; an outcome in `TurnRecovery` |
| subagents (`engine/subagent/`) | table of running agents | spawn, status, abort | abort takes a non-reentrant lock twice | not yet |
| budget gate (`core/session_budget_gate.py`) | spent and allowed tokens | check_pause | checked between rounds | as the choice `BudgetPause` |
| CLI (`cli/repl.py`, `cli/input_queue.py`) | input queue, display | read, stream, queue, interrupt | terminal and thread plumbing | interrupt and save only |
| task manager, plugin and proposal life cycles | small state records | start, pause, approve ... | single-threaded | not yet |
| chat view (`app.tsx`, `components/Chat.tsx`, `lib/chatTerminal.ts`, `lib/pendingPermission.ts`, `components/PermissionCard.tsx`) | session shown, generation, request alias, reader, recovery state, busy, queue, approval card | pick / create / delete / restore a session, send, queue, drain, stop, decide, reload, commands | answers and stream events of a view that was left; two requests for one thing; a turn nobody watches | `WebChat`, `TurnLock` |
| sync mode (`components/Chat.tsx`, `/live`) | stream, its timers, life cycle of the shared turn, queue | join, leave, post, switch, reconnect | a broadcast shared with other views; gaps; several places that start the stream | `WebLive`, `LiveReconnect` |
| sign-in (`components/LoginButton.tsx`) | generation, timers, busy | start, poll, cancel, log out | polls of logins that were overtaken | `Login` |
| question card (`components/UserInputCard.tsx`) | step, answers, the edit | edit, page, post, skip | an edit is rebuilt from a posted answer, an array that may hold a label twice | `UserInput` |
| directory and file dialogs, @ menu (`components/CwdPicker.tsx`, `components/FilePicker.tsx`, `components/Chat.tsx`) | path, entries | browse, pick | answers out of order | `Pickers` |
| sidebar, rename, delete and search dialogs (`components/Sidebar.tsx`, `components/SessionDialogs.tsx`) | project, rows, epoch; query, hits | load, rename, delete, search | overlapping loads, old closures | `SessionList` |
| web server (`webui-server/src/chat_api.rs` and others) | active chats | bridge a chat to the engine, stop, list | marks outlive a dropped stream; a stop that stopped nothing answers 200 | server side of `WebChat`; the other endpoints are single requests |
| settings, model selector, skills and MCP menus | forms | load, save | a save of two requests | not modelled |
| rendering, translations, styles | - | - | presentation | not modelled |
| optimizer, intelligence, governance, family bus, packages, docs, ledgers | - | - | advisory or data | not modelled |

How the parts meet: the REPL calls a turn loop, which calls the model through the router and the proxy, the tool
pipeline, the checkpoint store, the journal and the rollout recorder. At the end of each turn the REPL saves the
archive. `/recover`, `--recover` and startup read the checkpoint store and run `resume_interrupted`. Tools may submit
background jobs; an exit handler shuts the manager down. The archive (the conversation) and the checkpoint (a turn
in progress) are separate files with separate life cycles: hence two modules.
The browser reaches the engine only through the web server: `POST /chat` opens a turn and streams its events,
`/chat/stop` ends one by request or session id, `/chat/active` tells whether one runs, and `/live` broadcasts what the
shared runtime of sync mode does. Inside the tab `App` owns which session is shown and the approval card; `Chat` owns the
reader and the queue; they meet in renders and in the effect that runs after a render, which is why a step of the network
may fall between a click and its effect.

What makes each part correct, in one sentence: recovery continues the turn that was cut off, repeats no more than it
must and does not bring back what ended (turns, checkpoints, rollouts); a call that was executed is disclosed to the
model that resumes, as far as the note made from the journal has room (journal); every command is
reaped, every cancel takes effect and every waiting job is served
(background); no process takes away another's messages (archive). The tab starts no turn over another and can always
find the one it started; what was typed ahead is sent only after a turn the user saw complete; a view belongs to the
user's last choice, and no answer to an earlier one changes it (chat view). The canvas has one source (sync mode); every
wait ends (checks, sign-in); a list is of what its heading says. Where the code does not keep one of these, sections 4
and 7 say so.

## 2. Plan

Done, in this order: `TurnRecovery` (the core), `BackgroundJobs` and `SessionArchive` with their runs and proofs;
then the web front end: `WebChat` with the refinement of `TurnLock`, `WebLive` and `LiveReconnect`,
the smaller parts of the page and their composition `WebUI`, and their proofs; then `JobService`, which
`BackgroundJobs` implements, and the proofs of the remaining invariants and action properties of the passing runs.

What would come next:

1. `JournalRecovery`, an abstract specification (a turn is open, recoverable or ended), with `TurnRecovery` shown to
   implement it.
2. `ProviderFailover`: `chat` / `chat_stream` of the LLM proxy over the rate gate, token gate and circuit breaker.
3. `rewind_to` and tagged checkpoints in `TurnRecovery`; session switches and the stale pointer they leave.
4. `SubagentControl`: spawn, status, abort. `ToolDispatch`: timeout, surviving thread, retry, edit lock.

## 3. Modules

### TurnRecovery
One session. `files` are the checkpoint files (`-1` is the main file, `r` the file of round r), each absent, torn or a
snapshot; `active` is `_active_checkpoint`; `rollouts` is the sequence of this session's rollout files, each reduced to
the last snapshot not followed by `checkpoint_clear` (all that `rebuild_checkpoint_from_events` can see in it), and
`ownRollout` says whether the running process has opened the last one; `journal` holds calls and results.

The work of a turn is a sequence of *items* `<<turn, i>>`. A context shows the results of a prefix of length `got`; a
model without the result of an item asks for that item. This abstracts messages to what recovery is about: which
results were saved, which work is done twice, and whether the model that does it again had been told.

| code | actions |
|---|---|
| `run_call_model_loop`, `run_stream_call_model_loop`, heads of rounds | `StartTurn`, `BudgetPause`, `RoundsSpent`, `NextRound`, `StopAfterRound` |
| model replies | `ModelError`, `Truncated`, `Answer`, `AskTools` |
| tool calls | `JournalCall`, `ExecTool`, `KeepResult`, `LogRound`, `HeedNote` |
| `save_checkpoint` | `SaveOpen` (truncate), `SaveWrite` (fill, move the pointer), `SaveFails`, `RecordSnapshot`, `RecordFails` |
| `_finalize_turn`, `clear_checkpoint` | `Deliver`, `Finalize`, `ClearActive`, `ClearMain`, `ClearEvent`, `WipeJournal` |
| Ctrl+C, kill, `resume_interrupted` | `Interrupt` (streaming turns only: elsewhere Ctrl+C ends the process), `CrashRestart`, `Resume` |

The pair (`pc`, `path`) is the program counter; `path` says which of the three loops runs. The history variables
(`ran`, `hidden`, `finalized`, `cleared`, `ended`, `archived`, `cut`, `begun`) are read by properties, by no guard that
models code.

`Notes` is what `resume_interrupted` tells the model: at most ten of the executed calls, in the order of their signatures
(`submission.py:570`), and at most ten of the pending ones (`:652`); a journal that was not cleared may hold more. The ten
are the constant `NoteCap`, the order is not modelled, so any choice of that many calls is a note. `cut` holds the calls
that a note left out.

### BackgroundJobs
Job records, pool, worker threads and calling threads. The manager's lock covers only its dictionary, so each access
to `status`, `cancelled` or `proc` is an action. The pool and the operating system are external: a queue that free
threads take from, commands that end when they like or never. `missed` records jobs registered after `shutdown()`
took its list.
Callers are concurrent because tool handlers run in threads that outlive their timeout (`engine/tool_pipeline.py:508`)
and `shutdown` runs in an exit handler (`engine/coding.py:293`).

`JobService` is what the manager promises, without threads, queue or flags: commands that run (`alive`), commands that
ended (`over`) and jobs whose command must not be started any more (`dismissed`). `BackgroundJobs` implements it
(`KeepsService`): a job is dismissed when it is cancelled or has left the pool, except while its worker stands between
the check of the flag and `Popen`, where a cancel comes too late to prevent the start.

### SessionArchive
Processes with a project directory (`home`), a session id, messages (a set of turns: what the messages or a summary of
them cover) and a baseline; archive files with an mtime, messages and the process that wrote them. A session has one
file in each project directory it was saved from and a copy in the StateStore (`Store`). `SessionManager.load` returns the
first it finds, `_default` and then the subdirectories in the order of the listing, which is any of them here
(`LoadSession`); baseline, lock, comparison and save are about the file of the process's own directory (`Here`).
`persist_session` is lock, compare, fork, StateStore copy, project file, prune, refresh, unlock; `load_session` reads
the content in one step and the mtime in the next. The clock advances with each write. `astray` names the files for
which a process of their project loaded a copy that lacked some of their messages, or had none to
compare with. `raced` records that a file was written or deleted while some process was between its
content and its mtime; `unlocked`, that a save went on without its lock.

### WebChat and TurnLock
One browser tab outside sync mode, the web server's list of active chats and the turns of the engine. The variables are
the refs and states of the components under shortened names: `shown` is App's `sessionId`, `view` is `activeIdRef`,
`gen` is `sessionGenerationRef`, `reqId` is `requestIdRef` (the alias by which a turn is stopped: a request or a session),
`reader` is `abortRef`. `due` says that the effect of the last change of session has not run yet. `tail` is the last
message of the transcript, which is what matters to a reply that streams: its bubble, a line of the system's, or a
transcript read from disk. `loads` and `stops` are requests in flight; the history is asked for together with
`/chat/active`, and each has the generation it was sent in. A turn is `sent` from the client's POST until the server
processes it (`TurnBegins`: `chat_sse` resolves or creates the session and marks it active, `chat_api.rs:97`, `:119`); a check
that the server answers in between finds the session idle, and its answer is marked `early`. `deciding` holds the posts
of decisions, one per instance of the approval card (`loading` is the instance's own, `PermissionCard.tsx:43`), so a new
card may be decided while the answer to an older one is still out; stops may be clicked as often as the button is there.

| code | actions |
|---|---|
| App: select, new, delete, restore, reload | `Pick`, `New`, `Created`, `CreateFails`, `Delete`, `Reload`, `Restored`, `RestoreFails` |
| the session effect of Chat and its checks | `SwitchEffect`, `LoadServed`, `LoadApplied`, `LoadFails` |
| `sendMessage`, `deliver`, the queue and its drain effect | `Send`, `Enqueue`, `RefuseSend`, `Unqueue`, `Drain` |
| stream events, catch and finally of `deliver` | `AskPermission`, `ToolResult`, `Terminal`, `StreamEnd`, `StreamLost` |
| engine and server | `TurnBegins`, `TurnEnds`, `Orphaned`, `StopServed`, `DecisionServed` |
| `handleStop`, `PermissionCard`, `switchMode`, `execServerCommand` | `Stop`, `StopOk`, `StopFails`, `Decide`, `DecisionDone`, `DecisionLost`, `BeginMode`, `ModeSettled`, `Command`, `CommandDone` |

Four history variables name what the code does not prevent. `chosen` is the user's own last pick; the answers to
`createSession` and `resolveSession` are later words of the user's and reset it. `overtaken` is set when the answer to a
check arrives after a turn was sent from the same view, when the view accepts an `early` answer, when a stop was answered
although the turn still runs (the server answers 200 with `stopped: false` for an id the engine does not know), and when
`/undo` reloads the transcript under a running reply. `lost` are approvals whose decision never
arrived. `queue` holds the turn each message was typed under.

`TurnLock` is what the tab promises the engine: a turn starts on a session only while none runs there, until the promise
is `waived`. A turn runs from the moment its POST is processed. `WebChat` implements it by `INSTANCE
TurnLock WITH active <- running, waived <- overtaken`, where `running`
is the set of turns the engine runs on each session: the promise is about the engine's state, which the tab never sees,
and is kept through the recovery state, the server's marks and the generations.

### WebLive and LiveReconnect
`WebLive` is the same view in sync mode: readers of `/live` (of which `cur` is `liveAbortRef`), the events on their way,
`liveLifecycleRef`, posts, and as much of the `/chat` side as excludes sync mode or is excluded by it. The runtime and its
other views are external: they publish what the UI's protocol knows. The `/chat` reader is `open` until the end of its
turn is handled (`ChatTold`) and `told` until it closes (`ChatCloses`, the `finally`) or its connection is lost (`ChatLost`);
in between the view is free and sync mode may be turned on. The effect that sends the next queued message runs after the
paint: `Paints` stores what it closes over in `effect`, any click or event may come first, and `LiveDrain` runs it before
the next render. A switch to another session also starts the check of that session (`check`, `RoomChecked`), whose answer
may lock the view and drop its queue.
`belated` marks what the user overtook: answers to a toggle that came when sync mode had been left or entered meanwhile,
a failed post, or a failed switch, that clears busy under a `/chat` turn, and a drain effect painted
before sync mode was turned on. A
reconnect may come any time here; `LiveReconnect` has the seconds: the delays between attempts, the healthy time that
resets their count, the watchdog, the server's keep-alive. There a timer fires at or just after the second it is due, so
that a silence of 45 s may or may not count as more than 45000 ms; and a connect has no timeout, as `fetch` has none.

### Login, UserInput, Pickers, SessionList
`Login` is `useAuth` with one record per login under way; `UserInput` is the card and its conversions between an edit and
a posted answer (`BuildAnswer`, `Hydrate`), an array of labels modelled by the labels it has and the one it has `twice`;
`Pickers` is the three directory lists, which differ in what they do with answers that were overtaken, and the choice
from them (`PickRow`, `Confirm`); `SessionList` is the sidebar's load with its epoch and the debounced search.

### WebUI
The parts of the tab around the chat turn in one specification. They keep their own state and talk to the server, not to
each other, so the variable `pane` chooses the part that moves while the others rest in a state in which nothing is due:
an interleaving of two parts would only multiply the states of each.

### MC modules
`MCTurnRecovery`, `MCBackgroundJobs`, `MCSessionArchive`, `MCWebChat` and `MCWebUI` extend their module; the second and
third define the symmetry set, of jobs, workers and callers, and of processes and project directories. Symmetry
is used in runs of safety properties only.

## 4. Runs

| run | shows | bounds and why they are enough |
|---|---|---|
| `turn_stream` | recovery in the process and after a crash, clearing, disclosure | 2 turns (an old turn's files under a new one), 2 rounds (a round saved before the one cut off), 2 items (a round with two calls, or one each), 1 crash; 3.6 million states |
| `turn_faults` | the same with a failed write or unlink, both loops, rotation after one event and a note of one call; every turn ends | 2 turns, 1 round, 1 item, 1 fault, 1 crash; `NoteCap` 1, so that the calls of two turns exceed it; 880 thousand states |
| `turn_crash`, `turn_resurrect`, `turn_disclose` | comments of the code that its behaviour contradicts | the smallest instance: 1 turn, 2 rounds, 1 crash |
| `jobs_safety` | the four safety invariants, and that the manager implements `JobService` | 2 jobs, 2 pool threads (two jobs at once), 2 callers (cancel against cancel, cancel or submit against shutdown) |
| `jobs_live` | a cancel stops the command; waiting jobs are served | 2 jobs on 1 thread, the case in which one waits for the other |
| `jobs_final` | final states are overwritten | 1 of each |
| `archive_keep` | no lost update, no fork for one's own save | 2 processes in 2 directories and the StateStore (the same directory, and two), 2 ids (an original and a fork, or two sessions), 3 turns, 3 saves (of either process, and one after the other's), retention of 3 files (a save may write two), 1 failure; 4.1 million states |
| `archive_race` | the window of a load loses an update | the same directories, no failure |
| `web_chat` | the tab implements `TurnLock`; the view stays the user's; nothing is sent blindly; every lock is lifted | 1 saved and 1 new session (one to leave, one to go to, and back), a turn that may run before the page opens and 2 of its own (one typed ahead under the other), 3 acts of the user's, 2 approvals in one turn (the second while the first is decided), 1 lost or failed request; 270 thousand states |
| `web_ui` | the parts around the chat turn | sync mode: 2 sessions, 3 pushes (a toggle, a post, a switch), 1 break, 2 events on the way; timers: connects that take up to a minute (from 30 s on, the healthy time, it makes no difference how long); 3 logins (an overtaken one, its successor, one more); batches of 1 to 3 questions of all kinds, 6 edits, an option that may also be typed; 2 directories and `~`, 3 clicks; 2 projects, 2 queries, 4 touches; 1.2 million states |

`CHECK_DEADLOCK FALSE` is set because the systems may really stop: no user need type, no job be submitted, and the
bounds on turns, faults and saves end every behaviour.

Properties of the passing runs, beside a type invariant of each larger module:

- `InProcessRecovery`: after an interrupt or error return the open turn is what recovery loads, and it repeats at most
  the running round. `CrashKeepsPrompt`: a new process finds the open turn, at any moment, torn files included.
  `OneFaultKeepsPrompt`: also after one failed disk operation, except when a failed write left the main file of an
  older turn in place. `ClearedOffDisk`: no checkpoint file offers a cleared turn. `StreamedCallsDisclosed`: a call
  executed by the streaming loop is not executed again by a model that was not told, unless its journal entry was
  rotated away or the note had no room for it. `TurnEnds`: every turn gives the prompt back.
- `KillableWhenRunning`, `NoStrayChild`, `RunningIsAttended`, `ShutdownReachesAll`, `CancelStops`, `PendingServed`:
  see the comments in `BackgroundJobs`. `KeepsService` (the refinement): a command is started at most once, no more run
  than there are workers, none for a job cancelled before its worker's check.
- `NoLostUpdate`: no save takes messages out of a project's file, and `NotBehind`: whoever will see no conflict holds
  every message of the file it will write over; both but for files in `astray`, saves without the lock and races for a
  date. `ForksOnlyForOthers`: nobody forks because of its own last save.
- `OneTurnPerSession` (the refinement): no turn of the tab begins where one runs, until one of the late answers named in
  section 3 waives it. `PickStands`: no
  event or answer of an abandoned view takes the user's choice back. `StreamOwnsTail`: a reply's bubble stays the last
  message while it streams. `BusyHasAlias`: the Stop button of a busy view has the alias of exactly the turn it reads,
  also after the `finally` of an earlier one.
  `ApprovalReachable`: an approval the engine waits for is on the card, or its decision was lost.
  `DrainOnlyAfterCompletion`: what was typed ahead is sent only after a natural completion, in the same view.
  `NoTurnDuringCompact`. `CheckEnds`, `QueueMoves`: the lock of a fresh view is lifted or explained, and typed-ahead
  messages are sent or dropped.
- `OneFeed`: no two sources feed the view at once, but for what was overtaken (`belated`). A `/chat` reader is a source until
  the end of its turn was handled; sync mode may be on beside its close. `BlindNeverSent`: a message typed under a
  turn whose end fell into a gap of the stream is not sent. `StalenessBounded`: silence is noticed within a minute.
- `LoginEnds`: the button is given back, whatever logins overtake each other. `AnswerKept`: paging through a batch
  loses no label and no text; at most the second copy of a label both ticked and typed goes. `PanelsFresh`: when no
  awaited answer is out, the directory dialog and the @ menu list the path they show, the search the hits of its query,
  and the sidebar the sessions of its project, unless a dialog's closure of another project loaded it last. Nothing is
  claimed of the file dialog.

Each is accompanied by a mutant: a definition of the model changed as a plausible bug would change the code (marked
`Mutant` in the modules), under which TLC finds the property violated.

### What the violation runs show

- `turn_crash`: round files are reachable only through a pointer in memory, so a crash loses all rounds of the turn,
  not "at most one" (`loop_body.py:695`).
- `turn_resurrect`: `checkpoint_clear` goes to the newest rollout file, snapshots in the files of earlier processes
  survive it, and a finished turn can be recovered again (`session_store.py:324`). The startup gate
  `has_checkpoint` does not offer it (`ClearedOffDisk`); `/recover` runs it.
- `turn_disclose`: `resume_interrupted` journals none of its own calls, so a second resume is not told of them
  (`submission.py:564`).
- `jobs_final`: a cancelled job can become running again, and be left so (`background.py:7`, `:152`). The process is
  reaped all the same: `NoStrayChild` and `CancelStops` hold.
- `archive_race`: a save between the read and the stat of a load is later overwritten without a conflict
  (`session_persist.py:51`).

### Further disagreements

Six more comments say what the code does not do. The modules state each as a property; the configurations below refute
it and are kept beside the runs, which except the case.

| configuration (module) | property | comment, and what happens |
|---|---|---|
| `MCTurnRecovery_listed.cfg` | `AllStreamedCallsListed` | `submission.py:564-566`: the note lets the model know what was executed. It names ten calls (`:570`, `:652`); one left out is executed again. |
| `MCSessionArchive_elsewhere.cfg` | `NoLostUpdateElsewhere` | `session_persist.py:161-162`: the mtime taken is the baseline of the archive loaded. The content may be a copy of another directory (`session.py:157-166`) and the mtime that of the project's own newer file, which the next save overwrites. |
| `MCWebChat_registry.cfg` | `RegistryAuthoritative` | `Chat.tsx:713`: the registry of active chats is authoritative. A check that overtakes a POST of an earlier view finds nothing (`chat_api.rs:119`). |
| `LiveReconnect_fallback.cfg` (`LiveReconnect`) | `FallsBack` | `Chat.tsx:863-864`: after a run of failures the tab falls back to non-sync. The five delays and the sixth are 45 s; the watchdog may see them as more (`:947`) and restart, with a new count (`:865`), for ever. |
| `MCWebUI_filepicker.cfg` | `FilesOfHeading` | `FilePicker.tsx:38`: a picked file's path is always that of the normalised `browsePath`. Two listings answered in the other order leave the rows and the path of the first (`:44-50`) under the heading of the second. |
| `MCWebUI_sidebar.cfg` | `SidebarOfProject` | `Sidebar.tsx:377-381`: the epoch keeps the list of the right project. A dialog left open over a change of project reloads with the closure of its render (`:484-492`), as the newest load. |

## 5. Fairness

`TurnRecovery`: weak fairness of the program's own steps (`Step`): model requests and tools carry timeouts and return,
so the loop runs on. Nothing obliges a user to start, interrupt or recover, or a crash to happen. A repeated choice
cannot postpone the end of a turn because each round is counted.
`BackgroundJobs`: weak fairness of each worker, of the steps of a call once begun, and of the passing of time.
Commands are not assumed to end, nobody is assumed to submit, cancel or shut down.
`WebChat` (`ChatFairness`): the browser runs its effects, a check is answered (a failed one locks the view, which is an
answer too), a POST is processed and a turn that waits for nobody ends, a terminal event is read, a
mode switch is answered. `streamChat` and
`fetch` settle their promises, React flushes effects, and the engine's requests carry timeouts. Nothing is asked of the
user, and no approval is assumed to be given: `QueueMoves` excepts a turn that waits for one.
`Login` (`LoginFairness`): requests are answered or fail, timers fire, deadlines pass.
`LiveReconnect` (`ReconFairness`, only for the refuted `FallsBack`): timers fire when due and time passes, and a connection
to a daemon that is gone ends or falls silent.
`WebLive`, `UserInput`, `Pickers` and `SessionList` are checked for safety only and need none, as are the timers of
`LiveReconnect` in `web_ui`.
`SessionArchive` has no liveness property: nothing but the 10 s timeout of the lock guarantees progress, and saving
without the lock after it is modelled by `LockFails`.

## 6. Proofs

Checked by TLAPS for all values of the constants, from the assumptions named in the modules (`ConstantsAssumption`,
`BoundsAssumption`, `LatencyAssumption`: bounds are natural numbers; `WorkersAssumption`: a pool has finitely many
threads; `SentinelAssumption`, `NoneAssumption`,
`OtherAssumption`: sentinels differ from data). `OtherAssumption` says that no option of a question is labelled
`__other__` (UserInputCard.tsx:18), which the code trusts the model not to do.

`TurnRecovery_Proofs`
- `TypeCorrect`: `TypeOK`, from `Typed`, which adds what each program point knows (a round about to run is below the
  bound, an open rollout file exists).
- `PromptSurvivesCrash`: `CrashKeepsPrompt`. The property is not inductive. The main file is torn at the next turn's
  start and removed before the clear event, so `Recoverable` also says that the rollouts hold the snapshot of a turn
  begun by one of the two loops; that the pointer, when it names a round file, names a whole file of a turn
  that is itself kept, since `/recover` may take that turn up again after the next one was cut off in its first
  save; and that a round is saved under a name newer than the pointer's. Lemmas say when a change of the sequence of
  rollout files changes what is rebuilt from it (`RebuiltStays`, `RebuiltIsNew`, `RebuiltIgnoresEmpty`).
- Below the other theorems lie `Past` (what is on disk is of turns that were started, whatever fails) and `Staged` (what
  each program point knows: what a start has written so far, how many results are in, where a save leads).
- `PromptSurvivesFault` (`OneFaultKeepsPrompt`), from `Spared`: the start of a turn writes its prompt to the rollout and to
  the main file, and nothing but the next start or its own clear touches either, so one failed operation leaves one of
  the two.
- `RecoveryContinues` (`InProcessRecovery`), from `Continued`: a round counts as begun only when the one before it is saved,
  and it is saved under a name that is not the pointer's, so a save cut off in the middle leaves the last one to load.
- `ClearedLeavesDisk` (`ClearedOffDisk`), from `OffDisk`: a turn is cleared last, when its files are gone, and what a
  running turn saves is of a turn not cleared.
- `StreamedAreDisclosed` (`StreamedCallsDisclosed`), from `Disclosed`: while the rollouts hold the newest turn no other is
  resumed (`Sole`), every item the streaming loop executed for it is in the journal or rotated away (`Reported`), and a
  resume was told of all of these but for the `cut` ones (`Told`); once they no longer hold it, it
  is not resumed at all (`Traced`).

`BackgroundJobs_Proofs`
- `TypeCorrect`, `RunningHasHandle` (`KillableWhenRunning`), `NoWorkerLeavesAStray` (`NoStrayChild`),
  `OnlyCancelLeavesRunning` (`RunningIsAttended`), `ShutdownIsComplete` (`ShutdownReachesAll`). The invariant is
  layered: `Placed` (a job is in one place: a submit, the queue or one worker), `Processed` (what a worker's position
  says of the command), `Settled` (the status of a job nobody cancelled), `Swept` (a job the sweep could know of is
  flagged, on the list, or about to be flagged); each layer uses the ones before it.
- `ImplementsJobService` (`KeepsService`): only `Spawn` maps to `Start`, a kill or the end of a command to `Finish`, a flag, a
  return or the closing of the pool to `Dismiss`, everything else to a stutter. That a slot is free is `SlotFree`: the
  commands that run are the image of the workers that attend them, and the one that spawns attends none.
- `PendingIsNotForgotten`: the safety core of `PendingServed`, from `Heeded`: a pending job is in one of the places of
  `Placed`, or a canceller is about to mark it, or the pool is closed.

`SessionArchive_Proofs`
- `TypeCorrect` (`TypeOK`), from `Typed`: ids are handed out once and nothing is dated in the future.
- `ForksForOthers` (`ForksOnlyForOthers`), from `OwnInv`: while the file holds a process's own version, the process
  has its date as baseline, or is about to take it.
- `NeverBehind` (`NotBehind`), from `Informed`, which says of each process what its baseline is
  worth while no two raced for a date: either its file was
  never written and is nobody else's, or every version it does not hold is newer than its baseline. A lock is not
  needed for this.
- `NothingLost` (`NoLostUpdate`), an action property, from `Informed` and `Locking`: between the comparison and
  the write the lock is held and there is no conflict. This is the only place where the lock matters.

`UserInput_Proofs`
- `PagingKeeps` (`AnswerKept`): an answer is rebuilt, but for a second copy of a label, from an edit that was rehydrated from
  it (`Rehydrated`, one lemma per kind of question). It needs `CardInv`: an answer kept is one the
  card can build, so that a single choice is one
  label or one text, and the text of a multiple choice is at most one.

`WebUI_Proofs`
- `PanelsTrue` (`PanelsFresh`), from `PickInv`, `BarInv` and `SearchInv`: a request that will be heeded is for what the heading
  says, and either one is in flight or what is shown is already that. The rest is `Removed`: taking one answered
  request out of a sequence leaves every other one in it, so that an answer out of turn does not lose the awaited one.
- `BusyButtonHasLogin`: the safety core of `LoginEnds`: a busy button has a login of the present generation under way, so an
  overtaken one can neither keep it busy nor is needed to free it.

`LiveReconnect_Proofs`
- `SilenceBounded` (`StalenessBounded`): at each look of the watchdog the silence is at most what it accepts, and it grows
  no faster than the time since.

`WebLive_Proofs`
- `OneFeedHolds` (`OneFeed`), from `FeedInv`: a reader that was not aborted is the current one; a current one means that
  sync is on; a `/chat` reader whose turn has not ended means that it is off and that the view is busy, which is what
  keeps sync from being turned on. The last two hold only until something comes `belated`; the case of a failed post that
  clears busy under a `/chat` turn came to light in this proof and was then reproduced by TLC.
- `BlindHolds` (`BlindNeverSent`): a queued message whose turn was not seen to end keeps the view
  busy, and a snapshot that finds the view busy empties the queue, so no message ever becomes blind.

`WebChat_Proofs`
- `PicksStand` (`PickStands`), from `Located`: what is shown exists; generations only grow, and when the effect of a
  change of session is still due no open reader and no check has the present one (`Generations`); a check of this
  generation is about this view (`ChecksView`); the current turn runs where the user looks (`CurrentHere`).
- `CompactAlone` (`NoTurnDuringCompact`), from `QueueInv`: a locked view and one that compacts have nothing queued, so
  that the drain effect cannot start a turn where the user may not.
- `ImplementsTurnLock` (`OneTurnPerSession`). `TurnLock` speaks of turns the tab cannot see, so the invariant `Sole`
  says, until the view is overtaken, how it can know: at most one turn runs on a session (`Alone`) and the server has it
  marked (`Marked`); an answer "idle" in flight is wrong only about turns sent from this very view (`IdleTrue`);
  nothing else runs where the current turn runs or ran (`CurrentAlone`); and a ready view watches whatever runs on its
  session (`ReadyWatches`). Each step then maps to one of `TurnLock`'s: a delivery to `Start`, the end of turns to `End`, a
  late answer to `Waive`, everything else to a stutter.
- `ChatTypes` (`ChatTypeOK`): the invariant `Types` names the types in groups, one per group of variables that change
  together, so that a step is asked only about the groups it touches.
- `BusyIsStoppable` (`BusyHasAlias`), from `Follows`: turns start in their order (`Ordered`), a busy view reads the newest one
  and holds its alias (`Streams`), and what is queued in a view that is not busy is behind a newest turn that completed
  (`Queued`). A step that starts no turn is shown to keep out of the way of all three (`OutOfTheWay`).
- `DrainsFollowCompletion` (`DrainOnlyAfterCompletion`), an action property, from `Queued`: the turn a drained message was
  typed under is the one before the turn it starts.
- `RepliesStayWhole` (`StreamOwnsTail`), from `Owns`: in a busy view only a transcript from disk can take the place of the
  reply, and that is an answer that overtakes the view.
- `ApprovalsReachable` (`ApprovalReachable`), from `Asked`: a card never asks for a call later than the last one, and a
  decision that was served is of a call no longer waited for.
- `NobodyWaitsInVain`: the safety core of `CheckEnds` and `QueueMoves`: a locked fresh view has a check in flight that it will
  listen to (`CheckUnderWay`), and a queued message is behind an open stream that the view reads, or may be sent, or
  waits for a mode switch (`QueueUnderWay`).

Only model-checked: the liveness properties `TurnEnds`, `CancelStops`, `PendingServed`, `CheckEnds`, `QueueMoves` and
`LoginEnds`. Liveness under fairness is out of the prover's reach; for four of them the theorems above show
the part that is safety, that whoever waits, waits for something that is under way. Every other property of a passing
run is stated by a theorem. The properties of the other five runs are refuted, not proved.

## 7. Abstractions and what is left out

- Message texts, usage counters, redaction and display. Provider fallback inside a round: one request, one outcome.
- Reply truncation is bounded by rounds, not by its own limit of three, which the rounds of the instances do not reach.
- Which ten calls a resume note names: the sort by signature, and that equal signatures count once.
- Deletion of rollout files by age and of journal archives by number.
- `rewind_to` and switching sessions within a process (planned); `/clear` starts a new session and clears the checkpoint
  of the old one at a moment when no turn runs.
- Two processes that run turns of the same session at once: `TurnRecovery` has one process at a time,
  `SessionArchive` has several but no checkpoints.
- mtime resolution: two writes have different times.
- Retention lists the archives and deletes the excess in one step; an archive saved in between could be deleted as old.
- A command that survives `SIGKILL`, and the creation of the manager itself, which is lazy and unlocked.
- Web chat: a POST for which the server can neither find nor create a session (it then bridges the turn without one,
  `chat_api.rs:103`), a session deleted while a message to it is on its way, and the wait of the session effect for a
  missing project hash (`Chat.tsx:652-658`), after which it runs again. The drain effect runs before the user's next act
  (`Settled`); `WebLive` has the acts that come first. A POST is not lost on its way while its reader is open; that is
  `StreamLost` followed by `Orphaned`.
- Sync mode: a stop of a locked view is answered at once; one switch at a time is posted by the session effect; the
  watchdog does not tick between `setSync(false)` and the cleanup of its effect. Browsers slow the timers of hidden
  tabs down, which `StalenessBounded` does not allow for. A `/chat` reader that is lost after the end of its turn was handled
  clears busy also under a turn of sync mode (`ChatLost`); no property forbids it.
- Web front end: texts, attachments, token counts, provider and model choice, and the slash commands that change neither
  the session nor a turn. An approval is asked for by one turn of a behaviour. A decision names a session, and one made
  on a card whose turn has ended goes to whatever waits on that session then, as in the code.
- A reload of the page keeps the generation growing, which the code starts from zero; readers of the old page are closed.
- Two tabs on one session outside sync mode: `TurnLock` is the promise of one tab. A second tab is covered as far as a
  turn may run on the session when the page opens.
- Sync mode in a tab is `WebLive`, outside it `WebChat`; they share one component of the code, and `WebLive` keeps the
  part of the chat side on which joining and leaving depend.
- The engine behind the web server is not connected to `TurnRecovery`: the server starts it as a service of its own, and
  the UI sees of a turn only how it ends.
- `PROJECT.json` maps definitions that translate code; operators that only compose others (`Next` and the like) are left out
  there.
