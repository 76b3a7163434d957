--------------------------- MODULE SessionArchive ---------------------------
(***************************************************************************)
(* The archive files of sessions, shared by several running processes: two *)
(* terminals that continue the same session save the same file.            *)
(* SessionPersister guards a save with a file lock, compares the file's    *)
(* mtime with the one it knows (the baseline) and, if another process has  *)
(* written since, saves under a forked session id instead.                 *)
(*                                                                         *)
(* A session has a file in every project directory it was saved from, and  *)
(* a copy in the StateStore.  Lock, baseline and save are of the file in   *)
(* the process's own project directory; a load may return any of them.     *)
(***************************************************************************)
EXTENDS Integers, FiniteSets

CONSTANTS
    Procs,         \* the processes
    Dirs,          \* the project directories below the sessions root
    Store,         \* the directory of the StateStore copies, below it too
    MaxIds,        \* bound: session ids ever made, forks included
    MaxChats,      \* bound: turns taken by all processes together
    MaxSaves,      \* bound: persist_session calls of all processes together
    MaxFaults,     \* bound: locks not obtained, failed saves and crashes
    MaxArchives,   \* SESSIONS_MAX_FILES, the files retention keeps
    None           \* no archive, no baseline, no session, no lock holder

ASSUME BoundsAssumption ==
    /\ MaxIds \in Nat \ {0} /\ MaxChats \in Nat /\ MaxSaves \in Nat /\ MaxFaults \in Nat
    /\ MaxArchives \in Nat \ {0} /\ Store \notin Dirs

Ids    == 1 .. MaxIds
Chats  == 1 .. MaxChats       \* a chat stands for the messages of one turn

\* The files of the sessions: a project's own, and all that a load may find.
Files  == Dirs \X Ids
Copies == (Dirs \cup {Store}) \X Ids

\* an archive file
Record == [mtime : Nat, msgs : SUBSET Chats, by : Procs]

ASSUME NoneAssumption == None \notin Int \cup Procs \cup Record

VARIABLES
    \* disk: archive[f] is None or its mtime, its messages, and who wrote it
    archive, clock, lock,
    \* each process: its project directory, where it is, its session, its
    \* messages, its baseline and the session id it is saving under
    home, pc, sid, msgs, base, dest,
    \* bounds and history
    ids,      \* session ids made so far
    chats,    \* turns taken so far
    saves,    \* persist_session calls so far
    faults,
    unlocked, \* a save went on without the lock
    raced,    \* an archive was written or deleted while some process was between
              \* its content (read or written) and its mtime
    astray    \* files for which a process of their project loaded a copy from
              \* elsewhere that lacked some of their messages, or there was no file

memory == <<home, pc, sid, msgs, base, dest>>
vars   == <<archive, clock, lock, memory, ids, chats, saves, faults, unlocked, raced, astray>>

\* The file p's lock, baseline and saves are about.
Here(p) == <<home[p], sid[p]>>

Init ==
    /\ archive = [f \in Copies |-> None] /\ clock = 0
    /\ lock = [f \in Files |-> None] /\ home \in [Procs -> Dirs]
    /\ pc = [p \in Procs |-> "off"] /\ sid = [p \in Procs |-> None]
    /\ msgs = [p \in Procs |-> {}] /\ base = [p \in Procs |-> None]
    /\ dest = [p \in Procs |-> None]
    /\ ids = 0 /\ chats = 0 /\ saves = 0 /\ faults = 0
    /\ unlocked = FALSE /\ raced = FALSE /\ astray = {}

Goto(p, l) == pc' = [pc EXCEPT ![p] = l]

----------------------------------------------------------------------------
\* A process starts a session of its own.
NewSession(p) ==
    /\ pc[p] = "off" /\ ids < MaxIds
    /\ ids' = ids + 1
    /\ sid' = [sid EXCEPT ![p] = ids + 1]
    /\ msgs' = [msgs EXCEPT ![p] = {}] /\ base' = [base EXCEPT ![p] = None]
    /\ Goto(p, "idle")
    /\ UNCHANGED <<archive, clock, lock, home, dest, chats, saves, faults, unlocked,
                   raced, astray>>

\* --continue, --resume and /session load: SessionManager.load returns the
\* first copy it finds in the order of the directory listing ...
LoadSession(p, d, i) ==
    /\ pc[p] \in {"off", "idle"} /\ archive[<<d, i>>] # None
    /\ sid' = [sid EXCEPT ![p] = i]
    /\ msgs' = [msgs EXCEPT ![p] = archive[<<d, i>>].msgs]
    /\ Goto(p, "loading")
    /\ astray' = LET f == <<home[p], i>>
                 IN  IF archive[f] # None /\ archive[f].msgs \subseteq archive[<<d, i>>].msgs
                     THEN astray ELSE astray \cup {f}
    /\ UNCHANGED <<archive, clock, lock, home, base, dest, ids, chats, saves, faults,
                   unlocked, raced>>

\* Mutant: a failed stat gives a number that compares as older than any file.
MtimeOrMinusOne(f) == IF archive[f] = None THEN -1 ELSE archive[f].mtime

\* ... and then the mtime of the project's own file is taken, if there is one.
Mtime(f) == IF archive[f] = None THEN None ELSE archive[f].mtime

TakeBaseline(p) ==
    /\ pc[p] = "loading"
    /\ base' = [base EXCEPT ![p] = Mtime(Here(p))]
    /\ Goto(p, "idle")
    /\ UNCHANGED <<archive, clock, lock, home, sid, msgs, dest, ids, chats, saves,
                   faults, unlocked, raced, astray>>

\* reset (/clear): a new session without messages, and the old baseline.
Reset(p) ==
    /\ pc[p] = "idle" /\ ids < MaxIds
    /\ ids' = ids + 1
    /\ sid' = [sid EXCEPT ![p] = ids + 1]
    /\ msgs' = [msgs EXCEPT ![p] = {}]
    /\ UNCHANGED <<archive, clock, lock, home, pc, base, dest, chats, saves, faults,
                   unlocked, raced, astray>>

\* A turn adds messages in memory.
Chat(p) ==
    /\ pc[p] = "idle" /\ chats < MaxChats
    /\ chats' = chats + 1
    /\ msgs' = [msgs EXCEPT ![p] = @ \cup {chats + 1}]
    /\ UNCHANGED <<archive, clock, lock, home, pc, sid, base, dest, ids, saves,
                   faults, unlocked, raced, astray>>

\* The end of a turn, /checkpoint and the exit save; an empty session is not saved.
Persist(p) ==
    /\ pc[p] = "idle" /\ msgs[p] # {} /\ saves < MaxSaves
    /\ saves' = saves + 1
    /\ dest' = [dest EXCEPT ![p] = sid[p]]
    /\ Goto(p, "lock")
    /\ UNCHANGED <<archive, clock, lock, home, sid, msgs, base, ids, chats, faults,
                   unlocked, raced, astray>>

----------------------------------------------------------------------------
(***************************************************************************)
(* persist_session                                                         *)
(***************************************************************************)
AcquireLock(p) ==
    /\ pc[p] = "lock" /\ lock[Here(p)] = None
    /\ lock' = [lock EXCEPT ![Here(p)] = p]
    /\ Goto(p, "compare")
    /\ UNCHANGED <<archive, clock, home, sid, msgs, base, dest, ids, chats, saves,
                   faults, unlocked, raced, astray>>

\* The lock is not obtained in time, or its file cannot be opened: save without
\* it, and without looking at the baseline.
LockFails(p) ==
    /\ pc[p] = "lock" /\ faults < MaxFaults
    /\ faults' = faults + 1 /\ unlocked' = TRUE
    /\ Goto(p, "copy")
    /\ UNCHANGED <<archive, clock, lock, home, sid, msgs, base, dest, ids, chats, saves,
                   raced, astray>>

\* Mutant: a tolerance that is wider than the time between two writes.
ConflictCoarse(p) ==
    /\ base[p] # None /\ archive[Here(p)] # None
    /\ archive[Here(p)].mtime > base[p] + 2

\* _mtime_conflict
Conflict(p) ==
    /\ base[p] # None /\ archive[Here(p)] # None
    /\ archive[Here(p)].mtime > base[p]

\* Mutant: the conflict is computed but the save goes on.
CompareIgnored(p) ==
    /\ pc[p] = "compare"
    /\ Goto(p, "copy")
    /\ UNCHANGED <<archive, clock, lock, home, sid, msgs, base, dest, ids, chats,
                   saves, faults, unlocked, raced, astray>>

Compare(p) ==
    /\ pc[p] = "compare"
    /\ Goto(p, IF Conflict(p) THEN "fork" ELSE "copy")
    /\ UNCHANGED <<archive, clock, lock, home, sid, msgs, base, dest, ids, chats,
                   saves, faults, unlocked, raced, astray>>

\* _save_fork: the content goes to a file of its own.  The lock held is still
\* that of the original.
Fork(p) ==
    /\ pc[p] = "fork" /\ ids < MaxIds
    /\ ids' = ids + 1
    /\ dest' = [dest EXCEPT ![p] = ids + 1]
    /\ Goto(p, "copy")
    /\ UNCHANGED <<archive, clock, lock, home, sid, msgs, base, chats, saves, faults,
                   unlocked, raced, astray>>

\* Between the content of its file and the file's mtime: whatever happens to the
\* file now, p will take the mtime for that of the content it knows.  A fork is
\* in this window without a lock of its own.
Dated(p) == pc[p] \in {"loading", "prune", "refresh"}

\* An atomic replacement of a file, stamped with the clock.
Written(p, f) ==
    /\ clock' = clock + 1
    /\ archive' = [archive EXCEPT ![f] = [mtime |-> clock + 1, msgs |-> msgs[p], by |-> p]]
    /\ raced' = (raced \/ \E q \in Procs \ {p} : Dated(q) /\ Here(q) = f)

\* SessionManager.save writes the StateStore's copy first; a failure there is
\* logged ...
SaveCopy(p) ==
    /\ pc[p] = "copy"
    /\ \/ Written(p, <<Store, dest[p]>>) /\ UNCHANGED faults
       \/ /\ faults < MaxFaults /\ faults' = faults + 1
          /\ UNCHANGED <<archive, clock, raced>>
    /\ Goto(p, "save")
    /\ UNCHANGED <<lock, home, sid, msgs, base, dest, ids, chats, saves, unlocked, astray>>

\* ... and then the project's file.  From then on a fork is the session.
Save(p) ==
    /\ pc[p] = "save"
    /\ Written(p, <<home[p], dest[p]>>)
    /\ Goto(p, IF dest[p] = sid[p] THEN "prune" ELSE "refresh")
    /\ sid' = [sid EXCEPT ![p] = dest[p]]
    /\ dest' = [dest EXCEPT ![p] = None]
    /\ UNCHANGED <<lock, home, msgs, base, ids, chats, saves, faults, unlocked, astray>>

\* A save that fails is reported; session and baseline stay as they are.
SaveFails(p) ==
    /\ pc[p] \in {"copy", "save"} /\ faults < MaxFaults
    /\ faults' = faults + 1
    /\ dest' = [dest EXCEPT ![p] = None]
    /\ Goto(p, "unlock")
    /\ UNCHANGED <<archive, clock, lock, home, sid, msgs, base, ids, chats, saves, unlocked,
                   raced, astray>>

\* prune_sessions_on_persist: beyond MaxArchives the oldest files below the
\* root go, the StateStore's copies among them.
Stored  == {f \in Copies : archive[f] # None}
Excess  == {f \in Stored : Cardinality({g \in Stored : archive[g].mtime > archive[f].mtime})
                               >= MaxArchives}

Prune(p) ==
    /\ pc[p] = "prune"
    /\ archive' = [f \in Copies |-> IF f \in Excess THEN None ELSE archive[f]]
    /\ raced' = (raced \/ \E q \in Procs : Dated(q) /\ Here(q) \in Excess)
    /\ Goto(p, "refresh")
    /\ UNCHANGED <<clock, lock, home, sid, msgs, base, dest, ids, chats, saves, faults,
                   unlocked, astray>>

\* Mutant: the baseline of the load is kept, as before the fix of 2026-10-02.
KeepBaseline(p) ==
    /\ pc[p] = "refresh"
    /\ Goto(p, "unlock")
    /\ UNCHANGED <<archive, clock, lock, home, sid, msgs, base, dest, ids, chats,
                   saves, faults, unlocked, raced, astray>>

\* _refresh_baseline
RefreshBaseline(p) ==
    /\ pc[p] = "refresh"
    /\ base' = [base EXCEPT ![p] = Mtime(Here(p))]
    /\ Goto(p, "unlock")
    /\ UNCHANGED <<archive, clock, lock, home, sid, msgs, dest, ids, chats, saves,
                   faults, unlocked, raced, astray>>

Released(p) == lock' = [f \in Files |-> IF lock[f] = p THEN None ELSE lock[f]]

Unlock(p) ==
    /\ pc[p] = "unlock"
    /\ Released(p)
    /\ Goto(p, "idle")
    /\ UNCHANGED <<archive, clock, home, sid, msgs, base, dest, ids, chats, saves,
                   faults, unlocked, raced, astray>>

\* The process is killed; the kernel releases its lock.
Crash(p) ==
    /\ pc[p] # "off" /\ faults < MaxFaults
    /\ faults' = faults + 1
    /\ Released(p)
    /\ Goto(p, "off")
    /\ sid' = [sid EXCEPT ![p] = None] /\ msgs' = [msgs EXCEPT ![p] = {}]
    /\ base' = [base EXCEPT ![p] = None] /\ dest' = [dest EXCEPT ![p] = None]
    /\ UNCHANGED <<archive, clock, home, ids, chats, saves, unlocked, raced, astray>>

----------------------------------------------------------------------------
Next == \E p \in Procs :
    \/ NewSession(p) \/ \E d \in Dirs \cup {Store}, i \in Ids : LoadSession(p, d, i)
    \/ TakeBaseline(p) \/ Reset(p) \/ Chat(p) \/ Persist(p)
    \/ AcquireLock(p) \/ LockFails(p) \/ Compare(p)
    \/ Fork(p) \/ SaveCopy(p) \/ Save(p) \/ SaveFails(p) \/ Prune(p)
    \/ RefreshBaseline(p) \/ Unlock(p) \/ Crash(p)

Spec == Init /\ [][Next]_vars

----------------------------------------------------------------------------
\* Every variable has its type.
TypeOK ==
    /\ archive \in [Copies -> Record \cup {None}] /\ clock \in Nat
    /\ lock \in [Files -> Procs \cup {None}] /\ home \in [Procs -> Dirs]
    /\ pc \in [Procs -> {"off", "loading", "idle", "lock", "compare", "fork", "copy", "save",
                         "prune", "refresh", "unlock"}]
    /\ sid \in [Procs -> Ids \cup {None}] /\ msgs \in [Procs -> SUBSET Chats]
    /\ base \in [Procs -> Nat \cup {None}] /\ dest \in [Procs -> Ids \cup {None}]
    /\ ids \in 0 .. MaxIds /\ chats \in 0 .. MaxChats
    /\ saves \in 0 .. MaxSaves /\ faults \in 0 .. MaxFaults
    /\ unlocked \in BOOLEAN /\ raced \in BOOLEAN /\ astray \subseteq Files

\* The contract of session_persist.py:51, "the original is not overwritten": no
\* save takes away messages that are in a project's file, as long as every save
\* had its lock, nobody's mtime was raced and nobody took a copy that lacked
\* messages of the file for it.
Keeps(f) == archive[f] # None /\ archive'[f] # None => archive[f].msgs \subseteq archive'[f].msgs

NoLostUpdate == [][~unlocked /\ ~raced' => \A f \in Files \ astray : Keeps(f)]_vars

\* The same without the exception for a race: lock and baseline are there to
\* stop it (session_persist.py:31-35).
NoLostUpdateEver == [][~unlocked => \A f \in Files \ astray : Keeps(f)]_vars

\* The same without the exception for a copy that lacks messages: what a load
\* reads and what it takes the mtime of are one archive (session_persist.py:161).
NoLostUpdateElsewhere == [][~unlocked /\ ~raced' => \A f \in Files : Keeps(f)]_vars

\* The fork chain of session_persist.py:84: a process never takes its own last
\* save for a change made by another.
ForksOnlyForOthers ==
    \A p \in Procs : pc[p] = "fork" /\ archive[Here(p)] # None => archive[Here(p)].by # p

\* A process that will see no conflict holds every message of the file it will
\* write over: this is what the baseline is for.
NotBehind ==
    ~unlocked /\ ~raced => \A p \in Procs :
        pc[p] \notin {"off", "loading"} /\ Here(p) \notin astray
        /\ archive[Here(p)] # None /\ ~Conflict(p)
            => archive[Here(p)].msgs \subseteq msgs[p]
=============================================================================
