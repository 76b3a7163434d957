--------------------------- MODULE BackgroundJobs ---------------------------
(***************************************************************************)
(* BackgroundTaskManager: shell commands run in the background by a pool   *)
(* of worker threads, cancelled by tool threads and by shutdown() at exit. *)
(*                                                                         *)
(* The lock covers only the dictionary of jobs.  The fields of one job     *)
(* (status, cancelled, proc) are read and written by its worker and by     *)
(* every canceller without it, so each access that another thread can see  *)
(* is a step of its own here.                                              *)
(***************************************************************************)
EXTENDS FiniteSets

CONSTANTS
    Jobs,      \* the jobs that may be submitted
    Workers,   \* the threads of the pool (max_workers)
    Callers,   \* the threads that submit, cancel and shut down
    None       \* no job

ASSUME NoneAssumption == None \notin Jobs
ASSUME WorkersAssumption == IsFiniteSet(Workers)

Unfinished == {"pending", "running"}
Terminal   == {"completed", "failed", "cancelled"}

VARIABLES
    \* fields of the job records; "unborn" is a job not yet in _jobs
    status, cancelled, proc,
    \* the operating system's view of the command, and of its deadline
    child, expired,
    \* the pool: the jobs waiting for a thread, and whether it was shut down
    queue, closed,
    \* where each worker is, and the job it runs
    wpc, wjob,
    \* where each caller is, the job it works on, and what shutdown has left
    cpc, cjob, mode, todo,
    \* history: jobs registered after shutdown() took its list
    missed

job     == <<status, cancelled, proc>>
os      == <<child, expired>>
pool    == <<queue, closed>>
worker  == <<wpc, wjob>>
caller  == <<cpc, cjob, mode, todo>>
vars    == <<job, os, pool, worker, caller, missed>>

Init ==
    /\ status = [j \in Jobs |-> "unborn"]
    /\ cancelled = [j \in Jobs |-> FALSE]
    /\ proc = [j \in Jobs |-> FALSE]
    /\ child = [j \in Jobs |-> "none"]
    /\ expired = [j \in Jobs |-> FALSE]
    /\ queue = {} /\ closed = FALSE
    /\ wpc = [w \in Workers |-> "idle"] /\ wjob = [w \in Workers |-> None]
    /\ cpc = [c \in Callers |-> "idle"] /\ cjob = [c \in Callers |-> None]
    /\ mode = [c \in Callers |-> "cancel"]
    /\ todo = {} /\ missed = {}

----------------------------------------------------------------------------
\* submit: the record enters _jobs as pending ...
Register(c, j) ==
    /\ cpc[c] = "idle" /\ status[j] = "unborn"
    /\ status' = [status EXCEPT ![j] = "pending"]
    /\ cpc' = [cpc EXCEPT ![c] = "enqueue"]
    /\ cjob' = [cjob EXCEPT ![c] = j]
    /\ missed' = IF closed \/ \E d \in Callers : mode[d] = "shutdown"
                 THEN missed \cup {j} ELSE missed
    /\ UNCHANGED <<cancelled, proc, os, pool, worker, mode, todo>>

\* ... and then the pool; a pool that was shut down raises, and the record stays.
Enqueue(c) ==
    /\ cpc[c] = "enqueue"
    /\ queue' = IF closed THEN queue ELSE queue \cup {cjob[c]}
    /\ cpc' = [cpc EXCEPT ![c] = "idle"]
    /\ cjob' = [cjob EXCEPT ![c] = None]
    /\ UNCHANGED <<job, os, closed, worker, mode, todo, missed>>

----------------------------------------------------------------------------
(***************************************************************************)
(* The worker (_run).                                                      *)
(***************************************************************************)
Goto(w, pc) == wpc' = [wpc EXCEPT ![w] = pc]

Return(w) == /\ Goto(w, "idle")
             /\ wjob' = [wjob EXCEPT ![w] = None]

\* A free thread takes a waiting job.  (The pool is first in, first out; no
\* property depends on it.)
Take(w) ==
    /\ wpc[w] = "idle"
    /\ \E j \in queue : /\ queue' = queue \ {j}
                        /\ wjob' = [wjob EXCEPT ![w] = j]
    /\ Goto(w, "check")
    /\ UNCHANGED <<job, os, closed, caller, missed>>

\* Mutant: the flag is not looked at before the command is started.
CheckNothing(w) ==
    /\ wpc[w] = "check"
    /\ Goto(w, "spawn")
    /\ UNCHANGED <<job, os, pool, wjob, caller, missed>>

\* A job cancelled while it was pending starts no process.
CheckCancelled(w) ==
    /\ wpc[w] = "check"
    /\ IF cancelled[wjob[w]] THEN Return(w)
                             ELSE Goto(w, "spawn") /\ UNCHANGED wjob
    /\ UNCHANGED <<job, os, pool, caller, missed>>

\* Mutant: the job is announced before its handle is stored.
SpawnThenAnnounce(w) ==
    /\ wpc[w] = "spawn"
    /\ child' = [child EXCEPT ![wjob[w]] = "alive"]
    /\ Goto(w, "announce")
    /\ UNCHANGED <<job, expired, pool, wjob, caller, missed>>

\* Popen; an exception goes to the handler at the end of _run.
Spawn(w) ==
    /\ wpc[w] = "spawn"
    /\ \/ /\ child' = [child EXCEPT ![wjob[w]] = "alive"]
          /\ Goto(w, "store")
       \/ /\ Goto(w, "settle")
          /\ UNCHANGED child
    /\ UNCHANGED <<job, expired, pool, wjob, caller, missed>>

StoreHandle(w) ==
    /\ wpc[w] = "store"
    /\ proc' = [proc EXCEPT ![wjob[w]] = TRUE]
    /\ Goto(w, "announce")
    /\ UNCHANGED <<status, cancelled, os, pool, wjob, caller, missed>>

AnnounceRunning(w) ==
    /\ wpc[w] = "announce"
    /\ status' = [status EXCEPT ![wjob[w]] = "running"]
    /\ Goto(w, "wait")
    /\ UNCHANGED <<cancelled, proc, os, pool, wjob, caller, missed>>

\* communicate returns the output of a command that ended, or raises.
Collect(w) ==
    /\ wpc[w] = "wait" /\ child[wjob[w]] = "dead"
    /\ Goto(w, "settle")
    /\ UNCHANGED <<job, os, pool, wjob, caller, missed>>

\* communicate times out: the command runs on, or a grandchild holds its pipes.
PollTimeout(w) ==
    /\ wpc[w] = "wait"
    /\ Goto(w, "poll")
    /\ UNCHANGED <<job, os, pool, wjob, caller, missed>>

\* Mutants: a cancelled job is left without a reap; the deadline is not looked at.
PollAbandons(w) ==
    /\ wpc[w] = "poll"
    /\ IF cancelled[wjob[w]] THEN Return(w)
       ELSE Goto(w, IF expired[wjob[w]] THEN "reap_expired" ELSE "wait") /\ UNCHANGED wjob
    /\ UNCHANGED <<job, os, pool, caller, missed>>

PollForever(w) ==
    /\ wpc[w] = "poll"
    /\ Goto(w, IF cancelled[wjob[w]] THEN "reap_cancelled" ELSE "wait")
    /\ UNCHANGED <<job, os, pool, wjob, caller, missed>>

Poll(w) ==
    /\ wpc[w] = "poll"
    /\ Goto(w, IF cancelled[wjob[w]] THEN "reap_cancelled"
               ELSE IF expired[wjob[w]] THEN "reap_expired" ELSE "wait")
    /\ UNCHANGED <<job, os, pool, wjob, caller, missed>>

\* _reap: kill the command unless it has ended, and wait for it.
Reaped(j) == child' = [child EXCEPT ![j] = "dead"]

\* Mutant: the worker trusts the canceller to have killed the command.
ReapTrusting(w) ==
    /\ wpc[w] = "reap_cancelled"
    /\ Return(w)
    /\ UNCHANGED <<job, os, pool, caller, missed>>

ReapCancelled(w) ==
    /\ wpc[w] = "reap_cancelled"
    /\ Reaped(wjob[w])
    /\ Return(w)
    /\ UNCHANGED <<job, expired, pool, caller, missed>>

ReapExpired(w) ==
    /\ wpc[w] = "reap_expired"
    /\ Reaped(wjob[w])
    /\ Goto(w, "expire")
    /\ UNCHANGED <<job, expired, pool, wjob, caller, missed>>

\* Mutant: a status the enumeration JobStatus does not have.
FailAsTimeout(w) ==
    /\ wpc[w] = "expire"
    /\ status' = [status EXCEPT ![wjob[w]] = "timeout"]
    /\ Return(w)
    /\ UNCHANGED <<cancelled, proc, os, pool, caller, missed>>

FailExpired(w) ==
    /\ wpc[w] = "expire"
    /\ status' = [status EXCEPT ![wjob[w]] = "failed"]
    /\ Return(w)
    /\ UNCHANGED <<cancelled, proc, os, pool, caller, missed>>

\* The last look at the cancel flag, after a normal end and after an exception,
\* and then the outcome.
Settle(w) ==
    /\ wpc[w] = "settle"
    /\ IF cancelled[wjob[w]] THEN Return(w)
                             ELSE Goto(w, "commit") /\ UNCHANGED wjob
    /\ UNCHANGED <<job, os, pool, caller, missed>>

\* Mutant: the handler of exceptions does not set the status.
CommitNothing(w) ==
    /\ wpc[w] = "commit"
    /\ Return(w)
    /\ UNCHANGED <<job, os, pool, caller, missed>>

Commit(w) ==
    /\ wpc[w] = "commit"
    /\ \E s \in IF child[wjob[w]] = "none" THEN {"failed"} ELSE {"completed", "failed"} :
           status' = [status EXCEPT ![wjob[w]] = s]
    /\ Return(w)
    /\ UNCHANGED <<cancelled, proc, os, pool, caller, missed>>

\* The command ends by itself; its deadline passes.
ChildExits(j) ==
    /\ child[j] = "alive"
    /\ child' = [child EXCEPT ![j] = "dead"]
    /\ UNCHANGED <<job, expired, pool, worker, caller, missed>>

DeadlinePasses(j) ==
    /\ ~expired[j] /\ \E w \in Workers : wjob[w] = j
    /\ expired' = [expired EXCEPT ![j] = TRUE]
    /\ UNCHANGED <<job, child, pool, worker, caller, missed>>

----------------------------------------------------------------------------
(***************************************************************************)
(* cancel and shutdown.  Both mark one job in the order flag, status, kill.*)
(***************************************************************************)
\* cancel: a job that is neither pending nor running is refused.
Cancel(c, j) ==
    /\ cpc[c] = "idle" /\ status[j] \in Unfinished
    /\ cpc' = [cpc EXCEPT ![c] = "flag"]
    /\ cjob' = [cjob EXCEPT ![c] = j]
    /\ UNCHANGED <<job, os, pool, worker, mode, todo, missed>>

\* Mutant: shutdown lists the running jobs only.
ShutdownRunning(c) ==
    /\ cpc[c] = "idle" /\ ~closed /\ \A d \in Callers : mode[d] = "cancel"
    /\ todo' = {j \in Jobs : status[j] = "running"}
    /\ mode' = [mode EXCEPT ![c] = "shutdown"]
    /\ cpc' = [cpc EXCEPT ![c] = "sweep"]
    /\ UNCHANGED <<job, os, pool, worker, cjob, missed>>

\* shutdown, once at exit: the unfinished jobs are listed under the lock.
Shutdown(c) ==
    /\ cpc[c] = "idle" /\ ~closed /\ \A d \in Callers : mode[d] = "cancel"
    /\ todo' = {j \in Jobs : status[j] \in Unfinished}
    /\ mode' = [mode EXCEPT ![c] = "shutdown"]
    /\ cpc' = [cpc EXCEPT ![c] = "sweep"]
    /\ UNCHANGED <<job, os, pool, worker, cjob, missed>>

SweepNext(c) ==
    /\ cpc[c] = "sweep"
    /\ \E j \in todo : /\ cjob' = [cjob EXCEPT ![c] = j]
                       /\ todo' = todo \ {j}
    /\ cpc' = [cpc EXCEPT ![c] = "flag"]
    /\ UNCHANGED <<job, os, pool, worker, mode, missed>>

SetFlag(c) ==
    /\ cpc[c] = "flag"
    /\ cancelled' = [cancelled EXCEPT ![cjob[c]] = TRUE]
    /\ cpc' = [cpc EXCEPT ![c] = "mark"]
    /\ UNCHANGED <<status, proc, os, pool, worker, cjob, mode, todo, missed>>

MarkCancelled(c) ==
    /\ cpc[c] = "mark"
    /\ status' = [status EXCEPT ![cjob[c]] = "cancelled"]
    /\ cpc' = [cpc EXCEPT ![c] = "kill"]
    /\ UNCHANGED <<cancelled, proc, os, pool, worker, cjob, mode, todo, missed>>

\* A command whose handle is there is killed; one still starting is left to
\* its worker.
KillChild(c) ==
    /\ cpc[c] = "kill"
    /\ IF proc[cjob[c]] THEN Reaped(cjob[c]) ELSE UNCHANGED child
    /\ cpc' = [cpc EXCEPT ![c] = IF mode[c] = "shutdown" THEN "sweep" ELSE "idle"]
    /\ cjob' = [cjob EXCEPT ![c] = None]
    /\ UNCHANGED <<job, expired, pool, worker, mode, todo, missed>>

\* _pool.shutdown(wait=False, cancel_futures=True): what no worker has taken is
\* dropped.  The process is exiting: its thread does no more.
ClosePool(c) ==
    /\ cpc[c] = "sweep" /\ todo = {}
    /\ closed' = TRUE /\ queue' = {}
    /\ cpc' = [cpc EXCEPT ![c] = "gone"]
    /\ UNCHANGED <<job, os, worker, cjob, mode, todo, missed>>

----------------------------------------------------------------------------
WorkerStep(w) ==
    \/ Take(w) \/ CheckCancelled(w) \/ Spawn(w) \/ StoreHandle(w) \/ AnnounceRunning(w)
    \/ Collect(w) \/ PollTimeout(w) \/ Poll(w) \/ ReapCancelled(w) \/ ReapExpired(w)
    \/ FailExpired(w) \/ Settle(w) \/ Commit(w)

CallerStart(c) == \/ \E j \in Jobs : Register(c, j) \/ Cancel(c, j)
                  \/ Shutdown(c)

CallerStep(c) == \/ Enqueue(c) \/ SetFlag(c) \/ MarkCancelled(c) \/ KillChild(c)
                 \/ SweepNext(c) \/ ClosePool(c)

Next == \/ \E w \in Workers : WorkerStep(w)
        \/ \E c \in Callers : CallerStart(c) \/ CallerStep(c)
        \/ \E j \in Jobs : ChildExits(j) \/ DeadlinePasses(j)

Spec == Init /\ [][Next]_vars

\* Threads are scheduled, a call once begun runs to its end, and time passes.
\* Commands need not end and nobody needs to submit, cancel or shut down.
Fairness ==
    /\ \A w \in Workers : WF_vars(WorkerStep(w))
    /\ \A c \in Callers : WF_vars(CallerStep(c))
    /\ \A j \in Jobs : WF_vars(DeadlinePasses(j))

FairSpec == Spec /\ Fairness

----------------------------------------------------------------------------
TypeOK ==
    /\ status \in [Jobs -> {"unborn"} \cup Unfinished \cup Terminal]
    /\ cancelled \in [Jobs -> BOOLEAN] /\ proc \in [Jobs -> BOOLEAN]
    /\ child \in [Jobs -> {"none", "alive", "dead"}] /\ expired \in [Jobs -> BOOLEAN]
    /\ queue \subseteq Jobs /\ closed \in BOOLEAN
    /\ wpc \in [Workers -> {"idle", "check", "spawn", "store", "announce", "wait", "poll",
                            "reap_cancelled", "reap_expired", "expire", "settle", "commit"}]
    /\ wjob \in [Workers -> Jobs \cup {None}]
    /\ cpc \in [Callers -> {"idle", "enqueue", "sweep", "flag", "mark", "kill", "gone"}]
    /\ cjob \in [Callers -> Jobs \cup {None}]
    /\ mode \in [Callers -> {"cancel", "shutdown"}]
    /\ todo \subseteq Jobs /\ missed \subseteq Jobs

Attended(j) == \E w \in Workers : wjob[w] = j
Enqueued(j) == \E c \in Callers : cpc[c] = "enqueue" /\ cjob[c] = j

\* A job that a worker runs or may still come to run.
Around(j) == j \in queue \/ Enqueued(j) \/ Attended(j)

\* background.py:127, "whoever observes RUNNING can kill": a job shown as
\* running has its process handle in place, also after a cancel raced with its
\* start.
KillableWhenRunning == \A j \in Jobs : status[j] = "running" => proc[j]

\* background.py:16, no orphaned bash: a live command always has a worker that
\* will still reap it or wait for it; no path out of _run leaves one behind.
NoStrayChild == \A j \in Jobs : child[j] = "alive" => Attended(j)

\* A job shown as running that no worker runs any more was cancelled: without a
\* cancel every path out of _run settles the status.
RunningIsAttended ==
    \A j \in Jobs : status[j] = "running" => Attended(j) \/ cancelled[j]

\* shutdown reaches every job it could know: once the pool is closed, a worker
\* that still runs a job registered before the sweep will see its cancel flag.
ShutdownReachesAll ==
    closed => \A w \in Workers :
        wjob[w] \notin missed \cup {None} => cancelled[wjob[w]]

\* The commands as whoever submitted them sees them.  A job is dismissed once it
\* is cancelled or out of the pool, unless its worker has passed the check.
Running  == {j \in Jobs : child[j] = "alive"}
Ended    == {j \in Jobs : child[j] = "dead"}
Starting == {j \in Jobs : \E w \in Workers : wpc[w] = "spawn" /\ wjob[w] = j}
Dropped  == {j \in Jobs \ Starting : /\ status[j] # "unborn" /\ child[j] = "none"
                                     /\ cancelled[j] \/ ~Around(j)}

Service == INSTANCE JobService WITH Slots <- Cardinality(Workers), alive <- Running,
                                    over <- Ended, dismissed <- Dropped

\* The check of _run before Popen (background.py:119) and the pool's bound
\* max_workers: the manager implements JobService.  A job's command is started
\* at most once, no more run than there are workers, and none is started for a
\* job cancelled before a worker passed the check, or dropped by the pool.
KeepsService == Service!Spec

\* background.py:12-13: once the flag is set, no command of the job is left
\* running for good, whether or not the command would ever end by itself.
CancelStops == \A j \in Jobs : cancelled[j] ~> [](child[j] # "alive")

\* A job waiting for a worker gets one, whatever the jobs before it do: the
\* deadline frees the pool.  (After shutdown nothing is started.)
PendingServed == \A j \in Jobs : status[j] = "pending" ~> status[j] # "pending" \/ closed

\* The state machine of background.py:7 and the comment at line 152, "cancel
\* first, do not overwrite the terminal state": a final status is final.
TerminalIsFinal ==
    [][\A j \in Jobs : status[j] \in Terminal => status'[j] = status[j]]_vars
=============================================================================
