------------------------ MODULE BackgroundJobs_Proofs ------------------------
(***************************************************************************)
(* Theorems about BackgroundJobs, for every set of jobs, workers and       *)
(* callers.  The inductive invariant has three parts beside the types:     *)
(* Placed (a job is in one place), Processed (what a worker's position     *)
(* says of the command) and Swept (what shutdown still has to reach).      *)
(***************************************************************************)
EXTENDS BackgroundJobs, FiniteSetTheorems, TLAPS

(***************************************************************************)
(* Each job is unborn, or held by one submit, or queued, or run by one     *)
(* worker, or none of these for good.                                      *)
(***************************************************************************)
Placed ==
    /\ \A w \in Workers : wjob[w] = None <=> wpc[w] = "idle"
    /\ \A v, w \in Workers : wjob[v] = wjob[w] /\ wjob[v] # None => v = w
    /\ \A w \in Workers : wjob[w] \notin queue
    /\ \A c \in Callers : cpc[c] \in {"enqueue", "flag", "mark", "kill"} => cjob[c] \in Jobs
    /\ \A c \in Callers : cpc[c] = "enqueue" =>
           cjob[c] \notin queue /\ \A w \in Workers : wjob[w] # cjob[c]
    /\ \A c, d \in Callers :
           cpc[c] = "enqueue" /\ cpc[d] = "enqueue" /\ cjob[c] = cjob[d] => c = d
    /\ \A j \in Jobs : status[j] = "unborn" => ~Around(j)

(***************************************************************************)
(* The command of a job: not started before "store", not alive when the    *)
(* worker is about to return.                                              *)
(***************************************************************************)
Processed ==
    /\ \A j \in Jobs : status[j] = "unborn" \/ j \in queue \/ Enqueued(j) => child[j] = "none"
    /\ \A j \in Jobs : proc[j] => child[j] # "none"
    /\ \A w \in Workers :
           /\ wpc[w] \in {"check", "spawn"} => child[wjob[w]] = "none"
           /\ wpc[w] \in {"store", "announce", "wait", "poll", "reap_cancelled",
                          "reap_expired"} => child[wjob[w]] # "none"
           /\ wpc[w] \in {"expire", "settle", "commit"} => child[wjob[w]] # "alive"
           /\ wpc[w] = "announce" => proc[wjob[w]]
    /\ KillableWhenRunning
    /\ NoStrayChild

(***************************************************************************)
(* What the status of a job says when nobody cancelled it.                 *)
(***************************************************************************)
Settled ==
    /\ \A w \in Workers : wpc[w] = "reap_cancelled" => cancelled[wjob[w]]
    /\ \A c \in Callers : cpc[c] \in {"mark", "kill"} => cancelled[cjob[c]]
    /\ \A j \in Jobs : Around(j) /\ ~cancelled[j] => status[j] \in Unfinished
    /\ RunningIsAttended

(***************************************************************************)
(* One caller shuts down; a job it could know, that may still run and has  *)
(* no cancel flag, is on its list or is the one it is about to flag.       *)
(***************************************************************************)
Swept ==
    /\ \A c, d \in Callers : mode[c] = "shutdown" /\ mode[d] = "shutdown" => c = d
    /\ \A c \in Callers :
           /\ cpc[c] \in {"sweep", "gone"} => mode[c] = "shutdown"
           /\ mode[c] = "shutdown" => cpc[c] \in {"sweep", "flag", "mark", "kill", "gone"}
           /\ cpc[c] = "gone" => closed /\ todo = {}
    /\ closed => queue = {} /\ \E c \in Callers : cpc[c] = "gone"
    /\ \A c \in Callers : mode[c] = "shutdown" =>
           \A j \in Jobs : Around(j) /\ ~cancelled[j] /\ j \notin missed =>
               j \in todo \/ (cpc[c] = "flag" /\ cjob[c] = j)

(***************************************************************************)
(* A job still shown as pending, and who will change that.                 *)
(***************************************************************************)
Heeded ==
    /\ \A j \in Jobs : status[j] = "unborn" => ~cancelled[j] /\ j \notin todo
    /\ \A c \in Callers : cpc[c] \in {"flag", "mark"} => status[cjob[c]] # "unborn"
    /\ \A j \in Jobs : status[j] = "pending" /\ ~cancelled[j] => Around(j) \/ closed
    /\ \A j \in Jobs : status[j] = "pending" /\ cancelled[j] =>
           \E c \in Callers : cpc[c] = "mark" /\ cjob[c] = j

\* No job is shown as pending for good because it was forgotten: it is on its way
\* to a worker or with one, a canceller is about to mark it, or the pool is closed.
PendingIsHandled ==
    \A j \in Jobs : status[j] = "pending" =>
        Around(j) \/ closed \/ \E c \in Callers : cpc[c] = "mark" /\ cjob[c] = j

----------------------------------------------------------------------------
\* A submit that enqueues has a job: this makes the type of queue inductive.
Typed == TypeOK /\ \A c \in Callers : cpc[c] = "enqueue" => cjob[c] \in Jobs

\* The types are kept by every step, with that addition.
LEMMA TypedInvariant == Spec => []Typed
<1>1. Init => Typed
  <2> SUFFICES ASSUME Init PROVE Typed
    OBVIOUS
  <2> QED BY DEF Init, Typed, TypeOK, Unfinished, Terminal
<1>2. Typed /\ [Next]_vars => Typed'
  <2> SUFFICES ASSUME Typed, [Next]_vars PROVE Typed'
    OBVIOUS
  <2> USE DEF Typed, TypeOK, Unfinished, Terminal, Goto, Return, Reaped, job, os, pool, worker, caller
  <2>1. ASSUME NEW w \in Workers, WorkerStep(w) PROVE Typed'
    <3>1. CASE Take(w) BY <3>1 DEF Take
    <3>2. CASE CheckCancelled(w) BY <3>2 DEF CheckCancelled
    <3>3. CASE Spawn(w) BY <3>3 DEF Spawn
    <3>4. CASE StoreHandle(w) BY <3>4 DEF StoreHandle
    <3>5. CASE AnnounceRunning(w) BY <3>5 DEF AnnounceRunning
    <3>6. CASE Collect(w) BY <3>6 DEF Collect
    <3>7. CASE PollTimeout(w) BY <3>7 DEF PollTimeout
    <3>8. CASE Poll(w) BY <3>8 DEF Poll
    <3>9. CASE ReapCancelled(w) BY <3>9 DEF ReapCancelled
    <3>10. CASE ReapExpired(w) BY <3>10 DEF ReapExpired
    <3>11. CASE FailExpired(w) BY <3>11 DEF FailExpired
    <3>12. CASE Settle(w) BY <3>12 DEF Settle
    <3>13. CASE Commit(w)
      <4>1. PICK s \in {"completed", "failed"} : status' = [status EXCEPT ![wjob[w]] = s]
        BY <3>13 DEF Commit
      <4> QED BY <3>13, <4>1 DEF Commit
    <3> QED BY <2>1, <3>1, <3>2, <3>3, <3>4, <3>5, <3>6, <3>7, <3>8, <3>9, <3>10, <3>11,
               <3>12, <3>13 DEF WorkerStep
  <2>2. ASSUME NEW c \in Callers, CallerStart(c) \/ CallerStep(c) PROVE Typed'
    <3>1. CASE \E j \in Jobs : Register(c, j) BY <3>1 DEF Register
    <3>2. CASE \E j \in Jobs : Cancel(c, j) BY <3>2 DEF Cancel
    <3>3. CASE Shutdown(c) BY <3>3 DEF Shutdown
    <3>4. CASE Enqueue(c) BY <3>4 DEF Enqueue
    <3>5. CASE SweepNext(c) BY <3>5 DEF SweepNext
    <3>6. CASE SetFlag(c) BY <3>6 DEF SetFlag
    <3>7. CASE MarkCancelled(c) BY <3>7 DEF MarkCancelled
    <3>8. CASE KillChild(c) BY <3>8 DEF KillChild
    <3>9. CASE ClosePool(c) BY <3>9 DEF ClosePool
    <3> QED BY <2>2, <3>1, <3>2, <3>3, <3>4, <3>5, <3>6, <3>7, <3>8, <3>9
            DEF CallerStart, CallerStep
  <2>3. ASSUME NEW j \in Jobs, ChildExits(j) \/ DeadlinePasses(j) PROVE Typed'
    BY <2>3 DEF ChildExits, DeadlinePasses
  <2>4. CASE UNCHANGED vars BY <2>4 DEF vars
  <2> QED BY <2>1, <2>2, <2>3, <2>4 DEF Next
<1> QED BY <1>1, <1>2, PTL DEF Spec

\* Every variable keeps its type.
THEOREM TypeCorrect == Spec => []TypeOK
<1>1. Typed => TypeOK
  BY DEF Typed
<1> QED BY <1>1, TypedInvariant, PTL

----------------------------------------------------------------------------
\* A job is in one place at a time: the pool never holds it twice and no two
\* workers run it.
LEMMA PlacedInvariant == Spec => []Placed
<1>1. Init => Placed
  BY NoneAssumption DEF Init, Placed, Around, Enqueued, Attended
<1>2. Typed /\ Typed' /\ Placed /\ [Next]_vars => Placed'
  <2> SUFFICES ASSUME Typed, Typed', Placed, [Next]_vars PROVE Placed'
    OBVIOUS
  <2> USE NoneAssumption DEF Placed, Around, Enqueued, Attended, Typed, TypeOK, Unfinished,
          Terminal, Goto, Return, job, os, pool, worker, caller
  <2>1. ASSUME NEW w \in Workers, WorkerStep(w) PROVE Placed'
    <3>1. CASE Take(w) BY <3>1 DEF Take
    <3>2. CASE CheckCancelled(w) BY <3>2 DEF CheckCancelled
    <3>3. CASE Spawn(w) BY <3>3 DEF Spawn
    <3>4. CASE StoreHandle(w) BY <3>4 DEF StoreHandle
    <3>5. CASE AnnounceRunning(w) BY <3>5 DEF AnnounceRunning
    <3>6. CASE Collect(w) BY <3>6 DEF Collect
    <3>7. CASE PollTimeout(w) BY <3>7 DEF PollTimeout
    <3>8. CASE Poll(w) BY <3>8 DEF Poll
    <3>9. CASE ReapCancelled(w) BY <3>9 DEF ReapCancelled
    <3>10. CASE ReapExpired(w) BY <3>10 DEF ReapExpired
    <3>11. CASE FailExpired(w) BY <3>11 DEF FailExpired
    <3>12. CASE Settle(w) BY <3>12 DEF Settle
    <3>13. CASE Commit(w) BY <3>13 DEF Commit
    <3> QED BY <2>1, <3>1, <3>2, <3>3, <3>4, <3>5, <3>6, <3>7, <3>8, <3>9, <3>10, <3>11,
               <3>12, <3>13 DEF WorkerStep
  <2>2. ASSUME NEW c \in Callers, CallerStart(c) \/ CallerStep(c) PROVE Placed'
    <3>1. CASE \E j \in Jobs : Register(c, j) BY <3>1 DEF Register
    <3>2. CASE \E j \in Jobs : Cancel(c, j) BY <3>2 DEF Cancel
    <3>3. CASE Shutdown(c) BY <3>3 DEF Shutdown
    <3>4. CASE Enqueue(c) BY <3>4 DEF Enqueue
    <3>5. CASE SweepNext(c) BY <3>5 DEF SweepNext
    <3>6. CASE SetFlag(c) BY <3>6 DEF SetFlag
    <3>7. CASE MarkCancelled(c) BY <3>7 DEF MarkCancelled
    <3>8. CASE KillChild(c) BY <3>8 DEF KillChild
    <3>9. CASE ClosePool(c) BY <3>9 DEF ClosePool
    <3> QED BY <2>2, <3>1, <3>2, <3>3, <3>4, <3>5, <3>6, <3>7, <3>8, <3>9
            DEF CallerStart, CallerStep
  <2>3. ASSUME NEW j \in Jobs, ChildExits(j) \/ DeadlinePasses(j) PROVE Placed'
    BY <2>3 DEF ChildExits, DeadlinePasses
  <2>4. CASE UNCHANGED vars BY <2>4 DEF vars
  <2> QED BY <2>1, <2>2, <2>3, <2>4 DEF Next
<1> QED BY <1>1, <1>2, TypedInvariant, PTL DEF Spec

\* The command of a job follows the position of its worker.
LEMMA ProcessedInvariant == Spec => []Processed
<1>1. Init => Processed
  BY NoneAssumption DEF Init, Processed, Enqueued, NoStrayChild, KillableWhenRunning
<1>2. Typed /\ Typed' /\ Placed /\ Placed' /\ Processed /\ [Next]_vars => Processed'
  <2> SUFFICES ASSUME Typed, Typed', Placed, Placed', Processed, [Next]_vars PROVE Processed'
    OBVIOUS
  <2> USE NoneAssumption DEF Processed, NoStrayChild, KillableWhenRunning, Placed, Around, Enqueued, Attended, Typed,
          TypeOK, Unfinished, Terminal, Goto, Return, Reaped, job, os, pool, worker, caller
  <2>1. ASSUME NEW w \in Workers, WorkerStep(w) PROVE Processed'
    <3>1. CASE Take(w) BY <3>1 DEF Take
    <3>2. CASE CheckCancelled(w) BY <3>2 DEF CheckCancelled
    <3>3. CASE Spawn(w) BY <3>3 DEF Spawn
    <3>4. CASE StoreHandle(w) BY <3>4 DEF StoreHandle
    <3>5. CASE AnnounceRunning(w) BY <3>5 DEF AnnounceRunning
    <3>6. CASE Collect(w) BY <3>6 DEF Collect
    <3>7. CASE PollTimeout(w) BY <3>7 DEF PollTimeout
    <3>8. CASE Poll(w) BY <3>8 DEF Poll
    <3>9. CASE ReapCancelled(w) BY <3>9 DEF ReapCancelled
    <3>10. CASE ReapExpired(w) BY <3>10 DEF ReapExpired
    <3>11. CASE FailExpired(w) BY <3>11 DEF FailExpired
    <3>12. CASE Settle(w) BY <3>12 DEF Settle
    <3>13. CASE Commit(w) BY <3>13 DEF Commit
    <3> QED BY <2>1, <3>1, <3>2, <3>3, <3>4, <3>5, <3>6, <3>7, <3>8, <3>9, <3>10, <3>11,
               <3>12, <3>13 DEF WorkerStep
  <2>2. ASSUME NEW c \in Callers, CallerStart(c) \/ CallerStep(c) PROVE Processed'
    <3>1. CASE \E j \in Jobs : Register(c, j) BY <3>1 DEF Register
    <3>2. CASE \E j \in Jobs : Cancel(c, j) BY <3>2 DEF Cancel
    <3>3. CASE Shutdown(c) BY <3>3 DEF Shutdown
    <3>4. CASE Enqueue(c) BY <3>4 DEF Enqueue
    <3>5. CASE SweepNext(c) BY <3>5 DEF SweepNext
    <3>6. CASE SetFlag(c) BY <3>6 DEF SetFlag
    <3>7. CASE MarkCancelled(c) BY <3>7 DEF MarkCancelled
    <3>8. CASE KillChild(c) BY <3>8 DEF KillChild
    <3>9. CASE ClosePool(c) BY <3>9 DEF ClosePool
    <3> QED BY <2>2, <3>1, <3>2, <3>3, <3>4, <3>5, <3>6, <3>7, <3>8, <3>9
            DEF CallerStart, CallerStep
  <2>3. ASSUME NEW j \in Jobs, ChildExits(j) \/ DeadlinePasses(j) PROVE Processed'
    BY <2>3 DEF ChildExits, DeadlinePasses
  <2>4. CASE UNCHANGED vars BY <2>4 DEF vars
  <2> QED BY <2>1, <2>2, <2>3, <2>4 DEF Next
<1> QED BY <1>1, <1>2, TypedInvariant, PlacedInvariant, PTL DEF Spec

\* Without a cancel every path out of _run settles the status.
LEMMA SettledInvariant == Spec => []Settled
<1>1. Init => Settled
  BY NoneAssumption DEF Init, Settled, RunningIsAttended, Around, Enqueued, Attended
<1>2. Typed /\ Typed' /\ Placed /\ Placed' /\ Settled /\ [Next]_vars => Settled'
  <2> SUFFICES ASSUME Typed, Typed', Placed, Placed', Settled, [Next]_vars PROVE Settled'
    OBVIOUS
  <2> USE NoneAssumption DEF Settled, RunningIsAttended, Placed, Around, Enqueued, Attended, Typed, TypeOK,
          Unfinished, Terminal, Goto, Return, Reaped, job, os, pool, worker, caller
  <2>1. ASSUME NEW w \in Workers, WorkerStep(w) PROVE Settled'
    <3>1. CASE Take(w) BY <3>1 DEF Take
    <3>2. CASE CheckCancelled(w) BY <3>2 DEF CheckCancelled
    <3>3. CASE Spawn(w) BY <3>3 DEF Spawn
    <3>4. CASE StoreHandle(w) BY <3>4 DEF StoreHandle
    <3>5. CASE AnnounceRunning(w) BY <3>5 DEF AnnounceRunning
    <3>6. CASE Collect(w) BY <3>6 DEF Collect
    <3>7. CASE PollTimeout(w) BY <3>7 DEF PollTimeout
    <3>8. CASE Poll(w) BY <3>8 DEF Poll
    <3>9. CASE ReapCancelled(w) BY <3>9 DEF ReapCancelled
    <3>10. CASE ReapExpired(w) BY <3>10 DEF ReapExpired
    <3>11. CASE FailExpired(w) BY <3>11 DEF FailExpired
    <3>12. CASE Settle(w) BY <3>12 DEF Settle
    <3>13. CASE Commit(w) BY <3>13 DEF Commit
    <3> QED BY <2>1, <3>1, <3>2, <3>3, <3>4, <3>5, <3>6, <3>7, <3>8, <3>9, <3>10, <3>11,
               <3>12, <3>13 DEF WorkerStep
  <2>2. ASSUME NEW c \in Callers, CallerStart(c) \/ CallerStep(c) PROVE Settled'
    <3>1. CASE \E j \in Jobs : Register(c, j) BY <3>1 DEF Register
    <3>2. CASE \E j \in Jobs : Cancel(c, j) BY <3>2 DEF Cancel
    <3>3. CASE Shutdown(c) BY <3>3 DEF Shutdown
    <3>4. CASE Enqueue(c) BY <3>4 DEF Enqueue
    <3>5. CASE SweepNext(c) BY <3>5 DEF SweepNext
    <3>6. CASE SetFlag(c) BY <3>6 DEF SetFlag
    <3>7. CASE MarkCancelled(c) BY <3>7 DEF MarkCancelled
    <3>8. CASE KillChild(c) BY <3>8 DEF KillChild
    <3>9. CASE ClosePool(c) BY <3>9 DEF ClosePool
    <3> QED BY <2>2, <3>1, <3>2, <3>3, <3>4, <3>5, <3>6, <3>7, <3>8, <3>9
            DEF CallerStart, CallerStep
  <2>3. ASSUME NEW j \in Jobs, ChildExits(j) \/ DeadlinePasses(j) PROVE Settled'
    BY <2>3 DEF ChildExits, DeadlinePasses
  <2>4. CASE UNCHANGED vars BY <2>4 DEF vars
  <2> QED BY <2>1, <2>2, <2>3, <2>4 DEF Next
<1> QED BY <1>1, <1>2, TypedInvariant, PlacedInvariant, PTL DEF Spec

\* The sweep of shutdown loses no job.
LEMMA SweptInvariant == Spec => []Swept
<1>1. Init => Swept
  BY NoneAssumption DEF Init, Swept
<1>2. Typed /\ Typed' /\ Placed /\ Placed' /\ Settled /\ Settled' /\ Swept /\ [Next]_vars => Swept'
  <2> SUFFICES ASSUME Typed, Typed', Placed, Placed', Settled, Settled', Swept, [Next]_vars PROVE Swept'
    OBVIOUS
  <2> USE NoneAssumption DEF Swept, Settled, RunningIsAttended, Placed, Around, Enqueued, Attended, Typed, TypeOK,
          Unfinished, Terminal, Goto, Return, Reaped, job, os, pool, worker, caller
  <2>1. ASSUME NEW w \in Workers, WorkerStep(w) PROVE Swept'
    <3>1. CASE Take(w) BY <3>1 DEF Take
    <3>2. CASE CheckCancelled(w) BY <3>2 DEF CheckCancelled
    <3>3. CASE Spawn(w) BY <3>3 DEF Spawn
    <3>4. CASE StoreHandle(w) BY <3>4 DEF StoreHandle
    <3>5. CASE AnnounceRunning(w) BY <3>5 DEF AnnounceRunning
    <3>6. CASE Collect(w) BY <3>6 DEF Collect
    <3>7. CASE PollTimeout(w) BY <3>7 DEF PollTimeout
    <3>8. CASE Poll(w) BY <3>8 DEF Poll
    <3>9. CASE ReapCancelled(w) BY <3>9 DEF ReapCancelled
    <3>10. CASE ReapExpired(w) BY <3>10 DEF ReapExpired
    <3>11. CASE FailExpired(w) BY <3>11 DEF FailExpired
    <3>12. CASE Settle(w) BY <3>12 DEF Settle
    <3>13. CASE Commit(w) BY <3>13 DEF Commit
    <3> QED BY <2>1, <3>1, <3>2, <3>3, <3>4, <3>5, <3>6, <3>7, <3>8, <3>9, <3>10, <3>11,
               <3>12, <3>13 DEF WorkerStep
  <2>2. ASSUME NEW c \in Callers, CallerStart(c) \/ CallerStep(c) PROVE Swept'
    <3>1. CASE \E j \in Jobs : Register(c, j) BY <3>1 DEF Register
    <3>2. CASE \E j \in Jobs : Cancel(c, j) BY <3>2 DEF Cancel
    <3>3. CASE Shutdown(c) BY <3>3 DEF Shutdown
    <3>4. CASE Enqueue(c) BY <3>4 DEF Enqueue
    <3>5. CASE SweepNext(c) BY <3>5 DEF SweepNext
    <3>6. CASE SetFlag(c) BY <3>6 DEF SetFlag
    <3>7. CASE MarkCancelled(c) BY <3>7 DEF MarkCancelled
    <3>8. CASE KillChild(c) BY <3>8 DEF KillChild
    <3>9. CASE ClosePool(c) BY <3>9 DEF ClosePool
    <3> QED BY <2>2, <3>1, <3>2, <3>3, <3>4, <3>5, <3>6, <3>7, <3>8, <3>9
            DEF CallerStart, CallerStep
  <2>3. ASSUME NEW j \in Jobs, ChildExits(j) \/ DeadlinePasses(j) PROVE Swept'
    BY <2>3 DEF ChildExits, DeadlinePasses
  <2>4. CASE UNCHANGED vars BY <2>4 DEF vars
  <2> QED BY <2>1, <2>2, <2>3, <2>4 DEF Next
<1> QED BY <1>1, <1>2, TypedInvariant, PlacedInvariant, SettledInvariant, PTL DEF Spec

\* No pending job is forgotten.
LEMMA HeededInvariant == Spec => []Heeded
<1>1. Init => Heeded
  BY NoneAssumption DEF Init, Heeded
<1>2. Typed /\ Typed' /\ Placed /\ Placed' /\ Settled /\ Heeded /\ [Next]_vars => Heeded'
  <2> SUFFICES ASSUME Typed, Typed', Placed, Placed', Settled, Heeded, [Next]_vars PROVE Heeded'
    OBVIOUS
  <2> USE NoneAssumption DEF Heeded, Settled, Placed, Around, Enqueued, Attended, Typed, TypeOK,
          Unfinished, Terminal, Goto, Return, Reaped, job, os, pool, worker, caller
  <2>1. ASSUME NEW w \in Workers, WorkerStep(w) PROVE Heeded'
    <3>1. CASE Take(w) BY <3>1 DEF Take
    <3>2. CASE CheckCancelled(w) BY <3>2 DEF CheckCancelled
    <3>3. CASE Spawn(w) BY <3>3 DEF Spawn
    <3>4. CASE StoreHandle(w) BY <3>4 DEF StoreHandle
    <3>5. CASE AnnounceRunning(w) BY <3>5 DEF AnnounceRunning
    <3>6. CASE Collect(w) BY <3>6 DEF Collect
    <3>7. CASE PollTimeout(w) BY <3>7 DEF PollTimeout
    <3>8. CASE Poll(w) BY <3>8 DEF Poll
    <3>9. CASE ReapCancelled(w) BY <3>9 DEF ReapCancelled
    <3>10. CASE ReapExpired(w) BY <3>10 DEF ReapExpired
    <3>11. CASE FailExpired(w) BY <3>11 DEF FailExpired
    <3>12. CASE Settle(w) BY <3>12 DEF Settle
    <3>13. CASE Commit(w) BY <3>13 DEF Commit
    <3> QED BY <2>1, <3>1, <3>2, <3>3, <3>4, <3>5, <3>6, <3>7, <3>8, <3>9, <3>10, <3>11,
               <3>12, <3>13 DEF WorkerStep
  <2>2. ASSUME NEW c \in Callers, CallerStart(c) \/ CallerStep(c) PROVE Heeded'
    <3>1. CASE \E j \in Jobs : Register(c, j) BY <3>1 DEF Register
    <3>2. CASE \E j \in Jobs : Cancel(c, j) BY <3>2 DEF Cancel
    <3>3. CASE Shutdown(c) BY <3>3 DEF Shutdown
    <3>4. CASE Enqueue(c) BY <3>4 DEF Enqueue
    <3>5. CASE SweepNext(c) BY <3>5 DEF SweepNext
    <3>6. CASE SetFlag(c) BY <3>6 DEF SetFlag
    <3>7. CASE MarkCancelled(c) BY <3>7 DEF MarkCancelled
    <3>8. CASE KillChild(c) BY <3>8 DEF KillChild
    <3>9. CASE ClosePool(c) BY <3>9 DEF ClosePool
    <3> QED BY <2>2, <3>1, <3>2, <3>3, <3>4, <3>5, <3>6, <3>7, <3>8, <3>9
            DEF CallerStart, CallerStep
  <2>3. ASSUME NEW j \in Jobs, ChildExits(j) \/ DeadlinePasses(j) PROVE Heeded'
    BY <2>3 DEF ChildExits, DeadlinePasses
  <2>4. CASE UNCHANGED vars BY <2>4 DEF vars
  <2> QED BY <2>1, <2>2, <2>3, <2>4 DEF Next
<1> QED BY <1>1, <1>2, TypedInvariant, PlacedInvariant, SettledInvariant, PTL DEF Spec

----------------------------------------------------------------------------
\* The handle of a job shown as running is there to be killed.
THEOREM RunningHasHandle == Spec => []KillableWhenRunning
<1>1. Processed => KillableWhenRunning
  BY DEF Processed
<1> QED BY <1>1, ProcessedInvariant, PTL

\* No path out of _run leaves its command alive.
THEOREM NoWorkerLeavesAStray == Spec => []NoStrayChild
<1>1. Processed => NoStrayChild
  BY DEF Processed
<1> QED BY <1>1, ProcessedInvariant, PTL

\* A job shown as running without a worker was cancelled.
THEOREM OnlyCancelLeavesRunning == Spec => []RunningIsAttended
<1>1. Settled => RunningIsAttended
  BY DEF Settled
<1> QED BY <1>1, SettledInvariant, PTL

\* Once the pool is closed, each job a worker still runs was flagged, or was
\* submitted after the sweep had begun.
THEOREM ShutdownIsComplete == Spec => []ShutdownReachesAll
<1>1. Typed /\ Swept => ShutdownReachesAll
  <2> SUFFICES ASSUME Typed, Swept, closed, NEW w \in Workers, wjob[w] \notin missed \cup {None}
               PROVE  cancelled[wjob[w]]
    BY DEF ShutdownReachesAll
  <2>1. PICK c \in Callers : cpc[c] = "gone"
    BY DEF Swept
  <2>2. mode[c] = "shutdown" /\ todo = {}
    BY <2>1 DEF Swept
  <2>3. wjob[w] \in Jobs /\ Around(wjob[w])
    BY DEF Typed, TypeOK, Around, Attended
  <2> QED BY <2>1, <2>2, <2>3 DEF Swept
<1> QED BY <1>1, TypedInvariant, SweptInvariant, PTL

\* A pending job always has somebody who will move it on (what PendingServed
\* needs beside the fairness of the threads).
THEOREM PendingIsNotForgotten == Spec => []PendingIsHandled
<1>1. Heeded => PendingIsHandled
  BY DEF Heeded, PendingIsHandled
<1> QED BY <1>1, HeededInvariant, PTL

----------------------------------------------------------------------------
\* The manager implements JobService

\* While a worker is about to start a command, the other workers attend all
\* that run: there is a slot left.
LEMMA SlotFree ==
    ASSUME Typed, Placed, Processed, NEW w \in Workers, wpc[w] = "spawn"
    PROVE  Cardinality(Running) < Cardinality(Workers)
<1> DEFINE V == {v \in Workers : wjob[v] \in Running}
           f == [v \in V |-> wjob[v]]
<1>1. w \notin V
  BY DEF Processed, Running
<1>2. V \in SUBSET (Workers \ {w})
  BY <1>1
<1>3. IsFiniteSet(Workers \ {w}) /\ Cardinality(Workers \ {w}) = Cardinality(Workers) - 1
  BY WorkersAssumption, FS_RemoveElement
<1>4. IsFiniteSet(V) /\ Cardinality(V) <= Cardinality(Workers \ {w})
  BY <1>2, <1>3, FS_Subset
<1>5. f \in Surjection(V, Running)
  <2>1. f \in [V -> Running]
    OBVIOUS
  <2>2. \A j \in Running : \E v \in V : f[v] = j
    BY DEF Running, Processed, NoStrayChild, Attended
  <2> QED BY <2>1, <2>2 DEF Surjection
<1>6. IsFiniteSet(Running) /\ Cardinality(Running) <= Cardinality(V)
  BY <1>4, <1>5, FS_Surjection
<1>7. Cardinality(Running) \in Nat /\ Cardinality(V) \in Nat /\ Cardinality(Workers) \in Nat
  BY <1>4, <1>6, WorkersAssumption, FS_CardinalityType
<1> QED BY <1>3, <1>4, <1>6, <1>7

\* What a step that starts and ends no command does to the service: it may
\* dismiss jobs, and takes back no dismissal.
LEMMA Dismisses ==
    ASSUME child' = child, Dropped \subseteq Dropped'
    PROVE  Service!Next \/ UNCHANGED Service!serviceVars
<1> DEFINE S == Dropped' \ Dropped
<1>1. Running' = Running /\ Ended' = Ended
  BY DEF Running, Ended
<1>2. S \in SUBSET Jobs /\ S \cap (Running \cup Ended) = {}
  BY DEF Dropped, Running, Ended
<1>3. Dropped' = Dropped \cup S
  OBVIOUS
<1>4. Service!Dismiss(S)
  BY <1>1, <1>2, <1>3 DEF Service!Dismiss
<1> QED BY <1>2, <1>4 DEF Service!Next

\* A command that is ended by a kill or by itself.
LEMMA Finishes ==
    ASSUME NEW j \in Jobs, child \in [Jobs -> {"none", "alive", "dead"}], child[j] # "none",
           Reaped(j), Dropped' = Dropped
    PROVE  Service!Next \/ UNCHANGED Service!serviceVars
<1>1. CASE child[j] = "alive"
  <2>1. Running' = Running \ {j} /\ Ended' = Ended \cup {j} /\ j \in Running
    BY <1>1 DEF Running, Ended, Reaped
  <2>2. Service!Finish(j)
    BY <2>1 DEF Service!Finish
  <2> QED BY <2>2 DEF Service!Next
<1>2. CASE child[j] = "dead"
  <2>1. child' = child
    BY <1>2 DEF Reaped
  <2>2. Running' = Running /\ Ended' = Ended
    BY <2>1 DEF Running, Ended
  <2> QED BY <2>2 DEF Service!serviceVars
<1> QED BY <1>1, <1>2

\* Every step of a thread or a command is a step of the service or none: only
\* Spawn starts, only a kill or the command itself ends, the rest dismisses.
THEOREM ImplementsJobService == Spec => KeepsService
<1>1. Init => Service!Init
  BY DEF Init, Service!Init, Running, Ended, Dropped
<1>2. Typed /\ Typed' /\ Placed /\ Processed /\ [Next]_vars
          => [Service!Next]_Service!serviceVars
  <2> SUFFICES ASSUME Typed, Typed', Placed, Processed, [Next]_vars
               PROVE  Service!Next \/ UNCHANGED Service!serviceVars
    OBVIOUS
  <2> USE NoneAssumption DEF Typed, TypeOK, Goto, Return, job, os, pool, worker, caller
  <2>1. ASSUME NEW w \in Workers, Spawn(w), child' = [child EXCEPT ![wjob[w]] = "alive"],
               wpc' = [wpc EXCEPT ![w] = "store"]
        PROVE  Service!Next
    <3>1. wpc[w] = "spawn" /\ wjob[w] \in Jobs /\ child[wjob[w]] = "none"
      BY <2>1 DEF Spawn, Placed, Processed
    <3>2. wjob[w] \in Starting
      BY <3>1 DEF Starting
    <3>3. Running' = Running \cup {wjob[w]} /\ Ended' = Ended
      BY <2>1, <3>1 DEF Running, Ended
    <3>4. Dropped' = Dropped
      BY <2>1, <3>1, <3>2 DEF Spawn, Dropped, Starting, Around, Enqueued, Attended, Placed
    <3>5. wjob[w] \notin Running \cup Ended \cup Dropped
      BY <3>1, <3>2 DEF Running, Ended, Dropped
    <3>6. Cardinality(Running) < Cardinality(Workers)
      BY <3>1, SlotFree
    <3>7. Service!Start(wjob[w])
      BY <3>3, <3>4, <3>5, <3>6 DEF Service!Start, Service!Cardinality, Cardinality
    <3> QED BY <3>1, <3>7 DEF Service!Next
  <2>2. ASSUME NEW w \in Workers, Spawn(w), child' = child, wpc' = [wpc EXCEPT ![w] = "settle"]
        PROVE  Service!Next \/ UNCHANGED Service!serviceVars
    <3>1. Dropped \subseteq Dropped'
      BY <2>2 DEF Spawn, Dropped, Starting, Around, Enqueued, Attended
    <3> QED BY <2>2, <3>1, Dismisses
  <2>3. ASSUME NEW w \in Workers, ReapCancelled(w) \/ ReapExpired(w)
        PROVE  Service!Next \/ UNCHANGED Service!serviceVars
    <3>1. Reaped(wjob[w]) /\ wjob[w] \in Jobs /\ child[wjob[w]] # "none"
      BY <2>3 DEF ReapCancelled, ReapExpired, Placed, Processed
    <3>2. Dropped' = Dropped
      BY <2>3, <3>1 DEF ReapCancelled, ReapExpired, Reaped, Dropped, Starting, Around, Enqueued,
                        Attended, Placed
    <3> QED BY <3>1, <3>2, Finishes
  <2>4. ASSUME NEW c \in Callers, KillChild(c)
        PROVE  Service!Next \/ UNCHANGED Service!serviceVars
    <3>1. cjob[c] \in Jobs
      BY <2>4 DEF KillChild, Placed
    <3>2. CASE proc[cjob[c]]
      <4>1. Reaped(cjob[c]) /\ child[cjob[c]] # "none"
        BY <2>4, <3>1, <3>2 DEF KillChild, Processed
      <4>2. Dropped' = Dropped
        BY <2>4, <3>1, <4>1 DEF KillChild, Reaped, Dropped, Starting, Around, Enqueued, Attended
      <4> QED BY <3>1, <4>1, <4>2, Finishes
    <3>3. CASE ~proc[cjob[c]]
      <4>1. child' = child /\ Dropped \subseteq Dropped'
        BY <2>4, <3>3 DEF KillChild, Dropped, Starting, Around, Enqueued, Attended
      <4> QED BY <4>1, Dismisses
    <3> QED BY <3>2, <3>3
  <2>5. ASSUME NEW j \in Jobs, ChildExits(j)
        PROVE  Service!Next \/ UNCHANGED Service!serviceVars
    <3>1. Reaped(j) /\ child[j] # "none"
      BY <2>5 DEF ChildExits, Reaped
    <3>2. Dropped' = Dropped
      BY <2>5, <3>1 DEF ChildExits, Reaped, Dropped, Starting, Around, Enqueued, Attended
    <3> QED BY <3>1, <3>2, Finishes
  <2>6. ASSUME NEW w \in Workers,
               \/ Take(w) \/ CheckCancelled(w) \/ StoreHandle(w) \/ AnnounceRunning(w)
               \/ Collect(w) \/ PollTimeout(w) \/ Poll(w) \/ FailExpired(w) \/ Settle(w)
               \/ Commit(w)
        PROVE  child' = child /\ Dropped \subseteq Dropped'
    <3> USE DEF Dropped, Starting, Around, Enqueued, Attended, Placed, Unfinished, Terminal
    <3>1. CASE Take(w) BY <3>1 DEF Take
    <3>2. CASE CheckCancelled(w) BY <3>2 DEF CheckCancelled
    <3>3. CASE StoreHandle(w) BY <3>3 DEF StoreHandle
    <3>4. CASE AnnounceRunning(w) BY <3>4 DEF AnnounceRunning
    <3>5. CASE Collect(w) BY <3>5 DEF Collect
    <3>6. CASE PollTimeout(w) BY <3>6 DEF PollTimeout
    <3>7. CASE Poll(w) BY <3>7 DEF Poll
    <3>8. CASE FailExpired(w) BY <3>8 DEF FailExpired
    <3>9. CASE Settle(w) BY <3>9 DEF Settle
    <3>10. CASE Commit(w)
      <4>1. PICK s \in {"completed", "failed"} : status' = [status EXCEPT ![wjob[w]] = s]
        BY <3>10 DEF Commit
      <4> QED BY <3>10, <4>1 DEF Commit
    <3> QED BY <2>6, <3>1, <3>2, <3>3, <3>4, <3>5, <3>6, <3>7, <3>8, <3>9, <3>10
  <2>7. ASSUME NEW c \in Callers,
               \/ \E j \in Jobs : Register(c, j) \/ Cancel(c, j)
               \/ Shutdown(c) \/ Enqueue(c) \/ SweepNext(c) \/ SetFlag(c) \/ MarkCancelled(c)
               \/ ClosePool(c)
        PROVE  child' = child /\ Dropped \subseteq Dropped'
    <3> USE DEF Dropped, Starting, Around, Enqueued, Attended, Placed
    <3>1. CASE \E j \in Jobs : Register(c, j) BY <3>1 DEF Register
    <3>2. CASE \E j \in Jobs : Cancel(c, j) BY <3>2 DEF Cancel
    <3>3. CASE Shutdown(c) BY <3>3 DEF Shutdown
    <3>4. CASE Enqueue(c) BY <3>4 DEF Enqueue
    <3>5. CASE SweepNext(c) BY <3>5 DEF SweepNext
    <3>6. CASE SetFlag(c) BY <3>6 DEF SetFlag
    <3>7. CASE MarkCancelled(c) BY <3>7 DEF MarkCancelled
    <3>8. CASE ClosePool(c) BY <3>8 DEF ClosePool
    <3> QED BY <2>7, <3>1, <3>2, <3>3, <3>4, <3>5, <3>6, <3>7, <3>8
  <2>8. ASSUME \/ \E j \in Jobs : DeadlinePasses(j)
               \/ UNCHANGED vars
        PROVE  child' = child /\ Dropped \subseteq Dropped'
    BY <2>8 DEF DeadlinePasses, vars, Dropped, Starting, Around, Enqueued, Attended
  <2>9. ASSUME NEW w \in Workers, Spawn(w)
        PROVE  Service!Next \/ UNCHANGED Service!serviceVars
    BY <2>1, <2>2, <2>9 DEF Spawn
  <2>10. CASE \E w \in Workers : WorkerStep(w)
    BY <2>3, <2>6, <2>9, <2>10, Dismisses DEF WorkerStep
  <2>11. CASE \E c \in Callers : CallerStart(c) \/ CallerStep(c)
    BY <2>4, <2>7, <2>11, Dismisses DEF CallerStart, CallerStep
  <2>12. CASE \E j \in Jobs : ChildExits(j) \/ DeadlinePasses(j)
    BY <2>5, <2>8, <2>12, Dismisses
  <2>13. CASE UNCHANGED vars
    BY <2>8, <2>13, Dismisses
  <2> QED BY <2>10, <2>11, <2>12, <2>13 DEF Next
<1> QED BY <1>1, <1>2, TypedInvariant, PlacedInvariant, ProcessedInvariant, PTL
        DEF Spec, KeepsService, Service!Spec
=============================================================================
