------------------------ MODULE SessionArchive_Proofs ------------------------
(***************************************************************************)
(* The archive, for any number of processes, directories, sessions and     *)
(* saves.  What a baseline promises is said once per process (Informed):   *)
(* either its file was never written and is nobody else's, or every        *)
(* version of the file that is not in its memory is newer than its         *)
(* baseline.  The lock is needed only from the comparison to the write.    *)
(* Files gone astray are out of it: who loaded them may know less than the *)
(* baseline says.                                                          *)
(***************************************************************************)
EXTENDS SessionArchive, TLAPS

Resting == {"idle", "lock", "compare", "fork", "copy", "save", "unlock"}

\* p is saving under another id than its session's
Forking(p) == pc[p] \in {"copy", "save"} /\ dest[p] # sid[p]
Target(p)  == <<home[p], dest[p]>>

\* a process that runs has a session, and ids are handed out once
Placed ==
    /\ \A p \in Procs : pc[p] # "off" => sid[p] \in Ids /\ sid[p] <= ids
    /\ \A p \in Procs : pc[p] \in {"lock", "compare", "fork", "copy", "save"} =>
                            dest[p] \in Ids /\ dest[p] <= ids
    /\ \A p \in Procs : pc[p] \in {"lock", "compare", "fork"} => dest[p] = sid[p]
    /\ \A d \in Dirs \cup {Store}, i \in Ids : i > ids => archive[<<d, i>>] = None

\* nothing is dated in the future
Dates ==
    /\ \A f \in Copies : archive[f] # None => archive[f].mtime <= clock
    /\ \A p \in Procs : base[p] # None => base[p] <= clock

Typed == TypeOK /\ Placed /\ Dates

\* A process that runs has its file in a project directory.
LEMMA HereType ==
  ASSUME Typed, NEW p \in Procs, pc[p] # "off"
  PROVE  Here(p) \in Files /\ Here(p) \in Copies /\ \A i : Here(p) # <<Store, i>>
  BY BoundsAssumption DEF Typed, TypeOK, Placed, Here, Files, Copies

\* So has the file it saves, and so has the copy.
LEMMA TargetType ==
  ASSUME Typed, NEW p \in Procs, pc[p] \in {"copy", "save"}
  PROVE  /\ Target(p) \in Files /\ Target(p) \in Copies /\ <<Store, dest[p]>> \in Copies
         /\ dest[p] = sid[p] => Target(p) = Here(p)
  BY BoundsAssumption DEF Typed, TypeOK, Placed, Target, Here, Files, Copies

LEMMA InitTyped == Init => Typed
  <1> SUFFICES ASSUME Init PROVE Typed
    OBVIOUS
  <1> USE BoundsAssumption, NoneAssumption DEF Init
  <1>1. TypeOK
    <2>1. archive \in [Copies -> Record \cup {None}] /\ lock \in [Files -> Procs \cup {None}]
      OBVIOUS
    <2>2. /\ pc \in [Procs -> {"off"}] /\ sid \in [Procs -> Ids \cup {None}]
          /\ msgs \in [Procs -> SUBSET Chats] /\ base \in [Procs -> Nat \cup {None}]
          /\ dest \in [Procs -> Ids \cup {None}] /\ home \in [Procs -> Dirs]
      OBVIOUS
    <2>3. /\ clock \in Nat /\ ids \in 0 .. MaxIds /\ chats \in 0 .. MaxChats
          /\ saves \in 0 .. MaxSaves /\ faults \in 0 .. MaxFaults
      OBVIOUS
    <2>4. unlocked \in BOOLEAN /\ raced \in BOOLEAN /\ astray \subseteq Files
      BY Zenon
    <2> QED
      BY <2>1, <2>2, <2>3, <2>4 DEF TypeOK
  <1>2. Placed /\ Dates
    BY DEF Placed, Dates, Ids, Copies
  <1> QED
    BY <1>1, <1>2 DEF Typed

\* What a write does, to the file and to the others.
LEMMA WrittenIs ==
  ASSUME Typed, NEW p \in Procs, NEW f \in Copies, Written(p, f)
  PROVE  /\ archive' \in [Copies -> Record \cup {None}] /\ clock' \in Nat /\ clock' = clock + 1
         /\ raced' \in BOOLEAN /\ (raced => raced')
         /\ archive'[f] # None /\ archive'[f].mtime = clock + 1
         /\ archive'[f].msgs = msgs[p] /\ archive'[f].by = p
         /\ \A g \in Copies \ {f} : archive'[g] = archive[g]
         /\ ~raced' => \A q \in Procs \ {p} : Dated(q) => Here(q) # f
  <1> DEFINE r == [mtime |-> clock + 1, msgs |-> msgs[p], by |-> p]
  <1>1. r \in Record /\ r # None
    BY NoneAssumption DEF Record, Typed, TypeOK
  <1>2. archive' = [archive EXCEPT ![f] = r] /\ clock' = clock + 1
    BY DEF Written
  <1>3. raced' = (raced \/ \E q \in Procs \ {p} : Dated(q) /\ Here(q) = f)
    BY DEF Written
  <1>4. raced' \in BOOLEAN /\ (raced => raced')
        /\ (~raced' => \A q \in Procs \ {p} : Dated(q) => Here(q) # f)
    BY <1>3, Zenon DEF Typed, TypeOK
  <1>5. archive'[f] = r
    BY <1>2 DEF Typed, TypeOK
  <1> QED
    BY <1>1, <1>2, <1>4, <1>5 DEF Typed, TypeOK

\* What each of the two writes of a save, and a prune, do to the files.
LEMMA CopySaved ==
  ASSUME Typed, NEW p \in Procs, SaveCopy(p)
  PROVE  /\ archive' \in [Copies -> Record \cup {None}] /\ clock' \in Nat /\ clock <= clock'
         /\ raced' \in BOOLEAN /\ (raced => raced')
         /\ \A g \in Copies : archive'[g] = archive[g]
                \/ (g = <<Store, dest[p]>> /\ archive'[g] # None /\ archive'[g].mtime = clock')
         /\ \A g \in Files : archive'[g] = archive[g]
         /\ pc[p] = "copy" /\ pc' = [pc EXCEPT ![p] = "save"]
         /\ faults' \in 0 .. MaxFaults
         /\ UNCHANGED <<lock, home, sid, msgs, base, dest, ids, chats, saves, unlocked, astray>>
  <1>1. <<Store, dest[p]>> \in Copies /\ pc[p] = "copy"
    BY TargetType DEF SaveCopy
  <1>2. \A g \in Files : g \in Copies /\ g # <<Store, dest[p]>>
    BY BoundsAssumption DEF Files, Copies
  <1>3. CASE Written(p, <<Store, dest[p]>>) /\ UNCHANGED faults
    BY <1>1, <1>2, <1>3, WrittenIs DEF SaveCopy, Goto, Typed, TypeOK
  <1>4. CASE faults < MaxFaults /\ faults' = faults + 1 /\ UNCHANGED <<archive, clock, raced>>
    BY <1>1, <1>4, BoundsAssumption DEF SaveCopy, Goto, Typed, TypeOK
  <1> QED
    BY <1>3, <1>4 DEF SaveCopy

LEMMA FileSaved ==
  ASSUME Typed, NEW p \in Procs, Save(p)
  PROVE  /\ pc[p] = "save" /\ Target(p) \in Files /\ Target(p) \in Copies /\ dest[p] \in Ids
         /\ dest[p] <= ids
         /\ archive' \in [Copies -> Record \cup {None}] /\ clock' \in Nat /\ clock' = clock + 1
         /\ raced' \in BOOLEAN /\ (raced => raced')
         /\ archive'[Target(p)] # None /\ archive'[Target(p)].mtime = clock + 1
         /\ archive'[Target(p)].msgs = msgs[p] /\ archive'[Target(p)].by = p
         /\ \A g \in Copies \ {Target(p)} : archive'[g] = archive[g]
         /\ ~raced' => \A q \in Procs \ {p} : Dated(q) => Here(q) # Target(p)
         /\ pc' \in [Procs -> {"off", "loading", "idle", "lock", "compare", "fork", "copy", "save",
                               "prune", "refresh", "unlock"}]
         /\ pc'[p] \in {"prune", "refresh"} /\ sid'[p] = dest[p] /\ dest'[p] = None
         /\ sid' \in [Procs -> Ids \cup {None}] /\ dest' \in [Procs -> Ids \cup {None}]
         /\ \A q \in Procs \ {p} : pc'[q] = pc[q] /\ sid'[q] = sid[q] /\ dest'[q] = dest[q]
         /\ UNCHANGED <<lock, home, msgs, base, ids, chats, saves, faults, unlocked, astray>>
  <1>1. pc[p] = "save" /\ Written(p, Target(p))
    BY DEF Save, Target
  <1>2. Target(p) \in Files /\ Target(p) \in Copies /\ dest[p] \in Ids /\ dest[p] <= ids
    BY <1>1, TargetType DEF Typed, Placed
  <1>3. /\ sid' = [sid EXCEPT ![p] = dest[p]] /\ dest' = [dest EXCEPT ![p] = None]
        /\ pc' = [pc EXCEPT ![p] = IF dest[p] = sid[p] THEN "prune" ELSE "refresh"]
        /\ UNCHANGED <<lock, home, msgs, base, ids, chats, saves, faults, unlocked, astray>>
    BY DEF Save, Goto
  <1>4. /\ pc'[p] \in {"prune", "refresh"} /\ sid'[p] = dest[p] /\ dest'[p] = None
        /\ sid' \in [Procs -> Ids \cup {None}] /\ dest' \in [Procs -> Ids \cup {None}]
        /\ pc' \in [Procs -> {"off", "loading", "idle", "lock", "compare", "fork", "copy", "save",
                               "prune", "refresh", "unlock"}]
        /\ \A q \in Procs \ {p} : pc'[q] = pc[q] /\ sid'[q] = sid[q] /\ dest'[q] = dest[q]
    BY <1>2, <1>3 DEF Typed, TypeOK
  <1>5. /\ archive' \in [Copies -> Record \cup {None}] /\ clock' \in Nat /\ clock' = clock + 1
        /\ raced' \in BOOLEAN /\ (raced => raced')
        /\ archive'[Target(p)] # None /\ archive'[Target(p)].mtime = clock + 1
        /\ archive'[Target(p)].msgs = msgs[p] /\ archive'[Target(p)].by = p
        /\ \A g \in Copies \ {Target(p)} : archive'[g] = archive[g]
        /\ ~raced' => \A q \in Procs \ {p} : Dated(q) => Here(q) # Target(p)
    BY <1>1, <1>2, WrittenIs
  <1> QED
    BY <1>1, <1>2, <1>3, <1>4, <1>5

LEMMA Pruned ==
  ASSUME Typed, NEW p \in Procs, Prune(p)
  PROVE  /\ archive' \in [Copies -> Record \cup {None}]
         /\ \A g \in Copies : archive'[g] \in {archive[g], None}
         /\ raced' \in BOOLEAN /\ (raced => raced')
         /\ ~raced' => \A q \in Procs : Dated(q) /\ Here(q) \in Copies
                                            => archive'[Here(q)] = archive[Here(q)]
         /\ pc[p] = "prune" /\ pc' = [pc EXCEPT ![p] = "refresh"]
         /\ UNCHANGED <<clock, lock, home, sid, msgs, base, dest, ids, chats, saves, faults,
                        unlocked, astray>>
  <1>1. archive' = [f \in Copies |-> IF f \in Excess THEN None ELSE archive[f]]
    BY DEF Prune
  <1>2. raced' = (raced \/ \E q \in Procs : Dated(q) /\ Here(q) \in Excess)
    BY DEF Prune
  <1>3. /\ raced' \in BOOLEAN /\ (raced => raced')
        /\ ~raced' => \A q \in Procs : Dated(q) => Here(q) \notin Excess
    BY <1>2, Zenon DEF Typed, TypeOK
  <1>4. archive' \in [Copies -> Record \cup {None}]
    BY <1>1 DEF Typed, TypeOK
  <1> QED
    BY <1>1, <1>3, <1>4 DEF Prune, Goto

LEMMA StepTypeOK == Typed /\ [Next]_vars => TypeOK'
  <1> SUFFICES ASSUME Typed, [Next]_vars PROVE TypeOK'
    OBVIOUS
  <1> USE BoundsAssumption DEF Typed, TypeOK, Goto
  <1>1. ASSUME NEW p \in Procs, NewSession(p) \/ Reset(p) \/ Fork(p) PROVE TypeOK'
    <2>1. ids + 1 \in Ids
      BY <1>1 DEF NewSession, Reset, Fork, Ids
    <2> QED
      BY <1>1, <2>1 DEF NewSession, Reset, Fork
  <1>2. ASSUME NEW p \in Procs, NEW d \in Dirs \cup {Store}, NEW i \in Ids, LoadSession(p, d, i)
        PROVE TypeOK'
    <2>1. <<d, i>> \in Copies /\ <<home[p], i>> \in Files
      BY DEF Copies, Files
    <2>2. archive[<<d, i>>].msgs \subseteq Chats
      BY <1>2, <2>1 DEF LoadSession, Record
    <2>3. astray' \subseteq Files
      BY <1>2, <2>1 DEF LoadSession
    <2> QED
      BY <1>2, <2>2, <2>3 DEF LoadSession
  <1>3. ASSUME NEW p \in Procs, TakeBaseline(p) \/ RefreshBaseline(p) PROVE TypeOK'
    <2>1. Here(p) \in Copies
      BY <1>3, HereType DEF TakeBaseline, RefreshBaseline
    <2>2. Mtime(Here(p)) \in Nat \cup {None}
      BY <2>1 DEF Mtime, Record
    <2> QED
      BY <1>3, <2>2 DEF TakeBaseline, RefreshBaseline
  <1>4. ASSUME NEW p \in Procs, Chat(p) PROVE TypeOK'
    <2>1. chats + 1 \in Chats
      BY <1>4 DEF Chat, Chats
    <2> QED
      BY <1>4, <2>1 DEF Chat
  <1>5. ASSUME NEW p \in Procs,
               Persist(p) \/ AcquireLock(p) \/ LockFails(p) \/ Compare(p) \/ SaveFails(p)
        PROVE  TypeOK'
    <2>1. CASE Persist(p)
      BY <2>1 DEF Persist
    <2>2. CASE AcquireLock(p)
      BY <2>2 DEF AcquireLock
    <2>3. CASE LockFails(p)
      BY <2>3 DEF LockFails
    <2>4. CASE SaveFails(p)
      BY <2>4 DEF SaveFails
    <2>5. CASE Compare(p)
      BY <2>5 DEF Compare
    <2> QED
      BY <1>5, <2>1, <2>2, <2>3, <2>4, <2>5
  <1>6. ASSUME NEW p \in Procs, SaveCopy(p) PROVE TypeOK'
    BY <1>6, CopySaved
  <1>7. ASSUME NEW p \in Procs, Save(p) PROVE TypeOK'
    BY <1>7, FileSaved
  <1>8. ASSUME NEW p \in Procs, Prune(p) PROVE TypeOK'
    BY <1>8, Pruned
  <1>9. ASSUME NEW p \in Procs, Unlock(p) \/ Crash(p) PROVE TypeOK'
    BY <1>9 DEF Unlock, Crash, Released
  <1>10. CASE UNCHANGED vars
    BY <1>10 DEF vars, memory
  <1> QED
    BY <1>1, <1>2, <1>3, <1>4, <1>5, <1>6, <1>7, <1>8, <1>9, <1>10 DEF Next

LEMMA StepPlaced == Typed /\ [Next]_vars => Placed'
  <1> SUFFICES ASSUME Typed, [Next]_vars PROVE Placed'
    OBVIOUS
  <1> USE BoundsAssumption, NoneAssumption DEF Typed, TypeOK, Placed, Goto
  <1>1. ASSUME NEW p \in Procs, NewSession(p) \/ Reset(p) \/ Fork(p) PROVE Placed'
    <2>1. ids + 1 \in Ids /\ ids' = ids + 1 /\ archive' = archive
      BY <1>1 DEF NewSession, Reset, Fork, Ids
    <2>2. \A d \in Dirs \cup {Store}, i \in Ids : i > ids' => archive'[<<d, i>>] = None
      BY <2>1 DEF Ids
    <2>3. CASE NewSession(p) \/ Reset(p)
      BY <2>1, <2>2, <2>3 DEF NewSession, Reset, Ids
    <2>4. CASE Fork(p)
      BY <2>1, <2>2, <2>4 DEF Fork, Ids
    <2> QED
      BY <1>1, <2>3, <2>4
  <1>2. ASSUME NEW p \in Procs, NEW d \in Dirs \cup {Store}, NEW i \in Ids, LoadSession(p, d, i)
        PROVE Placed'
    BY <1>2 DEF LoadSession, Ids
  <1>3. ASSUME NEW p \in Procs,
               \/ TakeBaseline(p) \/ Chat(p) \/ Persist(p) \/ AcquireLock(p) \/ LockFails(p)
               \/ Compare(p) \/ SaveFails(p) \/ RefreshBaseline(p) \/ Unlock(p)
        PROVE  Placed'
    BY <1>3 DEF TakeBaseline, Chat, Persist, AcquireLock, LockFails, Compare, SaveFails,
                RefreshBaseline, Unlock
  <1>4. ASSUME NEW p \in Procs, Crash(p) PROVE Placed'
    BY <1>4 DEF Crash
  <1>5. ASSUME NEW p \in Procs, SaveCopy(p) PROVE Placed'
    <2>1. dest[p] <= ids /\ ids \in Nat /\ dest[p] \in Ids
      BY <1>5 DEF SaveCopy
    <2>2. \A d \in Dirs \cup {Store}, i \in Ids : i > ids => archive'[<<d, i>>] = None
      <3> SUFFICES ASSUME NEW d \in Dirs \cup {Store}, NEW i \in Ids, i > ids
                   PROVE  archive'[<<d, i>>] = None
        OBVIOUS
      <3>1. <<d, i>> \in Copies /\ i # dest[p]
        BY <2>1 DEF Copies, Ids
      <3> QED
        BY <1>5, <3>1, CopySaved
    <2> QED
      BY <1>5, <2>2, CopySaved
  <1>6. ASSUME NEW p \in Procs, Save(p) PROVE Placed'
    <2>1. \A d \in Dirs \cup {Store}, i \in Ids : i > ids => archive'[<<d, i>>] = None
      <3> SUFFICES ASSUME NEW d \in Dirs \cup {Store}, NEW i \in Ids, i > ids
                   PROVE  archive'[<<d, i>>] = None
        OBVIOUS
      <3>1. <<d, i>> \in Copies /\ <<d, i>> # Target(p)
        BY <1>6, FileSaved DEF Copies, Ids, Target
      <3> QED
        BY <1>6, <3>1, FileSaved
    <2> QED
      BY <1>6, <2>1, FileSaved
  <1>7. ASSUME NEW p \in Procs, Prune(p) PROVE Placed'
    <2>1. \A d \in Dirs \cup {Store}, i \in Ids : <<d, i>> \in Copies
      BY DEF Copies
    <2> QED
      BY <1>7, <2>1, Pruned
  <1>8. CASE UNCHANGED vars
    BY <1>8 DEF vars, memory
  <1> QED
    BY <1>1, <1>2, <1>3, <1>4, <1>5, <1>6, <1>7, <1>8 DEF Next

LEMMA StepDates == Typed /\ [Next]_vars => Dates'
  <1> SUFFICES ASSUME Typed, [Next]_vars PROVE Dates'
    OBVIOUS
  <1> USE BoundsAssumption, NoneAssumption DEF Typed, TypeOK, Dates, Record
  <1>1. ASSUME UNCHANGED <<archive, clock, base>> PROVE Dates'
    BY <1>1
  <1>2. ASSUME NEW p \in Procs,
               \/ (\E d \in Dirs \cup {Store}, i \in Ids : LoadSession(p, d, i)) \/ Reset(p)
               \/ Chat(p) \/ Persist(p) \/ Fork(p)
               \/ AcquireLock(p) \/ LockFails(p) \/ Compare(p) \/ SaveFails(p) \/ Unlock(p)
        PROVE  Dates'
    BY <1>1, <1>2 DEF LoadSession, Reset, Chat, Persist, AcquireLock, LockFails, Compare,
                      SaveFails, Unlock, Fork
  <1>3. ASSUME NEW p \in Procs, NewSession(p) \/ Crash(p) PROVE Dates'
    BY <1>3 DEF NewSession, Crash
  <1>4. ASSUME NEW p \in Procs, TakeBaseline(p) \/ RefreshBaseline(p) PROVE Dates'
    <2>1. Here(p) \in Copies
      BY <1>4, HereType DEF TakeBaseline, RefreshBaseline
    <2>2. Mtime(Here(p)) # None => Mtime(Here(p)) <= clock
      BY <2>1 DEF Mtime
    <2>3. UNCHANGED <<archive, clock>> /\ base' = [base EXCEPT ![p] = Mtime(Here(p))]
      BY <1>4 DEF TakeBaseline, RefreshBaseline
    <2> QED
      BY <2>2, <2>3
  <1>5. ASSUME NEW p \in Procs, SaveCopy(p) PROVE Dates'
    <2>1. \A g \in Copies : archive'[g] # None => archive'[g].mtime <= clock'
      BY <1>5, CopySaved
    <2>2. \A q \in Procs : base'[q] # None => base'[q] <= clock'
      BY <1>5, CopySaved
    <2> QED
      BY <2>1, <2>2
  <1>6. ASSUME NEW p \in Procs, Save(p) PROVE Dates'
    <2>1. \A g \in Copies : archive'[g] = archive[g] \/ archive'[g].mtime = clock + 1
      BY <1>6, FileSaved
    <2>2. clock' = clock + 1 /\ UNCHANGED base
      BY <1>6, FileSaved
    <2>3. \A g \in Copies : archive'[g] # None => archive'[g].mtime <= clock'
      BY <2>1, <2>2
    <2> QED
      BY <2>2, <2>3
  <1>7. ASSUME NEW p \in Procs, Prune(p) PROVE Dates'
    BY <1>7, Pruned
  <1>8. CASE UNCHANGED vars
    BY <1>1, <1>8 DEF vars, memory
  <1> QED
    BY <1>2, <1>3, <1>4, <1>5, <1>6, <1>7, <1>8 DEF Next

LEMMA StepTyped == Typed /\ [Next]_vars => Typed'
  BY StepTypeOK, StepPlaced, StepDates DEF Typed

\* the next id is nobody's, and has no file
LEMMA NextId ==
  ASSUME Typed, ids < MaxIds
  PROVE  /\ ids + 1 \in Ids
         /\ \A d \in Dirs \cup {Store} : archive[<<d, ids + 1>>] = None
         /\ \A q \in Procs : pc[q] # "off" => sid[q] \in Ids /\ sid[q] # ids + 1
         /\ \A q \in Procs : pc[q] \in {"copy", "save"} => dest[q] # ids + 1
  <1>1. ids + 1 \in Ids /\ ids + 1 > ids /\ ids \in Nat
    BY BoundsAssumption DEF Typed, TypeOK, Ids
  <1>2. \A q \in Procs : pc[q] # "off" => sid[q] \in Ids /\ sid[q] # ids + 1
    BY <1>1 DEF Typed, TypeOK, Placed, Ids
  <1>3. \A q \in Procs : pc[q] \in {"copy", "save"} => dest[q] # ids + 1
    BY <1>1 DEF Typed, TypeOK, Placed, Ids
  <1> QED
    BY <1>1, <1>2, <1>3 DEF Typed, Placed

\* The archive's state is well typed, for any processes and bounds.
THEOREM TypeCorrect == Spec => []TypeOK
  <1>1. Typed => TypeOK
    BY DEF Typed
  <1> QED
    BY <1>1, InitTyped, StepTyped, PTL DEF Spec

----------------------------------------------------------------------------
\* A fork's file is nobody's, and two forks are not one
Fresh ==
    /\ \A p \in Procs : Forking(p) /\ Target(p) \notin astray =>
          /\ archive[Target(p)] = None
          /\ \A q \in Procs : pc[q] # "off" => Here(q) # Target(p)
    /\ \A p, q \in Procs : Forking(p) /\ Forking(q) /\ p # q => dest[p] # dest[q]

LEMMA InitFresh == Init => Fresh
  BY DEF Init, Fresh, Forking

\* who loads a fork's copy before the fork's file is there has gone astray
LEMMA StepFresh == Typed /\ Fresh /\ [Next]_vars => Fresh'
  <1> SUFFICES ASSUME Typed, Fresh, [Next]_vars PROVE Fresh'
    OBVIOUS
  <1> USE NoneAssumption DEF Fresh, Goto
  <1>0. /\ \A q \in Procs : Forking(q) => Target(q) \in Copies /\ Target(q) \in Files
        /\ \A q \in Procs : Target(q) = <<home[q], dest[q]>> /\ Here(q) = <<home[q], sid[q]>>
        /\ \A q \in Procs : (Forking(q) <=> pc[q] \in {"copy", "save"} /\ dest[q] # sid[q])
    BY TargetType DEF Forking, Target, Here
  <1>1. ASSUME NEW p \in Procs, NewSession(p) \/ Reset(p) PROVE Fresh'
    <2>1. \A q \in Procs : Forking(q) => dest[q] # ids + 1
      BY <1>1, NextId DEF NewSession, Reset, Forking
    <2>2. /\ UNCHANGED <<archive, home, dest, astray>> /\ sid'[p] = ids + 1
          /\ ~Forking(p)' /\ \A q \in Procs \ {p} : pc'[q] = pc[q] /\ sid'[q] = sid[q]
      BY <1>1 DEF NewSession, Reset, Forking, Typed, TypeOK
    <2>3. \A q \in Procs : (Forking(q)' => Forking(q)) /\ Target(q)' = Target(q)
      BY <2>2 DEF Forking, Target
    <2>4. \A q \in Procs : Forking(q) => Here(p)' # Target(q)
      BY <2>1, <2>2 DEF Here, Target
    <2>5. \A q \in Procs \ {p} : Here(q)' = Here(q)
      BY <2>2 DEF Here
    <2> QED
      BY <2>2, <2>3, <2>4, <2>5
  <1>2. ASSUME NEW p \in Procs, NEW d \in Dirs \cup {Store}, NEW i \in Ids, LoadSession(p, d, i)
        PROVE Fresh'
    <2>1. /\ UNCHANGED <<archive, home, dest>> /\ astray \subseteq astray'
          /\ Here(p)' = <<home[p], i>>
          /\ archive[<<home[p], i>>] = None => <<home[p], i>> \in astray'
          /\ ~Forking(p)' /\ \A q \in Procs \ {p} : pc'[q] = pc[q] /\ sid'[q] = sid[q]
      BY <1>2 DEF LoadSession, Forking, Here, Typed, TypeOK
    <2>2. \A q \in Procs : (Forking(q)' => Forking(q)) /\ Target(q)' = Target(q)
      BY <2>1 DEF Forking, Target
    <2>3. \A q \in Procs \ {p} : Here(q)' = Here(q) /\ (pc'[q] # "off" => pc[q] # "off")
      BY <2>1 DEF Here
    <2> QED
      BY <2>1, <2>2, <2>3
  <1>3. ASSUME NEW p \in Procs,
               \/ TakeBaseline(p) \/ Chat(p) \/ Persist(p) \/ AcquireLock(p) \/ LockFails(p)
               \/ Compare(p) \/ SaveFails(p) \/ RefreshBaseline(p) \/ Unlock(p)
        PROVE  Fresh'
    <2>1. /\ UNCHANGED <<archive, home, sid, astray>> /\ pc[p] # "off"
          /\ \A q \in Procs \ {p} : pc'[q] = pc[q] /\ dest'[q] = dest[q]
      BY <1>3 DEF TakeBaseline, Chat, Persist, AcquireLock, LockFails, Compare, SaveFails,
                  RefreshBaseline, Unlock, Typed, TypeOK
    <2>2. ~Forking(p)'
      BY <1>3 DEF TakeBaseline, Chat, Persist, AcquireLock, LockFails, Compare, SaveFails,
                  RefreshBaseline, Unlock, Forking, Typed, TypeOK, Placed
    <2>3. \A q \in Procs : Here(q)' = Here(q) /\ (pc'[q] # "off" => pc[q] # "off")
      BY <2>1 DEF Here
    <2>4. \A q \in Procs : Forking(q)' => Forking(q) /\ Target(q)' = Target(q) /\ dest'[q] = dest[q]
      BY <2>1, <2>2 DEF Forking, Target
    <2> QED
      BY <2>1, <2>3, <2>4
  <1>4. ASSUME NEW p \in Procs, Fork(p) PROVE Fresh'
    <2>1. /\ UNCHANGED <<archive, home, sid, astray>> /\ pc[p] = "fork" /\ dest'[p] = ids + 1
          /\ \A q \in Procs \ {p} : pc'[q] = pc[q] /\ dest'[q] = dest[q]
      BY <1>4 DEF Fork, Typed, TypeOK
    <2>2. /\ \A q \in Procs : pc[q] # "off" => sid[q] # ids + 1
          /\ \A q \in Procs : Forking(q) => dest[q] # ids + 1
          /\ archive[<<home[p], ids + 1>>] = None
      BY <1>4, NextId DEF Fork, Forking, Typed, TypeOK
    <2>3. \A q \in Procs : Here(q)' = Here(q) /\ (pc'[q] # "off" => pc[q] # "off")
      BY <2>1 DEF Here
    <2>4. \A q \in Procs \ {p} : Forking(q)' => Forking(q) /\ Target(q)' = Target(q) /\ dest'[q] = dest[q]
      BY <2>1 DEF Forking, Target
    <2>5. Target(p)' = <<home[p], ids + 1>> /\ \A q \in Procs : pc[q] # "off" => Here(q) # Target(p)'
      BY <2>1, <2>2 DEF Target, Here
    <2> QED
      BY <2>1, <2>2, <2>3, <2>4, <2>5
  <1>5. ASSUME NEW p \in Procs, SaveCopy(p) PROVE Fresh'
    <2>1. /\ UNCHANGED <<home, sid, dest, astray>> /\ pc[p] = "copy" /\ pc' = [pc EXCEPT ![p] = "save"]
          /\ \A g \in Files : archive'[g] = archive[g]
      BY <1>5, CopySaved
    <2>2. \A q \in Procs : /\ Here(q)' = Here(q) /\ Target(q)' = Target(q)
                           /\ (pc'[q] # "off" => pc[q] # "off") /\ (Forking(q)' => Forking(q))
      BY <2>1 DEF Here, Target, Forking, Typed, TypeOK
    <2> QED
      BY <1>0, <2>1, <2>2
  <1>6. ASSUME NEW p \in Procs, Save(p) PROVE Fresh'
    <2>1. /\ pc[p] = "save" /\ pc'[p] \in {"prune", "refresh"} /\ sid'[p] = dest[p]
          /\ \A g \in Copies \ {Target(p)} : archive'[g] = archive[g]
          /\ \A q \in Procs \ {p} : pc'[q] = pc[q] /\ sid'[q] = sid[q] /\ dest'[q] = dest[q]
          /\ UNCHANGED <<home, astray>>
      BY <1>6, FileSaved
    <2>2. ~Forking(p)' /\ Here(p)' = Target(p)
      BY <2>1 DEF Forking, Here, Target
    <2>3. \A q \in Procs \ {p} : /\ Here(q)' = Here(q) /\ Target(q)' = Target(q)
                                 /\ (Forking(q)' <=> Forking(q))
      BY <2>1 DEF Here, Target, Forking
    <2>4. ASSUME NEW q \in Procs \ {p}, Forking(q), Target(q) \notin astray PROVE Target(q) # Target(p)
      <3>1. CASE Forking(p)
        BY <2>4, <3>1 DEF Target
      <3>2. CASE ~Forking(p)
        <4>1. Target(p) = Here(p)
          BY <2>1, <3>2 DEF Forking, Target, Here
        <4> QED
          BY <2>1, <2>4, <4>1
      <3> QED
        BY <3>1, <3>2
    <2> QED
      BY <1>0, <2>1, <2>2, <2>3, <2>4
  <1>7. ASSUME NEW p \in Procs, Prune(p) PROVE Fresh'
    <2>1. /\ UNCHANGED <<home, sid, dest, astray>> /\ pc[p] = "prune"
          /\ pc' = [pc EXCEPT ![p] = "refresh"]
          /\ \A g \in Copies : archive'[g] \in {archive[g], None}
      BY <1>7, Pruned
    <2>2. \A q \in Procs : /\ Here(q)' = Here(q) /\ Target(q)' = Target(q)
                           /\ (pc'[q] # "off" => pc[q] # "off") /\ (Forking(q)' => Forking(q))
      BY <2>1 DEF Here, Target, Forking, Typed, TypeOK
    <2> QED
      BY <1>0, <2>1, <2>2
  <1>8. ASSUME NEW p \in Procs, Crash(p) PROVE Fresh'
    <2>1. /\ UNCHANGED <<archive, home, astray>> /\ pc'[p] = "off"
          /\ \A q \in Procs \ {p} : pc'[q] = pc[q] /\ sid'[q] = sid[q] /\ dest'[q] = dest[q]
      BY <1>8 DEF Crash, Typed, TypeOK
    <2>2. \A q \in Procs \ {p} : /\ Here(q)' = Here(q) /\ Target(q)' = Target(q)
                                 /\ (Forking(q)' <=> Forking(q))
      BY <2>1 DEF Here, Target, Forking
    <2>3. ~Forking(p)'
      BY <2>1 DEF Forking
    <2> QED
      BY <2>1, <2>2, <2>3
  <1>9. CASE UNCHANGED vars
    BY <1>9 DEF vars, memory, Here, Target, Forking
  <1> QED
    BY <1>1, <1>2, <1>3, <1>4, <1>5, <1>6, <1>7, <1>8, <1>9 DEF Next

----------------------------------------------------------------------------
\* A process is not in conflict with a version of its own
Own == \A p \in Procs :
    pc[p] \in Resting /\ archive[Here(p)] # None /\ archive[Here(p)].by = p => ~Conflict(p)

OwnInv == Own /\ ForksOnlyForOthers

LEMMA InitOwn == Init => OwnInv
  BY DEF Init, OwnInv, Own, ForksOnlyForOthers, Resting

\* a version of one's own is at rest only once its date was taken
LEMMA StepOwn == Typed /\ OwnInv /\ [Next]_vars => OwnInv'
  <1> SUFFICES ASSUME Typed, OwnInv, [Next]_vars PROVE OwnInv'
    OBVIOUS
  <1> USE NoneAssumption DEF OwnInv, Own, ForksOnlyForOthers, Conflict, Resting, Goto
  <1>0. \A q \in Procs : pc[q] # "off" => Here(q) \in Copies /\ Here(q) \in Files
    BY HereType
  <1>1. ASSUME NEW p \in Procs, NewSession(p) \/ Reset(p) PROVE OwnInv'
    <2>1. archive[<<home[p], ids + 1>>] = None /\ UNCHANGED <<archive, home>>
      BY <1>1, NextId DEF NewSession, Reset, Typed, TypeOK
    <2>2. /\ Here(p)' = <<home[p], ids + 1>> /\ pc'[p] = "idle"
          /\ \A q \in Procs \ {p} : pc'[q] = pc[q] /\ Here(q)' = Here(q) /\ base'[q] = base[q]
      BY <1>1 DEF NewSession, Reset, Here, Typed, TypeOK
    <2> QED
      BY <2>1, <2>2
  <1>2. ASSUME NEW p \in Procs, NEW d \in Dirs \cup {Store}, NEW i \in Ids, LoadSession(p, d, i)
        PROVE OwnInv'
    <2>1. /\ UNCHANGED <<archive, base>> /\ pc'[p] = "loading"
          /\ \A q \in Procs \ {p} : pc'[q] = pc[q] /\ Here(q)' = Here(q)
      BY <1>2 DEF LoadSession, Here, Typed, TypeOK
    <2> QED
      BY <2>1
  <1>3. ASSUME NEW p \in Procs, TakeBaseline(p) \/ RefreshBaseline(p) PROVE OwnInv'
    <2>1. /\ UNCHANGED <<archive, sid, home>> /\ base' = [base EXCEPT ![p] = Mtime(Here(p))]
          /\ pc'[p] \in {"idle", "unlock"} /\ \A q \in Procs \ {p} : pc'[q] = pc[q]
          /\ pc[p] # "off"
      BY <1>3 DEF TakeBaseline, RefreshBaseline, Typed, TypeOK
    <2>2. \A q \in Procs : Here(q)' = Here(q)
      BY <2>1 DEF Here
    <2>3. archive[Here(p)] # None => ~(archive[Here(p)].mtime > base'[p])
      BY <1>0, <2>1 DEF Mtime, Record, Typed, TypeOK
    <2>4. \A q \in Procs \ {p} : base'[q] = base[q]
      BY <2>1 DEF Typed, TypeOK
    <2> QED
      BY <2>1, <2>2, <2>3, <2>4
  <1>4. ASSUME NEW p \in Procs,
               \/ Chat(p) \/ Persist(p) \/ AcquireLock(p) \/ LockFails(p) \/ Compare(p) \/ Fork(p)
               \/ SaveFails(p) \/ Unlock(p)
        PROVE  OwnInv'
    <2>1. /\ UNCHANGED <<archive, sid, home, base>> /\ pc[p] \in Resting
          /\ \A q \in Procs \ {p} : pc'[q] = pc[q]
          /\ pc'[p] = "fork" => Conflict(p)
      BY <1>4 DEF Chat, Persist, AcquireLock, LockFails, Compare, Fork, SaveFails, Unlock,
                  Typed, TypeOK
    <2>2. \A q \in Procs : Here(q)' = Here(q)
      BY <2>1 DEF Here
    <2> QED
      BY <2>1, <2>2
  <1>5. ASSUME NEW p \in Procs, SaveCopy(p) PROVE OwnInv'
    <2>1. /\ UNCHANGED <<home, sid, base>> /\ pc[p] = "copy" /\ pc' = [pc EXCEPT ![p] = "save"]
          /\ \A g \in Files : archive'[g] = archive[g]
      BY <1>5, CopySaved
    <2>2. \A q \in Procs : Here(q)' = Here(q) /\ (pc'[q] \in Resting => pc[q] \in Resting)
                           /\ (pc'[q] = "fork" => pc[q] = "fork")
      BY <2>1 DEF Here, Typed, TypeOK
    <2> QED
      BY <1>0, <2>1, <2>2
  <1>6. ASSUME NEW p \in Procs, Save(p) PROVE OwnInv'
    <2>1. /\ pc'[p] \in {"prune", "refresh"} /\ archive'[Target(p)].by = p
          /\ \A g \in Copies \ {Target(p)} : archive'[g] = archive[g]
          /\ \A q \in Procs \ {p} : pc'[q] = pc[q] /\ sid'[q] = sid[q]
          /\ UNCHANGED <<home, base>>
      BY <1>6, FileSaved
    <2>2. \A q \in Procs \ {p} : Here(q)' = Here(q)
      BY <2>1 DEF Here
    <2> QED
      BY <1>0, <2>1, <2>2
  <1>7. ASSUME NEW p \in Procs, Prune(p) PROVE OwnInv'
    <2>1. /\ UNCHANGED <<home, sid, base>> /\ pc[p] = "prune"
          /\ pc' = [pc EXCEPT ![p] = "refresh"]
          /\ \A g \in Copies : archive'[g] \in {archive[g], None}
      BY <1>7, Pruned
    <2>2. /\ \A q \in Procs : Here(q)' = Here(q)
          /\ pc'[p] = "refresh" /\ \A q \in Procs \ {p} : pc'[q] = pc[q]
      BY <2>1 DEF Here, Typed, TypeOK
    <2> QED
      BY <1>0, <2>1, <2>2
  <1>8. ASSUME NEW p \in Procs, Crash(p) PROVE OwnInv'
    <2>1. /\ UNCHANGED archive /\ pc'[p] = "off"
          /\ \A q \in Procs \ {p} : pc'[q] = pc[q] /\ Here(q)' = Here(q) /\ base'[q] = base[q]
      BY <1>8 DEF Crash, Here, Typed, TypeOK
    <2> QED
      BY <2>1
  <1>9. CASE UNCHANGED vars
    BY <1>9 DEF vars, memory, Here
  <1> QED
    BY <1>1, <1>2, <1>3, <1>4, <1>5, <1>6, <1>7, <1>8, <1>9 DEF Next

\* A process never forks because of its own last save, whatever fails and
\* whoever races, and wherever it loaded from.
THEOREM ForksForOthers == Spec => []ForksOnlyForOthers
  <1>1. OwnInv => ForksOnlyForOthers
    BY DEF OwnInv
  <1> QED
    BY <1>1, InitTyped, StepTyped, InitOwn, StepOwn, PTL DEF Spec

----------------------------------------------------------------------------
\* no file, and no other process in the session
Unsaved(p) ==
    /\ archive[Here(p)] = None
    /\ \A q \in Procs \ {p} : pc[q] # "off" => Here(q) # Here(p)

Holds(p) == archive[Here(p)].msgs \subseteq msgs[p]

\* a version p does not hold is one it will notice
Based(p) == base[p] # None /\ (archive[Here(p)] # None => Conflict(p) \/ Holds(p))

Informed ==
    ~raced => \A p \in Procs : Here(p) \notin astray =>
        /\ pc[p] \in Resting => Unsaved(p) \/ Based(p)
        /\ Dated(p) => archive[Here(p)] # None /\ Holds(p)

LEMMA InitInformed == Init => Informed
  BY DEF Init, Informed, Resting, Dated

\* A version that was not its own is noticed; one's own is held.
LEMMA StepInformed == Typed /\ Fresh /\ Informed /\ [Next]_vars => Informed'
  <1> SUFFICES ASSUME Typed, Fresh, Informed, [Next]_vars, ~raced' PROVE Informed'
    BY DEF Informed
  <1> USE NoneAssumption DEF Informed, Unsaved, Based, Holds, Conflict, Resting, Dated, Goto
  <1>0. \A q \in Procs : pc[q] # "off" => Here(q) \in Copies /\ Here(q) \in Files
    BY HereType
  <1>1. ASSUME NEW p \in Procs, NewSession(p) \/ Reset(p) PROVE Informed'
    <2>1. /\ archive[<<home[p], ids + 1>>] = None
          /\ \A q \in Procs : pc[q] # "off" => Here(q) # <<home[p], ids + 1>>
      BY <1>1, NextId DEF NewSession, Reset, Here, Typed, TypeOK
    <2>2. /\ UNCHANGED <<archive, raced, astray>> /\ Here(p)' = <<home[p], ids + 1>> /\ pc'[p] = "idle"
          /\ \A q \in Procs \ {p} : /\ pc'[q] = pc[q] /\ Here(q)' = Here(q)
                                    /\ base'[q] = base[q] /\ msgs'[q] = msgs[q]
      BY <1>1 DEF NewSession, Reset, Here, Typed, TypeOK
    <2>3. Unsaved(p)'
      BY <2>1, <2>2
    <2>4. \A q \in Procs \ {p} : pc[q] # "off" => (Unsaved(q) => Unsaved(q)')
      BY <2>1, <2>2
    <2> QED
      BY <2>2, <2>3, <2>4
  <1>2. ASSUME NEW p \in Procs, NEW d \in Dirs \cup {Store}, NEW i \in Ids, LoadSession(p, d, i)
        PROVE Informed'
    <2>1. /\ UNCHANGED <<archive, raced, base>> /\ pc'[p] = "loading" /\ astray \subseteq astray'
          /\ Here(p)' = <<home[p], i>> /\ msgs'[p] = archive[<<d, i>>].msgs
          /\ \A q \in Procs \ {p} : pc'[q] = pc[q] /\ Here(q)' = Here(q) /\ msgs'[q] = msgs[q]
      BY <1>2 DEF LoadSession, Here, Typed, TypeOK
    <2>2. Here(p)' \notin astray' => /\ archive[<<home[p], i>>] # None
                                   /\ archive[<<home[p], i>>].msgs \subseteq archive[<<d, i>>].msgs
      BY <1>2, <2>1 DEF LoadSession
    <2>3. \A q \in Procs \ {p} : Unsaved(q) /\ Here(q) \notin astray' => Unsaved(q)'
      BY <2>1, <2>2
    <2> QED
      BY <2>1, <2>2, <2>3
  <1>3. ASSUME NEW p \in Procs, TakeBaseline(p) \/ RefreshBaseline(p) PROVE Informed'
    <2>1. /\ UNCHANGED <<archive, raced, sid, home, msgs, astray>> /\ pc[p] \in {"loading", "refresh"}
          /\ base' = [base EXCEPT ![p] = Mtime(Here(p))]
          /\ pc'[p] \in {"idle", "unlock"} /\ \A q \in Procs \ {p} : pc'[q] = pc[q]
      BY <1>3 DEF TakeBaseline, RefreshBaseline, Typed, TypeOK
    <2>2. Here(p) \notin astray => archive[Here(p)] # None /\ Holds(p)
      BY <2>1
    <2>3. /\ \A q \in Procs : Here(q)' = Here(q)
          /\ \A q \in Procs \ {p} : base'[q] = base[q]
      BY <2>1 DEF Here, Typed, TypeOK
    <2>4. Here(p) \notin astray => base'[p] # None /\ Holds(p)'
      BY <1>0, <2>1, <2>2, <2>3 DEF Mtime, Record, Typed, TypeOK
    <2>5. \A q \in Procs \ {p} : Unsaved(q) => Unsaved(q)'
      BY <2>1, <2>3
    <2> QED
      BY <2>1, <2>3, <2>4, <2>5
  <1>4. ASSUME NEW p \in Procs,
               \/ Chat(p) \/ Persist(p) \/ AcquireLock(p) \/ LockFails(p) \/ Compare(p) \/ Fork(p)
               \/ SaveFails(p) \/ Unlock(p)
        PROVE  Informed'
    <2>1. /\ UNCHANGED <<archive, raced, sid, home, base, astray>>
          /\ pc[p] \in Resting /\ pc'[p] \in Resting
          /\ \A q \in Procs \ {p} : pc'[q] = pc[q]
          /\ \A q \in Procs : msgs[q] \subseteq msgs'[q]
      BY <1>4 DEF Chat, Persist, AcquireLock, LockFails, Compare, Fork, SaveFails, Unlock, Typed, TypeOK
    <2>2. \A q \in Procs : Here(q)' = Here(q)
      BY <2>1 DEF Here
    <2> QED
      BY <2>1, <2>2
  <1>5. ASSUME NEW p \in Procs, SaveCopy(p) PROVE Informed'
    <2>1. /\ UNCHANGED <<home, sid, base, msgs, astray>> /\ ~raced
          /\ pc[p] = "copy" /\ pc' = [pc EXCEPT ![p] = "save"]
          /\ \A g \in Files : archive'[g] = archive[g]
      BY <1>5, CopySaved
    <2>2. /\ \A q \in Procs : Here(q)' = Here(q)
          /\ pc'[p] = "save" /\ \A q \in Procs \ {p} : pc'[q] = pc[q]
      BY <2>1 DEF Here, Typed, TypeOK
    <2>3. \A q \in Procs : pc'[q] # "off" => /\ (Unsaved(q) => Unsaved(q)') /\ (Based(q) => Based(q)')
                                            /\ (Holds(q) => Holds(q)') /\ archive'[Here(q)'] = archive[Here(q)]
      BY <1>0, <2>1, <2>2
    <2> QED
      BY <2>1, <2>2, <2>3
  <1>6. ASSUME NEW p \in Procs, Save(p) PROVE Informed'
    <2>1. /\ pc[p] = "save" /\ pc'[p] \in {"prune", "refresh"} /\ sid'[p] = dest[p]
          /\ archive'[Target(p)] # None /\ archive'[Target(p)].mtime = clock + 1
          /\ archive'[Target(p)].msgs = msgs[p]
          /\ \A g \in Copies \ {Target(p)} : archive'[g] = archive[g]
          /\ \A q \in Procs \ {p} : Dated(q) => Here(q) # Target(p)
          /\ \A q \in Procs \ {p} : pc'[q] = pc[q] /\ sid'[q] = sid[q]
          /\ UNCHANGED <<home, msgs, base, astray>> /\ ~raced
      BY <1>6, FileSaved
    <2>2. Here(p)' = Target(p) /\ \A q \in Procs \ {p} : Here(q)' = Here(q)
      BY <2>1 DEF Here, Target
    <2>3. archive'[Here(p)'] # None /\ Holds(p)'
      BY <2>1, <2>2
    <2>4. ASSUME NEW q \in Procs \ {p}, Here(q) = Target(p), Here(q) \notin astray, pc[q] \in Resting
          PROVE  Based(q)'
      <3>1. dest[p] = sid[p]
        BY <2>1, <2>4 DEF Fresh, Forking
      <3>2. Here(p) = Here(q)
        BY <2>4, <3>1 DEF Here, Target
      <3>3. Based(q)
        BY <2>1, <2>4, <3>2
      <3>4. base[q] <= clock /\ base[q] \in Nat /\ clock \in Nat
        BY <3>3 DEF Typed, TypeOK, Dates
      <3> QED
        BY <2>1, <2>2, <2>4, <3>3, <3>4
    <2>5. ASSUME NEW q \in Procs \ {p}, Here(q) # Target(p), pc[q] # "off"
          PROVE  (Unsaved(q) => Unsaved(q)') /\ (Based(q) => Based(q)') /\ (Holds(q) => Holds(q)')
                 /\ archive'[Here(q)'] = archive[Here(q)]
      BY <1>0, <2>1, <2>2, <2>5
    <2> QED
      BY <2>1, <2>2, <2>3, <2>4, <2>5
  <1>7. ASSUME NEW p \in Procs, Prune(p) PROVE Informed'
    <2>1. /\ UNCHANGED <<home, sid, base, msgs, astray>> /\ pc[p] = "prune" /\ ~raced
          /\ pc' = [pc EXCEPT ![p] = "refresh"]
          /\ \A g \in Copies : archive'[g] \in {archive[g], None}
          /\ \A q \in Procs : Dated(q) /\ Here(q) \in Copies => archive'[Here(q)] = archive[Here(q)]
      BY <1>7, Pruned
    <2>2. /\ \A q \in Procs : Here(q)' = Here(q)
          /\ pc'[p] = "refresh" /\ \A q \in Procs \ {p} : pc'[q] = pc[q]
      BY <2>1 DEF Here, Typed, TypeOK
    <2>3. ASSUME NEW q \in Procs, pc[q] # "off"
          PROVE  (Unsaved(q) => Unsaved(q)') /\ (Based(q) => Based(q)')
      BY <1>0, <2>1, <2>2, <2>3
    <2>4. ASSUME NEW q \in Procs, Dated(q), Here(q) \notin astray PROVE archive'[Here(q)] # None /\ Holds(q)'
      BY <1>0, <2>1, <2>2, <2>4
    <2> QED
      BY <2>1, <2>2, <2>3, <2>4
  <1>8. ASSUME NEW p \in Procs, Crash(p) PROVE Informed'
    <2>1. /\ pc'[p] = "off" /\ UNCHANGED <<archive, raced, astray>>
          /\ \A q \in Procs \ {p} : /\ pc'[q] = pc[q] /\ Here(q)' = Here(q)
                                    /\ base'[q] = base[q] /\ msgs'[q] = msgs[q]
      BY <1>8 DEF Crash, Here, Typed, TypeOK
    <2>2. \A q \in Procs \ {p} : Unsaved(q) => Unsaved(q)'
      BY <2>1
    <2> QED
      BY <2>1, <2>2
  <1>9. CASE UNCHANGED vars
    BY <1>9 DEF vars, memory, Here
  <1> QED
    BY <1>1, <1>2, <1>3, <1>4, <1>5, <1>6, <1>7, <1>8, <1>9 DEF Next

\* What a process will write without seeing a conflict contains what the file
\* of its project holds, for any number of processes, directories and saves,
\* unless that file has gone astray.
THEOREM NeverBehind == Spec => []NotBehind
  <1>1. Typed /\ Informed => NotBehind
    BY DEF Typed, TypeOK, Informed, NotBehind, Unsaved, Based, Holds, Resting, Dated
  <1> QED
    BY <1>1, InitTyped, StepTyped, InitFresh, StepFresh, InitInformed, StepInformed, PTL DEF Spec

----------------------------------------------------------------------------
\* From the comparison to the write the lock is held, and no one else writes
Saving(p) == pc[p] \in {"copy", "save"} /\ dest[p] = sid[p]

Locking ==
    ~unlocked => \A p \in Procs :
        /\ pc[p] = "compare" \/ Saving(p) => lock[Here(p)] = p
        /\ Saving(p) /\ Here(p) \notin astray => ~Conflict(p)

LEMMA InitLocking == Init => Locking
  BY DEF Init, Locking, Saving

LEMMA StepLocking == Typed /\ Fresh /\ Locking /\ [Next]_vars => Locking'
  <1> SUFFICES ASSUME Typed, Fresh, Locking, [Next]_vars, ~unlocked' PROVE Locking'
    BY DEF Locking
  <1> USE NoneAssumption DEF Locking, Conflict, Goto, Saving
  <1>0. \A q \in Procs : pc[q] # "off" => Here(q) \in Copies /\ Here(q) \in Files
    BY HereType
  <1>1. ASSUME NEW p \in Procs,
               \/ NewSession(p) \/ (\E d \in Dirs \cup {Store}, i \in Ids : LoadSession(p, d, i))
               \/ TakeBaseline(p) \/ RefreshBaseline(p) \/ Reset(p) \/ Chat(p) \/ Persist(p)
               \/ SaveFails(p)
        PROVE  Locking'
    <2>1. /\ UNCHANGED <<archive, lock, unlocked>> /\ pc'[p] \notin {"compare", "copy", "save"}
          /\ astray \subseteq astray'
          /\ \A q \in Procs \ {p} : /\ pc'[q] = pc[q] /\ Here(q)' = Here(q) /\ base'[q] = base[q]
                                    /\ dest'[q] = dest[q] /\ sid'[q] = sid[q]
      <3>1. ASSUME NEW d \in Dirs \cup {Store}, NEW i \in Ids, LoadSession(p, d, i)
            PROVE  astray \subseteq astray' /\ pc'[p] = "loading"
        BY <3>1 DEF LoadSession, Typed, TypeOK
      <3>2. ASSUME NEW d \in Dirs \cup {Store}, NEW i \in Ids, LoadSession(p, d, i)
            PROVE  /\ UNCHANGED <<archive, lock, unlocked>> /\ pc'[p] \notin {"compare", "copy", "save"}
                   /\ \A q \in Procs \ {p} : /\ pc'[q] = pc[q] /\ Here(q)' = Here(q) /\ base'[q] = base[q]
                                             /\ dest'[q] = dest[q] /\ sid'[q] = sid[q]
        BY <3>1, <3>2 DEF LoadSession, Here, Typed, TypeOK
      <3>3. CASE NewSession(p) \/ TakeBaseline(p) \/ RefreshBaseline(p) \/ Reset(p)
        BY <3>3 DEF NewSession, TakeBaseline, RefreshBaseline, Reset, Here, Typed, TypeOK
      <3>4. CASE Chat(p) \/ Persist(p) \/ SaveFails(p)
        BY <3>4 DEF Chat, Persist, SaveFails, Here, Typed, TypeOK
      <3> QED
        BY <1>1, <3>1, <3>2, <3>3, <3>4
    <2>2. UNCHANGED lock /\ astray \subseteq astray' /\ \A f \in Copies : archive'[f] = archive[f]
      BY <2>1
    <2> QED
      BY <1>0, <2>1, <2>2
  <1>2. ASSUME NEW p \in Procs, AcquireLock(p) PROVE Locking'
    <2>1. /\ UNCHANGED <<archive, sid, home, dest, base, unlocked, astray>> /\ pc'[p] = "compare"
          /\ lock[Here(p)] = None /\ lock' = [lock EXCEPT ![Here(p)] = p] /\ pc[p] = "lock"
          /\ \A q \in Procs \ {p} : pc'[q] = pc[q]
      BY <1>2 DEF AcquireLock, Typed, TypeOK
    <2>2. \A q \in Procs : Here(q)' = Here(q)
      BY <2>1 DEF Here
    <2>3. lock'[Here(p)] = p /\ \A f \in Files : f # Here(p) => lock'[f] = lock[f]
      BY <1>0, <2>1 DEF Typed, TypeOK
    <2> QED
      BY <1>0, <2>1, <2>2, <2>3
  <1>3. ASSUME NEW p \in Procs, LockFails(p) PROVE FALSE
    BY <1>3 DEF LockFails
  <1>4. ASSUME NEW p \in Procs, Compare(p) \/ Fork(p) PROVE Locking'
    <2>1. /\ UNCHANGED <<archive, lock, sid, home, base, unlocked, astray>>
          /\ \A q \in Procs \ {p} : pc'[q] = pc[q] /\ dest'[q] = dest[q]
          /\ Saving(p)' => pc[p] = "compare" /\ ~Conflict(p)
          /\ pc'[p] # "compare"
      <3>1. CASE Compare(p)
        BY <3>1 DEF Compare, Typed, TypeOK
      <3>2. CASE Fork(p)
        <4>1. sid[p] # ids + 1
          BY <3>2, NextId DEF Fork
        <4> QED
          BY <3>2, <4>1 DEF Fork, Typed, TypeOK
      <3> QED
        BY <1>4, <3>1, <3>2
    <2>2. \A q \in Procs : Here(q)' = Here(q)
      BY <2>1 DEF Here
    <2> QED
      BY <2>1, <2>2
  <1>5. ASSUME NEW p \in Procs, SaveCopy(p) PROVE Locking'
    <2>1. /\ UNCHANGED <<lock, home, sid, base, dest, unlocked, astray>>
          /\ pc[p] = "copy" /\ pc' = [pc EXCEPT ![p] = "save"]
          /\ \A g \in Files : archive'[g] = archive[g]
      BY <1>5, CopySaved
    <2>2. /\ \A q \in Procs : Here(q)' = Here(q)
          /\ pc'[p] = "save" /\ \A q \in Procs \ {p} : pc'[q] = pc[q]
      BY <2>1 DEF Here, Typed, TypeOK
    <2> QED
      BY <1>0, <2>1, <2>2
  <1>6. ASSUME NEW p \in Procs, Save(p) PROVE Locking'
    <2>1. /\ pc[p] = "save" /\ pc'[p] \in {"prune", "refresh"}
          /\ \A g \in Copies \ {Target(p)} : archive'[g] = archive[g]
          /\ \A q \in Procs \ {p} : pc'[q] = pc[q] /\ sid'[q] = sid[q] /\ dest'[q] = dest[q]
          /\ UNCHANGED <<lock, home, base, unlocked, astray>>
      BY <1>6, FileSaved
    <2>2. \A q \in Procs \ {p} : Here(q)' = Here(q)
      BY <2>1 DEF Here
    <2>3. ASSUME NEW q \in Procs \ {p}, Saving(q), Here(q) \notin astray PROVE Here(q) # Target(p)
      <3>1. CASE dest[p] = sid[p]
        BY <2>1, <2>3, <3>1 DEF Here, Target
      <3>2. CASE dest[p] # sid[p]
        BY <2>1, <2>3, <3>2 DEF Fresh, Forking
      <3> QED
        BY <3>1, <3>2
    <2> QED
      BY <1>0, <2>1, <2>2, <2>3
  <1>7. ASSUME NEW p \in Procs, Prune(p) PROVE Locking'
    <2>1. /\ UNCHANGED <<home, sid, base, dest, lock, unlocked, astray>> /\ pc[p] = "prune"
          /\ pc' = [pc EXCEPT ![p] = "refresh"]
          /\ \A g \in Copies : archive'[g] \in {archive[g], None}
      BY <1>7, Pruned
    <2>2. /\ \A q \in Procs : Here(q)' = Here(q)
          /\ pc'[p] = "refresh" /\ \A q \in Procs \ {p} : pc'[q] = pc[q]
      BY <2>1 DEF Here, Typed, TypeOK
    <2> QED
      BY <1>0, <2>1, <2>2
  <1>8. ASSUME NEW p \in Procs, Unlock(p) \/ Crash(p) PROVE Locking'
    <2>1. /\ UNCHANGED <<archive, unlocked, astray>> /\ pc'[p] \in {"idle", "off"} /\ Released(p)
          /\ \A q \in Procs \ {p} : /\ pc'[q] = pc[q] /\ Here(q)' = Here(q) /\ base'[q] = base[q]
                                    /\ dest'[q] = dest[q] /\ sid'[q] = sid[q]
      BY <1>8 DEF Unlock, Crash, Here, Typed, TypeOK
    <2>2. \A f \in Files, q \in Procs \ {p} : lock[f] = q => lock'[f] = q
      BY <2>1 DEF Released
    <2> QED
      BY <1>0, <2>1, <2>2
  <1>9. CASE UNCHANGED vars
    BY <1>9 DEF vars, memory, Here
  <1> QED
    BY <1>1, <1>2, <1>3, <1>4, <1>5, <1>6, <1>7, <1>8, <1>9 DEF Next

\* The original is not overwritten: with its lock, with no race for a date and
\* with nobody who took a lesser copy for the file, no save takes messages away
\* from it.
THEOREM NothingLost == Spec => NoLostUpdate
  <1>1. ASSUME Typed, Fresh, Informed, Locking, [Next]_vars, ~unlocked, ~raced',
               NEW f \in Files \ astray
        PROVE  Keeps(f)
    <2> USE <1>1
    <2>0. f \in Copies
      BY DEF Files, Copies
    <2>1. ASSUME archive'[f] \in {archive[f], None} PROVE Keeps(f)
      BY <2>1 DEF Keeps
    <2>2. ASSUME NEW p \in Procs, Save(p) PROVE Keeps(f)
      <3>1. /\ pc[p] = "save" /\ ~raced /\ archive'[Target(p)].msgs = msgs[p]
            /\ \A g \in Copies \ {Target(p)} : archive'[g] = archive[g]
        BY <2>2, FileSaved
      <3>2. CASE f # Target(p)
        BY <2>0, <2>1, <3>1, <3>2
      <3>3. CASE f = Target(p) /\ dest[p] # sid[p]
        BY <3>1, <3>3 DEF Fresh, Forking, Keeps
      <3>4. CASE f = Target(p) /\ dest[p] = sid[p]
        <4>1. f = Here(p)
          BY <3>4 DEF Here, Target
        <4>2. ~Conflict(p) /\ (Unsaved(p) \/ Based(p))
          BY <3>1, <3>4, <4>1 DEF Locking, Saving, Informed, Resting
        <4>3. archive[f] # None => archive[f].msgs \subseteq msgs[p]
          BY <4>1, <4>2 DEF Unsaved, Based, Holds
        <4> QED
          BY <3>1, <3>4, <4>3 DEF Keeps
      <3> QED
        BY <3>2, <3>3, <3>4
    <2>3. ASSUME NEW p \in Procs, SaveCopy(p) PROVE Keeps(f)
      BY <2>1, <2>3, CopySaved
    <2>4. ASSUME NEW p \in Procs, Prune(p) PROVE Keeps(f)
      BY <2>0, <2>1, <2>4, Pruned
    <2>5. CASE UNCHANGED archive
      BY <2>1, <2>5
    <2> QED
      BY <2>2, <2>3, <2>4, <2>5
         DEF Next, vars, memory, NewSession, LoadSession, TakeBaseline, Reset, Chat, Persist,
             AcquireLock, LockFails, Compare, Fork, SaveFails, RefreshBaseline, Unlock, Crash
  <1>2. Typed /\ Fresh /\ Informed /\ Locking /\ [Next]_vars
           => [~unlocked /\ ~raced' => \A f \in Files \ astray : Keeps(f)]_vars
    BY <1>1
  <1> QED
    BY <1>2, InitTyped, StepTyped, InitFresh, StepFresh, InitInformed, StepInformed,
       InitLocking, StepLocking, PTL DEF Spec, NoLostUpdate
=============================================================================
