----------------------------- MODULE WebUI_Proofs -----------------------------
(***************************************************************************)
(* What the lists of the tab show, for any number of requests in flight:   *)
(* either an answer that will be heeded is still to come, and it is for    *)
(* what the heading says, or what is shown is already that.  An answer     *)
(* taken out of turn must therefore not take the awaited one with it.  The *)
(* file dialog, and a sidebar loaded by a closure of another project, are  *)
(* not of this kind, and nothing is claimed of them.                       *)
(***************************************************************************)
EXTENDS WebUI, TLAPS

\* An answered request is taken out of those in flight and no other is.
LEMMA Removed ==
  ASSUME NEW S, NEW s \in Seq(S), NEW i \in DOMAIN s
  PROVE  /\ RemoveAt(s, i) \in Seq(S)
         /\ \A k \in DOMAIN RemoveAt(s, i) : \E j \in DOMAIN s : RemoveAt(s, i)[k] = s[j]
         /\ \A j \in DOMAIN s : j # i => \E k \in DOMAIN RemoveAt(s, i) : RemoveAt(s, i)[k] = s[j]
  <1> DEFINE before == SubSeq(s, 1, i - 1)
             after  == SubSeq(s, i + 1, Len(s))
             rest   == RemoveAt(s, i)
  <1>1. before \in Seq(S) /\ Len(before) = i - 1 /\ \A k \in 1 .. i - 1 : before[k] = s[k]
    OBVIOUS
  <1>2. /\ after \in Seq(S) /\ Len(after) = Len(s) - i
        /\ \A k \in 1 .. Len(s) - i : after[k] = s[i + k]
    OBVIOUS
  <1>3. rest = before \o after
    BY DEF RemoveAt
  <1>4. i \in 1 .. Len(s) /\ Len(s) \in Nat
    OBVIOUS
  <1> HIDE DEF before, after, rest
  <1>5. rest \in Seq(S) /\ Len(rest) = Len(s) - 1
    BY <1>1, <1>2, <1>3, <1>4
  <1>6. \A k \in 1 .. i - 1 : rest[k] = s[k]
    BY <1>1, <1>2, <1>3, <1>4
  <1>7. ASSUME NEW k \in i .. Len(s) - 1 PROVE rest[k] = s[k + 1]
    <2>1. /\ k \in 1 .. Len(before) + Len(after) /\ ~(k <= Len(before))
          /\ k - Len(before) \in 1 .. Len(s) - i /\ i + (k - Len(before)) = k + 1
      BY <1>1, <1>2, <1>4
    <2>2. (before \o after)[k] = after[k - Len(before)]
      BY <2>1, <1>1, <1>2
    <2> QED
      BY <2>1, <2>2, <1>2, <1>3
  <1>8. DOMAIN rest = 1 .. Len(s) - 1 /\ DOMAIN s = 1 .. Len(s)
    BY <1>5
  <1>9. \A k \in DOMAIN rest : \E j \in DOMAIN s : rest[k] = s[j]
    <2> SUFFICES ASSUME NEW k \in DOMAIN rest PROVE \E j \in DOMAIN s : rest[k] = s[j]
      OBVIOUS
    <2>1. CASE k < i
      BY <2>1, <1>4, <1>6, <1>8
    <2>2. CASE k >= i
      BY <2>2, <1>4, <1>7, <1>8
    <2> QED
      BY <2>1, <2>2, <1>4, <1>8
  <1>10. \A j \in DOMAIN s : j # i => \E k \in DOMAIN rest : rest[k] = s[j]
    <2> SUFFICES ASSUME NEW j \in DOMAIN s, j # i PROVE \E k \in DOMAIN rest : rest[k] = s[j]
      OBVIOUS
    <2>1. CASE j < i
      BY <2>1, <1>4, <1>6, <1>8
    <2>2. CASE j > i
      <3>1. j - 1 \in i .. Len(s) - 1 /\ (j - 1) + 1 = j
        BY <2>2, <1>4, <1>8
      <3>2. rest[j - 1] = s[j] /\ j - 1 \in DOMAIN rest
        BY <3>1, <1>4, <1>7, <1>8
      <3> QED
        BY <3>2
    <2> QED
      BY <2>1, <2>2, <1>4, <1>8
  <1> QED
    BY <1>5, <1>9, <1>10 DEF rest

-----------------------------------------------------------------------------
\* The directory lists.

Request == [path : Paths \cup {HomeDir}, live : BOOLEAN]

\* What is shown is the listing of the path shown, or an answer is awaited.
Shows == listed \in {Canonical(browse), NoDir}

\* The dialogs count every request; the @ menu only the one for its path.
PickInv ==
    /\ asks \in Seq(Request) /\ browse \in Paths \cup {HomeDir}
    /\ picker = "cwd" => /\ \A k \in DOMAIN asks : asks[k].live
                         /\ asks = <<>> => Shows
    /\ picker = "at" => /\ \A k \in DOMAIN asks : asks[k].live => asks[k].path = browse
                        /\ Shows \/ \E k \in DOMAIN asks : asks[k].live

LEMMA InitPick == PickInit => PickInv
  <1> SUFFICES ASSUME PickInit PROVE PickInv
    OBVIOUS
  <1> DEFINE first == [path |-> browse, live |-> TRUE]
  <1>1. first \in Request /\ asks = <<first>>
    BY DEF PickInit, Request
  <1>2. asks \in Seq(Request) /\ DOMAIN asks = {1} /\ asks[1] = first
    BY <1>1
  <1> QED
    BY <1>2 DEF PickInit, PickInv, Shows

\* A new path is asked for last, and only the @ menu stops counting the rest.
LEMMA Browsed ==
  ASSUME NEW p \in Paths \cup {HomeDir}, NEW before \in Seq(Request), Browse(p, before), p # browse
  PROVE  /\ asks' \in Seq(Request) /\ DOMAIN asks' = 1 .. Len(before) + 1
         /\ asks'[Len(before) + 1] = [path |-> p, live |-> TRUE]
         /\ \A k \in 1 .. Len(before) : asks'[k] = Cancelled(before[k])
  <1> DEFINE old == [k \in DOMAIN before |-> Cancelled(before[k])]
             new == [path |-> p, live |-> TRUE]
  <1>1. new \in Request
    BY DEF Request
  <1>2. \A k \in DOMAIN before : Cancelled(before[k]) \in Request
    <2>1. \A a \in Request : Cancelled(a) \in Request
      BY DEF Cancelled, Request
    <2>2. \A k \in DOMAIN before : before[k] \in Request
      OBVIOUS
    <2> QED
      BY <2>1, <2>2
  <1>3. old \in Seq(Request) /\ Len(old) = Len(before) /\ \A k \in 1 .. Len(before) : old[k] = Cancelled(before[k])
    BY <1>2
  <1>4. asks' = Append(old, new)
    BY DEF Browse
  <1> HIDE DEF old, new
  <1>5. /\ asks' \in Seq(Request) /\ DOMAIN asks' = 1 .. Len(before) + 1
        /\ asks'[Len(before) + 1] = new
        /\ \A k \in 1 .. Len(before) : asks'[k] = Cancelled(before[k])
    BY <1>1, <1>3, <1>4
  <1> QED
    BY <1>5 DEF new

LEMMA EnterPick == ASSUME PickInv, NEW p \in Paths, Enter(p) PROVE PickInv'
  <1>1. CASE p = browse
    BY <1>1 DEF PickInv, Enter, Browse, Shows
  <1>2. CASE p # browse
    <2>1. /\ asks' \in Seq(Request) /\ DOMAIN asks' = 1 .. Len(asks) + 1
          /\ asks'[Len(asks) + 1] = [path |-> p, live |-> TRUE]
          /\ \A k \in 1 .. Len(asks) : asks'[k] = Cancelled(asks[k])
      BY <1>2, Browsed DEF PickInv, Enter
    <2>2. Len(asks) \in Nat /\ DOMAIN asks = 1 .. Len(asks) /\ \A k \in DOMAIN asks : asks[k] \in Request
      BY DEF PickInv
    <2>3. browse' = p /\ picker' = picker /\ resolved' = resolved
      BY DEF Enter, Browse
    <2>4. CASE picker = "cwd"
      <3>1. (\A k \in DOMAIN asks' : asks'[k].live) /\ asks' # <<>>
        BY <2>1, <2>2, <2>4 DEF PickInv, Cancelled
      <3> QED
        BY <2>1, <2>3, <2>4, <3>1 DEF PickInv
    <2>5. CASE picker = "file"
      BY <2>1, <2>3, <2>5 DEF PickInv, Enter
    <2>6. CASE picker = "at"
      <3>1. \A k \in 1 .. Len(asks) : ~asks'[k].live
        BY <2>1, <2>2, <2>6 DEF Cancelled, Request
      <3>2. /\ \A k \in DOMAIN asks' : asks'[k].live => asks'[k].path = browse'
            /\ \E k \in DOMAIN asks' : asks'[k].live
        BY <2>1, <2>2, <2>3, <3>1
      <3> QED
        BY <2>1, <2>3, <2>6, <3>2 DEF PickInv
    <2>7. CASE picker \notin {"cwd", "file", "at"}
      BY <2>1, <2>3, <2>7 DEF PickInv
    <2> QED
      BY <2>4, <2>5, <2>6, <2>7
  <1> QED
    BY <1>1, <1>2

\* An answer that does not count leaves everything but the requests alone.
LEMMA Ignored ==
  ASSUME PickInv, NEW i \in DOMAIN asks, ~asks[i].live, asks' = RemoveAt(asks, i),
         UNCHANGED <<picker, browse, listed, resolved>>
  PROVE  PickInv'
  <1>1. /\ asks' \in Seq(Request)
        /\ \A k \in DOMAIN asks' : \E j \in DOMAIN asks : asks'[k] = asks[j]
        /\ \A j \in DOMAIN asks : j # i => \E k \in DOMAIN asks' : asks'[k] = asks[j]
    BY Removed DEF PickInv
  <1>2. picker # "cwd"
    BY DEF PickInv
  <1>3. CASE picker = "at"
    <2>1. \A k \in DOMAIN asks' : asks'[k].live => asks'[k].path = browse'
      BY <1>1, <1>3 DEF PickInv
    <2>2. Shows' \/ \E k \in DOMAIN asks' : asks'[k].live
      BY <1>1, <1>3 DEF PickInv, Shows
    <2> QED
      BY <1>1, <1>3, <2>1, <2>2 DEF PickInv
  <1> QED
    BY <1>1, <1>2, <1>3 DEF PickInv

LEMMA ListedPick == ASSUME PickInv, NEW i \in DOMAIN asks, Listed(i) PROVE PickInv'
  <1> DEFINE rest == RemoveAt(asks, i)
  <1>1. CASE ~asks[i].live
    BY <1>1, Ignored DEF Listed
  <1>2. CASE asks[i].live
    <2>1. /\ rest \in Seq(Request)
          /\ \A k \in DOMAIN rest : \E j \in DOMAIN asks : rest[k] = asks[j]
      BY Removed DEF PickInv
    <2>2. asks[i] \in Request
      BY DEF PickInv
    <2>3. /\ listed' = Canonical(asks[i].path) /\ resolved' = Canonical(asks[i].path)
          /\ Browse(PathAfter(i), rest) /\ picker' = picker /\ browse' = PathAfter(i)
      BY <1>2 DEF Listed, Browse
    <2> HIDE DEF rest
    <2>4. PathAfter(i) \in Paths \cup {HomeDir}
      BY <2>2 DEF PathAfter, PickInv, Request, Canonical, Paths
    <2>5. CASE picker = "at"
      <3>1. PathAfter(i) = browse /\ asks[i].path = browse
        BY <1>2, <2>5 DEF PathAfter, PickInv
      <3>2. asks' = rest
        BY <2>3, <3>1 DEF Browse
      <3>3. \A k \in DOMAIN asks' : asks'[k].live => asks'[k].path = browse'
        BY <2>1, <2>3, <2>5, <3>1, <3>2 DEF PickInv
      <3>4. Shows'
        BY <2>3, <3>1 DEF Shows, Canonical
      <3> QED
        BY <2>1, <2>3, <2>4, <2>5, <3>2, <3>3, <3>4 DEF PickInv
    <2>6. CASE picker # "at"
      <3>1. /\ asks' \in Seq(Request)
            /\ \A k \in DOMAIN asks' :
                  asks'[k].live \/ \E j \in DOMAIN rest : asks'[k] = rest[j]
        <4>1. CASE PathAfter(i) = browse
          BY <2>1, <2>3, <4>1 DEF Browse
        <4>2. CASE PathAfter(i) # browse
          <5>1. /\ asks' \in Seq(Request) /\ DOMAIN asks' = 1 .. Len(rest) + 1
                /\ asks'[Len(rest) + 1] = [path |-> PathAfter(i), live |-> TRUE]
                /\ \A k \in 1 .. Len(rest) : asks'[k] = Cancelled(rest[k])
            BY <2>1, <2>3, <2>4, <4>2, Browsed
          <5>2. Len(rest) \in Nat /\ DOMAIN rest = 1 .. Len(rest)
            BY <2>1
          <5> QED
            BY <2>6, <5>1, <5>2 DEF Cancelled
        <4> QED
          BY <4>1, <4>2
      <3>2. picker = "cwd" => \A k \in DOMAIN asks' : asks'[k].live
        BY <2>1, <3>1 DEF PickInv
      <3>3. picker = "cwd" => Shows'
        BY <2>3 DEF PathAfter, Shows, Canonical
      <3> QED
        BY <2>3, <2>4, <2>6, <3>1, <3>2, <3>3 DEF PickInv
    <2> QED
      BY <2>5, <2>6
  <1> QED
    BY <1>1, <1>2

LEMMA FailsPick == ASSUME PickInv, NEW i \in DOMAIN asks, ListFails(i) PROVE PickInv'
  <1>1. CASE ~asks[i].live
    BY <1>1, Ignored DEF ListFails
  <1>2. CASE asks[i].live
    <2>1. /\ asks' \in Seq(Request)
          /\ \A k \in DOMAIN asks' : \E j \in DOMAIN asks : asks'[k] = asks[j]
      BY Removed DEF PickInv, ListFails
    <2>2. listed' = NoDir /\ picker' = picker /\ browse' = browse
      BY <1>2 DEF ListFails
    <2>3. Shows'
      BY <2>2 DEF Shows
    <2> QED
      BY <2>1, <2>2, <2>3 DEF PickInv
  <1> QED
    BY <1>1, <1>2

LEMMA StepPick == PickInv /\ [PickNext]_pickVars => PickInv'
  <1> SUFFICES ASSUME PickInv, [PickNext]_pickVars PROVE PickInv'
    OBVIOUS
  <1>1. CASE \E p \in Paths : Enter(p)
    BY <1>1, EnterPick
  <1>2. CASE \E i \in 1 .. MaxClicks + 2 : Listed(i) \/ ListFails(i)
    <2>1. PICK i : i \in DOMAIN asks /\ (Listed(i) \/ ListFails(i))
      BY <1>2 DEF Listed, ListFails
    <2> QED
      BY <2>1, ListedPick, FailsPick
  <1>3. CASE PickRow \/ Confirm \/ UNCHANGED pickVars
    BY <1>3 DEF PickInv, Shows, PickRow, Confirm, pickVars
  <1> QED
    BY <1>1, <1>2, <1>3 DEF PickNext

LEMMA ListingTruth == PickInv => ListingTrue
  BY DEF PickInv, ListingTrue, AllListed, Shows

-----------------------------------------------------------------------------
\* The sidebar and its search.

LoadOf   == [epoch : Nat, of : Projects]
SearchOf == [of : Queries \cup {Nothing}, live : BOOLEAN]

\* The newest load is of the project in view unless a dialog's closure made
\* it, and it is awaited or shown; the rest are of an earlier epoch.
BarInv ==
    /\ epoch \in Nat /\ lists \in Seq(LoadOf) /\ project \in Projects
    /\ dialog \in Projects \cup {Nothing}
    /\ \A k \in DOMAIN lists : lists[k].epoch <= epoch
    /\ foreign \/ \A k \in DOMAIN lists : lists[k].epoch = epoch => lists[k].of = project
    /\ \/ foreign \/ rows \in {project, Nothing}
       \/ \E k \in DOMAIN lists : lists[k].epoch = epoch

\* A search that counts is for the query in the box.
SearchInv ==
    /\ searches \in Seq(SearchOf) /\ query \in Queries \cup {Nothing}
    /\ \A k \in DOMAIN searches : searches[k].live => searches[k].of = query
    /\ query # Nothing /\ ~searching => hits \in {query, Nothing}

LEMMA InitList == ListInit => BarInv /\ SearchInv
  <1> SUFFICES ASSUME ListInit PROVE BarInv /\ SearchInv
    OBVIOUS
  <1> DEFINE first == [epoch |-> 1, of |-> project]
  <1>1. first \in LoadOf /\ lists = <<first>>
    BY DEF ListInit, LoadOf
  <1>2. lists \in Seq(LoadOf) /\ DOMAIN lists = {1} /\ lists[1] = first
    BY <1>1
  <1>3. BarInv
    BY <1>2 DEF ListInit, BarInv
  <1>4. SearchInv
    BY DEF ListInit, SearchInv
  <1> QED
    BY <1>3, <1>4

\* A load starts a new epoch, so that no load before it is the newest.
LEMMA LoadedAnew ==
  ASSUME BarInv, NEW p \in Projects, Load(p)
  PROVE  /\ epoch' \in Nat /\ lists' \in Seq(LoadOf)
         /\ \A k \in DOMAIN lists' : lists'[k].epoch <= epoch'
         /\ \A k \in DOMAIN lists' : lists'[k].epoch = epoch' => lists'[k].of = p
         /\ \E k \in DOMAIN lists' : lists'[k].epoch = epoch'
  <1> DEFINE new == [epoch |-> epoch + 1, of |-> p]
  <1>1. new \in LoadOf /\ epoch' = epoch + 1 /\ lists' = Append(lists, new)
    BY DEF Load, BarInv, LoadOf
  <1>2. new.epoch = epoch + 1 /\ new.of = p
    OBVIOUS
  <1> HIDE DEF new
  <1>3. /\ lists' \in Seq(LoadOf) /\ DOMAIN lists' = 1 .. Len(lists) + 1
        /\ Len(lists) \in Nat /\ DOMAIN lists = 1 .. Len(lists)
        /\ lists'[Len(lists) + 1] = new /\ \A k \in DOMAIN lists : lists'[k] = lists[k]
    BY <1>1 DEF BarInv
  <1>4. \A k \in DOMAIN lists : lists[k].epoch \in Nat /\ lists[k].epoch <= epoch
    <2>1. \A k \in DOMAIN lists : lists[k] \in LoadOf
      BY DEF BarInv
    <2>2. \A l \in LoadOf : l.epoch \in Nat
      BY DEF LoadOf
    <2> QED
      BY <2>1, <2>2 DEF BarInv
  <1>5. \A k \in DOMAIN lists' : \/ lists'[k] = new
                                 \/ lists'[k].epoch \in Nat /\ lists'[k].epoch <= epoch
    BY <1>3, <1>4
  <1> QED
    BY <1>1, <1>2, <1>3, <1>5 DEF BarInv

LEMMA StepBar == ASSUME BarInv, [ListNext]_listVars PROVE BarInv'
  <1>1. CASE \E p \in Projects : ShowProject(p)
    BY <1>1, LoadedAnew DEF ShowProject, BarInv
  <1>2. CASE DialogDone
    <2>1. dialog \in Projects /\ Load(dialog) /\ dialog' = Nothing
      BY <1>2 DEF DialogDone, BarInv
    <2>2. project' = project /\ (foreign' \/ dialog = project)
      BY <1>2 DEF DialogDone
    <2> QED
      BY <2>1, <2>2, LoadedAnew DEF BarInv
  <1>3. CASE \E i \in 1 .. MaxTouches + 2 : ListAnswered(i)
    <2>1. PICK i : ListAnswered(i)
      BY <1>3
    <2>2. i \in DOMAIN lists /\ lists' = RemoveAt(lists, i)
      BY <2>1 DEF ListAnswered
    <2>3. /\ lists' \in Seq(LoadOf)
          /\ \A k \in DOMAIN lists' : \E j \in DOMAIN lists : lists'[k] = lists[j]
          /\ \A j \in DOMAIN lists : j # i => \E k \in DOMAIN lists' : lists'[k] = lists[j]
      BY <2>2, Removed DEF BarInv
    <2>4. epoch' = epoch /\ project' = project /\ foreign' = foreign /\ dialog' = dialog
      BY <2>1 DEF ListAnswered
    <2>5. /\ \A k \in DOMAIN lists' : lists'[k].epoch <= epoch
          /\ foreign \/ \A k \in DOMAIN lists' : lists'[k].epoch = epoch => lists'[k].of = project
      BY <2>3 DEF BarInv
    <2>6. \/ foreign \/ rows' \in {project, Nothing}
          \/ \E k \in DOMAIN lists' : lists'[k].epoch = epoch
      <3>1. CASE Newest(lists[i])
        <4>1. rows' \in {lists[i].of, Nothing}
          BY <2>1, <3>1 DEF ListAnswered
        <4> QED
          BY <2>2, <3>1, <4>1 DEF BarInv, Newest
      <3>2. CASE ~Newest(lists[i])
        <4>1. rows' = rows
          BY <2>1, <3>2 DEF ListAnswered
        <4> QED
          BY <2>2, <2>3, <3>2, <4>1 DEF BarInv, Newest
      <3> QED
        BY <3>1, <3>2
    <2> QED
      BY <2>3, <2>4, <2>5, <2>6 DEF BarInv
  <1>4. CASE OpenDialog
    BY <1>4 DEF OpenDialog, BarInv
  <1>5. ASSUME UNCHANGED barVars PROVE BarInv'
    BY <1>5 DEF BarInv, barVars
  <1>6. CASE UNCHANGED listVars \/ Ask \/ \/ \E q \in Queries \cup {Nothing} : TypeQuery(q)
                                          \/ \E i \in 1 .. MaxTouches + 2 : SearchAnswered(i)
    BY <1>5, <1>6 DEF listVars, Ask, TypeQuery, SearchAnswered
  <1> QED
    BY <1>1, <1>2, <1>3, <1>4, <1>6 DEF ListNext

LEMMA StepSearch == ASSUME SearchInv, [ListNext]_listVars PROVE SearchInv'
  <1>1. CASE \E q \in Queries \cup {Nothing} : TypeQuery(q)
    <2>1. PICK q \in Queries \cup {Nothing} : TypeQuery(q)
      BY <1>1
    <2>2. /\ searches' = Dropped /\ query' = q /\ searching' = (q # Nothing)
      BY <2>1 DEF TypeQuery
    <2>3. \A a \in SearchOf : [a EXCEPT !.live = FALSE] \in SearchOf
      BY DEF SearchOf
    <2>4. \A k \in DOMAIN searches : searches[k] \in SearchOf
      BY DEF SearchInv
    <2>5. /\ searches' \in Seq(SearchOf) /\ DOMAIN searches' = DOMAIN searches
          /\ \A k \in DOMAIN searches : searches'[k] = [searches[k] EXCEPT !.live = FALSE]
      BY <2>2, <2>3, <2>4 DEF SearchInv, Dropped
    <2>6. \A k \in DOMAIN searches' : ~searches'[k].live
      BY <2>4, <2>5 DEF SearchOf
    <2> QED
      BY <2>2, <2>5, <2>6 DEF SearchInv
  <1>2. CASE Ask
    <2> DEFINE new == [of |-> query, live |-> TRUE]
    <2>1. new \in SearchOf /\ searches' = Append(searches, new)
      BY <1>2 DEF Ask, SearchInv, SearchOf
    <2>2. new.of = query
      OBVIOUS
    <2> HIDE DEF new
    <2>3. /\ searches' \in Seq(SearchOf)
          /\ \A k \in DOMAIN searches' : searches'[k] = new \/ \E j \in DOMAIN searches : searches'[k] = searches[j]
      BY <2>1 DEF SearchInv
    <2>4. query' = query /\ hits' = hits /\ searching' = searching
      BY <1>2 DEF Ask
    <2> QED
      BY <2>2, <2>3, <2>4 DEF SearchInv
  <1>3. CASE \E i \in 1 .. MaxTouches + 2 : SearchAnswered(i)
    <2>1. PICK i : SearchAnswered(i)
      BY <1>3
    <2>2. i \in DOMAIN searches /\ searches' = RemoveAt(searches, i) /\ query' = query
      BY <2>1 DEF SearchAnswered
    <2>3. /\ searches' \in Seq(SearchOf)
          /\ \A k \in DOMAIN searches' : \E j \in DOMAIN searches : searches'[k] = searches[j]
      BY <2>2, Removed DEF SearchInv
    <2>4. query # Nothing /\ ~searching' => hits' \in {query, Nothing}
      <3>1. CASE searches[i].live
        <4>1. hits' \in {searches[i].of, Nothing}
          BY <2>1, <3>1 DEF SearchAnswered
        <4> QED
          BY <2>2, <3>1, <4>1 DEF SearchInv
      <3>2. CASE ~searches[i].live
        <4>1. hits' = hits /\ (~searching' => ~searching)
          BY <2>1, <3>2 DEF SearchAnswered
        <4> QED
          BY <4>1 DEF SearchInv
      <3> QED
        BY <3>1, <3>2
    <2> QED
      BY <2>2, <2>3, <2>4 DEF SearchInv
  <1>4. ASSUME UNCHANGED searchVars PROVE SearchInv'
    BY <1>4 DEF SearchInv, searchVars
  <1>5. CASE \/ UNCHANGED listVars \/ OpenDialog \/ DialogDone
             \/ \E p \in Projects : ShowProject(p)
             \/ \E i \in 1 .. MaxTouches + 2 : ListAnswered(i)
    BY <1>4, <1>5 DEF listVars, OpenDialog, DialogDone, ShowProject, ListAnswered
  <1> QED
    BY <1>1, <1>2, <1>3, <1>5 DEF ListNext

LEMMA SidebarTruth == BarInv /\ SearchInv => SidebarFresh
  BY DEF BarInv, SearchInv, SidebarFresh, Loaded

-----------------------------------------------------------------------------
PanelInv == PickInv /\ BarInv /\ SearchInv

\* Once no awaited answer is out, the working directory dialog and the @ menu
\* list the directory of the path they show, the sidebar (unless a dialog's
\* closure of another project loaded it last) the sessions of its project, and
\* the search the hits of its query, whatever the order and number of answers.
THEOREM PanelsTrue == UISpec => []PanelsFresh
  <1>1. UIInit => PanelInv
    BY InitPick, InitList DEF UIInit, PanelInv
  <1>2. ASSUME PanelInv, [UINext]_uiVars PROVE PanelInv'
    <2>1. [PickNext]_pickVars
      BY <1>2 DEF UINext, uiVars, InTimers, InLive, InLogin, InInput, InPicker, InSidebar
    <2>2. [ListNext]_listVars
      BY <1>2 DEF UINext, uiVars, InTimers, InLive, InLogin, InInput, InPicker, InSidebar
    <2> QED
      BY <1>2, <2>1, <2>2, StepPick, StepBar, StepSearch DEF PanelInv
  <1>3. PanelInv => PanelsFresh
    BY ListingTruth, SidebarTruth DEF PanelInv, PanelsFresh
  <1> QED
    BY <1>1, <1>2, <1>3, PTL DEF UISpec

-----------------------------------------------------------------------------
\* While the sign-in button is busy a login of the present generation is waiting
\* for an answer or for its timer: an overtaken one never keeps it busy.
LoginUnderWay ==
    loginBusy => \E l \in Logins : /\ ~Overtaken(l)
                                  /\ at[l] \in {"start", "poll", "timer", "refresh", "cancel"}

\* with the types the functions need
LoginInv == /\ at \in [Logins -> {"none", "start", "poll", "timer", "refresh", "cancel", "over"}]
            /\ started \in [Logins -> Nat] /\ generation \in Nat
            /\ LoginUnderWay

LEMMA StepLogin == ASSUME LoginInv, [LoginNext]_loginVars PROVE LoginInv'
  <1> USE DEF LoginInv, LoginUnderWay, Overtaken
  <1>1. ASSUME NEW l \in Logins, StartLogin(l) PROVE LoginInv'
    BY <1>1 DEF StartLogin
  <1>2. ASSUME NEW l \in Logins, StartAnswered(l) PROVE LoginInv'
    BY <1>2 DEF StartAnswered
  <1>3. ASSUME NEW l, StopPolling(l) PROVE LoginInv'
    BY <1>3 DEF StopPolling
  <1>4. ASSUME NEW l \in Logins, PollAnswered(l) PROVE LoginInv'
    BY <1>3, <1>4 DEF PollAnswered, Schedule
  <1>5. ASSUME NEW l \in Logins, TimerFires(l) PROVE LoginInv'
    BY <1>5 DEF TimerFires
  <1>6. ASSUME NEW l \in Logins, Deadline(l) PROVE LoginInv'
    BY <1>6 DEF Deadline
  <1>7. CASE UNCHANGED loginVars
    BY <1>7 DEF loginVars
  <1> QED
    BY <1>1, <1>2, <1>3, <1>4, <1>5, <1>6, <1>7 DEF LoginNext, LoginStep, Finished, Logout

\* The button is never left busy by a login that was overtaken or is over (what
\* LoginEnds needs beside the fairness of answers and timers).
THEOREM BusyButtonHasLogin == UISpec => []LoginUnderWay
  <1>1. UIInit => LoginInv
    BY DEF UIInit, LoginInit, LoginInv, LoginUnderWay
  <1>2. ASSUME LoginInv, [UINext]_uiVars PROVE LoginInv'
    <2>1. [LoginNext]_loginVars
      BY <1>2 DEF UINext, uiVars, InTimers, InLive, InLogin, InInput, InPicker, InSidebar
    <2> QED
      BY <1>2, <2>1, StepLogin
  <1>3. LoginInv => LoginUnderWay
    BY DEF LoginInv
  <1> QED
    BY <1>1, <1>2, <1>3, PTL DEF UISpec
=============================================================================
