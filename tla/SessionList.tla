----------------------------- MODULE SessionList -----------------------------
(***************************************************************************)
(* The sidebar (Sidebar.tsx): the sessions of one project, loaded anew at  *)
(* every change and told apart by an epoch, and the search over all        *)
(* projects, debounced, where typing cancels what went before.             *)
(***************************************************************************)
EXTENDS Naturals, SequencesExt

CONSTANTS
    Projects,    \* viewProjectHash; one may stand for "not known yet"
    Queries,     \* what is searched for
    Nothing,     \* no list, no query, no dialog
    MaxTouches   \* what the user and the rest of the page do

VARIABLES
    project,     \* viewProjectHash
    epoch,       \* loadEpochRef
    lists,       \* loads in flight: epoch and project
    rows,        \* the project whose sessions are shown
    dialog,      \* a rename or delete under way: the project of its closure
    foreign,     \* the newest load was such a closure's, of another project
    query, debounce, searches, hits, searching,    \* the search dialog
    touches

barVars    == <<project, epoch, lists, rows, dialog, foreign>>
searchVars == <<query, debounce, searches, hits, searching>>
listVars   == <<barVars, searchVars, touches>>

ListInit ==
    /\ project \in Projects /\ epoch = 1 /\ lists = <<[epoch |-> 1, of |-> project]>>
    /\ rows = Nothing /\ dialog = Nothing /\ foreign = FALSE
    /\ query = Nothing /\ debounce = FALSE /\ searches = <<>> /\ hits = Nothing
    /\ searching = FALSE /\ touches = 0

Touch == touches < MaxTouches /\ touches' = touches + 1

\* loadSessions, as the closure of a render that showed p calls it
Load(p) ==
    /\ epoch' = epoch + 1
    /\ lists' = Append(lists, [epoch |-> epoch + 1, of |-> p])

\* another project, or a new reloadKey
ShowProject(p) ==
    /\ Touch /\ project' = p /\ Load(p) /\ foreign' = FALSE
    /\ UNCHANGED <<rows, dialog, searchVars>>

OpenDialog ==
    /\ Touch /\ dialog = Nothing /\ dialog' = project
    /\ UNCHANGED <<project, epoch, lists, rows, foreign, searchVars>>

\* handleRenamed and handleDeleted
DialogDone ==
    /\ dialog # Nothing /\ dialog' = Nothing
    /\ Load(dialog) /\ foreign' = (dialog # project)
    /\ UNCHANGED <<project, rows, searchVars, touches>>

\* Mutant: every answer is shown.
NewestAlways(l) == TRUE

Newest(l) == l.epoch = epoch

\* a list, or an empty one for an error
ListAnswered(i) ==
    /\ i \in DOMAIN lists /\ lists' = RemoveAt(lists, i)
    /\ \E got \in {lists[i].of, Nothing} : rows' = IF Newest(lists[i]) THEN got ELSE rows
    /\ UNCHANGED <<project, epoch, dialog, foreign, searchVars, touches>>

\* the cleanup of the search effect
Dropped == [i \in DOMAIN searches |-> [searches[i] EXCEPT !.live = FALSE]]

\* a query, or Nothing: cleared, or the dialog closed
TypeQuery(q) ==
    /\ Touch /\ q # query /\ query' = q
    /\ searches' = Dropped /\ debounce' = (q # Nothing)
    /\ searching' = (q # Nothing) /\ hits' = IF q = Nothing THEN Nothing ELSE hits
    /\ UNCHANGED barVars

Ask ==
    /\ debounce /\ debounce' = FALSE
    /\ searches' = Append(searches, [of |-> query, live |-> TRUE])
    /\ UNCHANGED <<barVars, query, hits, searching, touches>>

SearchAnswered(i) ==
    /\ i \in DOMAIN searches /\ searches' = RemoveAt(searches, i)
    /\ \E got \in {searches[i].of, Nothing} :
          hits' = IF searches[i].live THEN got ELSE hits
    /\ searching' = (searching /\ ~searches[i].live)
    /\ UNCHANGED <<barVars, query, debounce, touches>>

ListNext ==
    \/ \E p \in Projects : ShowProject(p)
    \/ OpenDialog \/ DialogDone \/ Ask
    \/ \E q \in Queries \cup {Nothing} : TypeQuery(q)
    \/ \E i \in 1 .. MaxTouches + 2 : ListAnswered(i) \/ SearchAnswered(i)

\* the newest load is answered
Loaded == ~\E i \in DOMAIN lists : lists[i].epoch = epoch

\* When the newest load is answered the list is of the project in view, and
\* the hits are of the query in the box, in whatever order answers come; a
\* dialog finished after its project was left (`foreign`) is SidebarOfProject's.
SidebarFresh ==
    /\ ~foreign /\ Loaded => rows \in {project, Nothing}
    /\ query # Nothing /\ ~searching => hits \in {query, Nothing}

\* The epoch keeps "the correct per-project list" from being clobbered: not by
\* the callback of a dialog whose request was answered after the view moved to
\* another project.  It loads with the closure of its render, as the newest.
SidebarOfProject == Loaded => rows \in {project, Nothing}
=============================================================================
