------------------------------- MODULE Pickers -------------------------------
(***************************************************************************)
(* Three lists of a directory's entries: the dialog that picks the working *)
(* directory (CwdPicker.tsx), the one that picks a file (FilePicker.tsx)   *)
(* and the @ menu under the input box (Chat.tsx).  Each asks the server    *)
(* again when its path changes and answers may come in any order; only the *)
(* @ menu drops the ones that were overtaken.                              *)
(***************************************************************************)
EXTENDS Naturals, SequencesExt

CONSTANTS
    Dirs,        \* directories by their canonical path
    HomeDir,     \* the one `~` stands for
    Tilde,       \* `~`, which the server normalises
    NoDir,       \* nothing listed
    MaxClicks    \* what the user does

\* what a crumb, a row or the input names
Paths == Dirs \cup {Tilde}
Canonical(p) == IF p = Tilde THEN HomeDir ELSE p

VARIABLES
    picker,      \* which of the three
    browse,      \* browsePath, atTargetDir
    listed,      \* the directory whose entries are shown
    resolved,    \* resolvedPath of the file dialog
    failed,      \* an error is shown
    loading,     \* no rows are shown until the answer
    asks,        \* listDir requests: their path, and whether they still count
    picked,      \* the directory picked, or the one of the file
    clicks

pickVars == <<picker, browse, listed, resolved, failed, loading, asks, picked, clicks>>

\* the effect of the first render asks for the first path
PickInit ==
    /\ picker \in {"cwd", "file", "at"} /\ browse \in Paths
    /\ listed = NoDir /\ resolved = browse /\ failed = FALSE
    /\ loading = TRUE /\ asks = <<[path |-> browse, live |-> TRUE]>> /\ picked = NoDir /\ clicks = 0

Click == picked = NoDir /\ clicks < MaxClicks /\ clicks' = clicks + 1

\* the cleanup of the @ menu's effect
Cancelled(a) == IF picker = "at" THEN [a EXCEPT !.live = FALSE] ELSE a

\* browsePath is set; if it changed, the effect asks anew.  `before` are the
\* requests still in flight.
Browse(p, before) ==
    /\ browse' = p
    /\ IF p = browse THEN asks' = before /\ UNCHANGED failed
       ELSE /\ asks' = Append([i \in DOMAIN before |-> Cancelled(before[i])],
                              [path |-> p, live |-> TRUE])
            /\ failed' = FALSE

\* a crumb, a subdirectory, a path typed, a project, a new folder; the @ menu
\* empties its list when a directory is chosen from it, not when one is typed
Enter(p) ==
    /\ Click /\ Browse(p, asks) /\ loading' = (loading \/ p # browse)
    /\ listed' \in IF picker = "at" THEN {listed, NoDir} ELSE {listed}
    /\ UNCHANGED <<picker, resolved, picked>>

\* the path shown after an answer; the file dialog compares it with the path
\* it asked for, not with the one shown by now
PathAfter(i) ==
    LET asked == asks[i].path IN
    IF picker = "cwd" \/ (picker = "file" /\ Canonical(asked) # asked)
    THEN Canonical(asked) ELSE browse

Listed(i) ==
    /\ i \in DOMAIN asks
    /\ IF ~asks[i].live
       THEN asks' = RemoveAt(asks, i) /\ UNCHANGED <<browse, listed, resolved, failed, loading>>
       ELSE /\ listed' = Canonical(asks[i].path)
            /\ resolved' = Canonical(asks[i].path)
            /\ Browse(PathAfter(i), RemoveAt(asks, i)) /\ loading' = (PathAfter(i) # browse)
    /\ UNCHANGED <<picker, picked, clicks>>

ListFails(i) ==
    /\ i \in DOMAIN asks /\ asks' = RemoveAt(asks, i)
    /\ IF asks[i].live THEN failed' = TRUE /\ listed' = NoDir /\ loading' = FALSE
                       ELSE UNCHANGED <<failed, listed, loading>>
    /\ UNCHANGED <<picker, browse, resolved, picked, clicks>>

\* a file is named by the resolved path, a row of the @ menu by the one typed
PickedPath == IF picker = "file" THEN resolved ELSE browse

\* the @ menu takes Enter while its rows are hidden
PickRow ==
    /\ Click /\ picker # "cwd" /\ listed # NoDir /\ (picker = "file" => ~loading)
    /\ picked' = PickedPath
    /\ UNCHANGED <<picker, browse, listed, resolved, failed, loading, asks>>

\* handleConfirm: whether the server agrees to the new directory or not
Confirm ==
    /\ Click /\ picker = "cwd" /\ picked' = browse
    /\ UNCHANGED <<picker, browse, listed, resolved, failed, loading, asks>>

PickNext == (\E p \in Paths : Enter(p)) \/ PickRow \/ Confirm
            \/ \E i \in 1 .. MaxClicks + 2 : Listed(i) \/ ListFails(i)

\* every answer is in, and rows are shown
AllListed == asks = <<>> /\ ~failed /\ listed # NoDir

\* Once every answer is in, in whatever order, the working directory dialog and
\* the @ menu list the directory they show the path of.
ListingTrue == picker \in {"cwd", "at"} /\ AllListed => listed = Canonical(browse)

\* "Joins the absolute path of the file: always the browsePath the server
\* normalised": it does not hold of the file dialog.  Of two listings the one
\* asked for first may be answered last; its rows then stand under the path of
\* the other, and a file picked is not of the path shown.
FilesOfHeading == picker = "file" /\ AllListed => resolved = Canonical(browse)
=============================================================================
