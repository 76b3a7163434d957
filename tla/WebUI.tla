-------------------------------- MODULE WebUI --------------------------------
(***************************************************************************)
(* The browser tab around the chat turn of WebChat: sync mode, the timers  *)
(* of its stream, sign-in, the question card, the directory lists and the  *)
(* sidebar.  The parts keep their own state and talk to the server, not to *)
(* each other, so an interleaving of two of them says no more than each by *)
(* itself: a behaviour of the tab is one of a part (`pane`) while the      *)
(* others rest where nothing is due.                                       *)
(***************************************************************************)
EXTENDS LiveReconnect, WebLive, Login, UserInput, Pickers, SessionList

VARIABLE pane

Panes == {"timers", "live", "login", "input", "picker", "sidebar"}

uiVars == <<pane, reconVars, liveVars, loginVars, inputVars, pickVars, listVars>>

\* where a part rests that is not looked at
AtRest ==
    /\ lroom = CHOOSE r \in Rooms : TRUE
    /\ pane # "live" => ~sync /\ room = NoRoom
    /\ pane # "input" => questions = <<"text">>
    /\ pane # "picker" => picker = "at" /\ browse = Tilde
    /\ pane # "sidebar" => project = CHOOSE p \in Projects : TRUE

UIInit ==
    /\ pane \in Panes
    /\ ReconInit /\ LiveInit /\ LoginInit /\ InputInit /\ PickInit /\ ListInit
    /\ AtRest

InTimers ==
    /\ pane = "timers" /\ ReconNext
    /\ UNCHANGED <<liveVars, loginVars, inputVars, pickVars, listVars>>
InLive ==
    /\ pane = "live" /\ LiveNext
    /\ UNCHANGED <<reconVars, loginVars, inputVars, pickVars, listVars>>
InLogin ==
    /\ pane = "login" /\ LoginNext
    /\ UNCHANGED <<reconVars, liveVars, inputVars, pickVars, listVars>>
InInput ==
    /\ pane = "input" /\ InputNext
    /\ UNCHANGED <<reconVars, liveVars, loginVars, pickVars, listVars>>
InPicker ==
    /\ pane = "picker" /\ PickNext
    /\ UNCHANGED <<reconVars, liveVars, loginVars, inputVars, listVars>>
InSidebar ==
    /\ pane = "sidebar" /\ ListNext
    /\ UNCHANGED <<reconVars, liveVars, loginVars, inputVars, pickVars>>

UINext ==
    /\ UNCHANGED pane
    /\ InTimers \/ InLive \/ InLogin \/ InInput \/ InPicker \/ InSidebar

\* a part at rest has no fair action enabled
UISpec == UIInit /\ [][UINext]_uiVars /\ LoginFairness

\* What a list shows is what its heading says: the directory lists, and the
\* sidebar with its search.
PanelsFresh == ListingTrue /\ SidebarFresh
=============================================================================
