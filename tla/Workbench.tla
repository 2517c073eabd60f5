----------------------------- MODULE Workbench -----------------------------
(***************************************************************************)
(* The browser page (server/static/app.js) against the HTTP handlers that  *)
(* answer it.  JavaScript runs to the next await, so one step of the page  *)
(* is one stretch of an async function; the answers it waits for arrive in *)
(* any order.                                                              *)
(*                                                                         *)
(* The page numbers the requests of a panel and drops an answer whose      *)
(* number was overtaken.  Here live[p] is the activation whose number is   *)
(* still the last one of panel p, None when the number was bumped without  *)
(* a request or its answer has come.                                       *)
(*                                                                         *)
(* What a snapshot contains is left open: a request about a view that was  *)
(* scanned may be answered or refused, whichever snapshot the handler      *)
(* found.  The diagram (layout, expansion, collapse, zoom), the review     *)
(* markers and the wording of alerts are left out.                         *)
(***************************************************************************)
EXTENDS Naturals, Sequences

CONSTANTS
    Views,        \* the language views of all projects
    ProjectOf,    \* the project of each view
    Symbols,      \* function identifiers
    Activations,  \* async functions of the page that can be suspended at once
    MaxHistory,   \* bound on the focus history
    None

ASSUME WorkbenchAssumption ==
    /\ MaxHistory \in Nat
    /\ None \notin Views \cup Symbols \cup Activations

VARIABLES
    scanned,    \* the views that have a snapshot
    loadState,  \* per view: unscanned, loading, ready, failed
    selected,   \* activeProject and activeLanguage
    call,       \* the suspended activations
    live,       \* per panel: the activation that may still render
    shown,      \* per panel: what it shows
    rootID, focusHistory, focusHistoryIndex,
    busy        \* the rescan button is disabled

engineVars == <<scanned, loadState>>
focusVars == <<rootID, focusHistory, focusHistoryIndex>>
vars == <<engineVars, selected, call, live, shown, focusVars, busy>>

Panels == {"search", "graph", "detail", "explorer", "git"}

\* What a panel shows: nothing, a message, or an answer about a view.
Blank(is) == [is |-> is, view |-> None]
About(view) == [is |-> "answer", view |-> view]

-----------------------------------------------------------------------------
(* Suspended activations *)

NoCall == [at |-> "idle", view |-> None]

\* back is the place in the history a focus navigates to, open whether it is to open
\* the details.
Fetch(at, view) == [at |-> at, view |-> view, id |-> None, back |-> 0, open |-> FALSE, stage |-> "sent"]

Sends(c, at, view) == call' = [call EXCEPT ![c] = Fetch(at, view)]
Returns(c) == call' = [call EXCEPT ![c] = NoCall]
Idle(c) == call[c].at = "idle"

Scans == {"select scan", "rescan scan"}

\* How a request may end: a scan as it ended, another one in 404 or 500, and in 200
\* only when its view has a snapshot.
Statuses(c) ==
    CASE call[c].at \in Scans -> {s \in {"200", "409", "500"} : call[c].stage = s}
      [] call[c].at = "list" -> {"200", "500"}
      [] OTHER -> {"404", "500"} \cup (IF call[c].view \in scanned THEN {"200"} ELSE {})

Succeeds(c, at) == call[c].at = at /\ "200" \in Statuses(c)
Fails(c, at) == call[c].at = at /\ Statuses(c) \ {"200"} # {}

-----------------------------------------------------------------------------
(* Scans in the engine *)

\* Scan: 409 while the view is being analyzed.
StartScan(c) ==
    /\ call[c].at \in Scans /\ call[c].stage = "sent"
    /\ IF loadState[call[c].view] = "loading"
       THEN call' = [call EXCEPT ![c].stage = "409"] /\ UNCHANGED loadState
       ELSE /\ call' = [call EXCEPT ![c].stage = "scanning"]
            /\ loadState' = [loadState EXCEPT ![call[c].view] = "loading"]
    /\ UNCHANGED <<scanned, selected, live, shown, focusVars, busy>>

FinishScan(c) ==
    /\ call[c].at \in Scans /\ call[c].stage = "scanning"
    /\ \/ /\ scanned' = scanned \cup {call[c].view}
          /\ loadState' = [loadState EXCEPT ![call[c].view] = "ready"]
          /\ call' = [call EXCEPT ![c].stage = "200"]
       \/ /\ loadState' = [loadState EXCEPT ![call[c].view] = "failed"]
          /\ call' = [call EXCEPT ![c].stage = "500"]
          /\ UNCHANGED scanned
    /\ UNCHANGED <<selected, live, shown, focusVars, busy>>

-----------------------------------------------------------------------------
(* Panels *)

\* Mutant: the panels are emptied, but answers under way may fill them.
Emptied_KeepNumbers(ps) ==
    /\ shown' = [p \in Panels |-> IF p \in ps THEN Blank("empty") ELSE shown[p]]
    /\ UNCHANGED live

\* The panels of ps are emptied, and no answer under way may fill them.
Emptied(ps) ==
    /\ live' = [p \in Panels |-> IF p \in ps THEN None ELSE live[p]]
    /\ shown' = [p \in Panels |-> IF p \in ps THEN Blank("empty") ELSE shown[p]]

\* resetProjectView.  The Git status stays until the next one arrives.
ResetProjectView ==
    /\ Emptied(Panels \ {"git"})
    /\ rootID' = None
    /\ focusHistory' = <<>>
    /\ focusHistoryIndex' = 0

\* The answer of c, or what stands for it, fills panel p unless c was overtaken.
Renders(c, p, what) ==
    IF live[p] = c
    THEN shown' = [shown EXCEPT ![p] = what] /\ live' = [live EXCEPT ![p] = None]
    ELSE UNCHANGED <<live, shown>>

\* A failure of c that is only an alert leaves panel p as it is.
Forgets(c, p) == live' = (IF live[p] = c THEN [live EXCEPT ![p] = None] ELSE live) /\ UNCHANGED shown

\* loadExplorer keeps the files it has until the answer comes.
LoadExplorer(c, at) ==
    /\ Sends(c, at, selected)
    /\ live' = [live EXCEPT !["explorer"] = c]

-----------------------------------------------------------------------------
(* Choosing what to look at *)

\* selectLanguage up to its first await: a scan unless the view is ready, as its option
\* in the selector, taken to be up to date, says.
SelectLanguage(c, v) ==
    /\ selected' = v
    /\ IF v # selected THEN ResetProjectView ELSE UNCHANGED <<live, shown, focusVars>>
    /\ IF loadState[v] = "ready"
       THEN Sends(c, "select git", v) /\ UNCHANGED busy
       ELSE Sends(c, "select scan", v) /\ busy' = TRUE
    /\ UNCHANGED engineVars

ChooseLanguage(c) ==
    /\ Idle(c) /\ selected # None
    /\ \E v \in Views \ {selected} : ProjectOf[v] = ProjectOf[selected] /\ SelectLanguage(c, v)

ChooseProject(c) ==
    /\ Idle(c) /\ selected # None
    /\ Sends(c, "list", None)
    /\ UNCHANGED <<engineVars, selected, live, shown, focusVars, busy>>

\* selectProject after its await goes on to the language saved for the project.
ProjectsArrive(c) ==
    \/ Succeeds(c, "list") /\ \E v \in Views : SelectLanguage(c, v)
    \/ /\ Fails(c, "list")
       /\ Returns(c)
       /\ UNCHANGED <<engineVars, selected, live, shown, focusVars, busy>>

\* The scan of selectLanguage, whose failure does not end the selection.
SelectScanArrives(c) ==
    /\ \/ Succeeds(c, "select scan") /\ shown' = [shown EXCEPT !["git"] = About(call[c].view)]
       \/ Fails(c, "select scan") /\ UNCHANGED shown
    /\ busy' = FALSE
    /\ Sends(c, "select git", selected)
    /\ UNCHANGED <<engineVars, selected, live, focusVars>>

\* Mutant: a Git status that could not be read ends the selection.
GitStatusArrives_Stop(c) ==
    /\ \/ /\ Succeeds(c, "select git")
          /\ shown' = [shown EXCEPT !["git"] = About(call[c].view)]
          /\ LoadExplorer(c, "files")
       \/ /\ Fails(c, "select git")
          /\ shown' = [shown EXCEPT !["git"] = Blank("empty")]
          /\ Returns(c)
          /\ UNCHANGED live
    /\ UNCHANGED <<engineVars, selected, focusVars, busy>>

\* loadGitStatus looks at no number.
GitStatusArrives(c) ==
    /\ \/ Succeeds(c, "select git") /\ shown' = [shown EXCEPT !["git"] = About(call[c].view)]
       \/ Fails(c, "select git") /\ shown' = [shown EXCEPT !["git"] = Blank("empty")]
    /\ LoadExplorer(c, "files")
    /\ UNCHANGED <<engineVars, selected, focusVars, busy>>

\* The files end a selection, and a rescan together with its spinner.
FilesArrive(c) ==
    /\ \E at \in {"files", "rescan files"} :
         /\ \/ Succeeds(c, at) /\ Renders(c, "explorer", About(call[c].view))
            \/ Fails(c, at) /\ Renders(c, "explorer", Blank("unavailable"))
         /\ busy' = (at = "files" /\ busy)
    /\ Returns(c)
    /\ UNCHANGED <<engineVars, selected, focusVars>>

-----------------------------------------------------------------------------
(* Searching, focusing, reading *)

Search(c) ==
    /\ Idle(c) /\ selected # None
    /\ Sends(c, "search", selected)
    /\ live' = [live EXCEPT !["search"] = c]
    /\ UNCHANGED <<engineVars, selected, shown, focusVars, busy>>

SearchArrives(c) ==
    /\ \/ Succeeds(c, "search") /\ Renders(c, "search", About(call[c].view))
       \/ Fails(c, "search") /\ Forgets(c, "search")
    /\ Returns(c)
    /\ UNCHANGED <<engineVars, selected, focusVars, busy>>

HideResults(graphNumber) ==
    /\ live' = [live EXCEPT !["search"] = None, !["graph"] = graphNumber]
    /\ shown' = [shown EXCEPT !["search"] = Blank("empty")]

\* focusGraph; focusing what is in focus only hides the results.
FocusGraph(c, id, back, open) ==
    /\ IF back = 0 /\ id = rootID
       THEN HideResults(live["graph"]) /\ UNCHANGED call
       ELSE /\ HideResults(c)
            /\ call' = [call EXCEPT ![c] = [Fetch("focus", selected) EXCEPT !.id = id, !.back = back, !.open = open]]
    /\ UNCHANGED <<engineVars, selected, focusVars, busy>>

\* A function of the results, the files, the diagram or, with its details, the changes.
ChooseFunction(c) ==
    /\ Idle(c) /\ selected # None
    /\ \E id \in Symbols, open \in BOOLEAN : FocusGraph(c, id, 0, open)

NavigateHistory(c) ==
    /\ Idle(c)
    /\ \E target \in DOMAIN focusHistory \cap {focusHistoryIndex - 1, focusHistoryIndex + 1} :
         FocusGraph(c, focusHistory[target], target, FALSE)

\* What a focus does to the history.
Recorded(c) ==
    /\ rootID' = call[c].id
    /\ IF call[c].back = 0
       THEN /\ focusHistoryIndex < MaxHistory
            /\ focusHistory' = Append(SubSeq(focusHistory, 1, focusHistoryIndex), call[c].id)
            /\ focusHistoryIndex' = focusHistoryIndex + 1
       ELSE focusHistoryIndex' = call[c].back /\ UNCHANGED focusHistory

\* The details a row of the change list asked for, whatever became of its focus.
GoesOn(c, numbers, panels) ==
    IF call[c].open
    THEN /\ Sends(c, "detail", selected)
         /\ live' = [numbers EXCEPT !["detail"] = c]
         /\ shown' = [panels EXCEPT !["detail"] = Blank("loading")]
    ELSE Returns(c) /\ live' = numbers /\ shown' = panels

\* Mutant: the history is written before the answer is known to be the awaited one.
FocusArrives_RecordFirst(c) ==
    /\ \/ /\ Succeeds(c, "focus")
          /\ Recorded(c)
          /\ GoesOn(c, live, IF live["graph"] = c THEN [shown EXCEPT !["graph"] = About(call[c].view)] ELSE shown)
       \/ /\ Fails(c, "focus")
          /\ GoesOn(c, live, shown)
          /\ UNCHANGED focusVars
    /\ UNCHANGED <<engineVars, selected, busy>>

\* The graph of the focused function replaces the one shown, and the details close.
FocusArrives(c) ==
    /\ \/ /\ Succeeds(c, "focus") /\ live["graph"] = c
          /\ Recorded(c)
          /\ GoesOn(c, [live EXCEPT !["graph"] = None, !["detail"] = None],
                       [shown EXCEPT !["graph"] = About(call[c].view), !["detail"] = Blank("empty")])
       \/ /\ Succeeds(c, "focus") /\ live["graph"] # c
          /\ GoesOn(c, live, shown)
          /\ UNCHANGED focusVars
       \/ /\ Fails(c, "focus")
          /\ GoesOn(c, IF live["graph"] = c THEN [live EXCEPT !["graph"] = None] ELSE live, shown)
          /\ UNCHANGED focusVars
    /\ UNCHANGED <<engineVars, selected, busy>>

\* loadGraph: the direction or the test filter changed.
LoadGraph(c) ==
    /\ Idle(c) /\ rootID # None
    /\ Sends(c, "reload", selected)
    /\ live' = [live EXCEPT !["graph"] = c]
    /\ UNCHANGED <<engineVars, selected, shown, focusVars, busy>>

ReloadArrives(c) ==
    /\ \/ Succeeds(c, "reload") /\ Renders(c, "graph", About(call[c].view))
       \/ Fails(c, "reload") /\ Forgets(c, "graph")
    /\ Returns(c)
    /\ UNCHANGED <<engineVars, selected, focusVars, busy>>

ShowDetail(c) ==
    /\ Idle(c) /\ selected # None
    /\ Sends(c, "detail", selected)
    /\ live' = [live EXCEPT !["detail"] = c]
    /\ shown' = [shown EXCEPT !["detail"] = Blank("loading")]
    /\ UNCHANGED <<engineVars, selected, focusVars, busy>>

HideDetail ==
    /\ shown["detail"].is # "empty"
    /\ Emptied({"detail"})
    /\ UNCHANGED <<engineVars, selected, call, focusVars, busy>>

DetailArrives(c) ==
    /\ \/ Succeeds(c, "detail") /\ Renders(c, "detail", About(call[c].view))
       \/ Fails(c, "detail") /\ Renders(c, "detail", Blank("unavailable"))
    /\ Returns(c)
    /\ UNCHANGED <<engineVars, selected, focusVars, busy>>

-----------------------------------------------------------------------------
(* Rescanning *)

Rescan(c) ==
    /\ Idle(c) /\ ~busy /\ selected # None
    /\ Sends(c, "rescan scan", selected)
    /\ busy' = TRUE
    /\ UNCHANGED <<engineVars, selected, live, shown, focusVars>>

\* The change list is replaced, details and results close, and the graph, the results
\* or, with neither, the files are asked for again.
RescanArrives(c) ==
    /\ Succeeds(c, "rescan scan")
    /\ LET hidden == [live EXCEPT !["detail"] = None, !["search"] = None]
       IN  \/ rootID # None /\ Sends(c, "rescan graph", selected) /\ live' = hidden
           \/ /\ rootID = None
              /\ Sends(c, "rescan search", selected)
              /\ live' = [hidden EXCEPT !["search"] = c]
           \/ /\ rootID = None
              /\ Sends(c, "rescan files", selected)
              /\ live' = [hidden EXCEPT !["explorer"] = c]
    /\ shown' = [shown EXCEPT !["git"] = About(call[c].view), !["detail"] = Blank("empty"), !["search"] = Blank("empty")]
    /\ UNCHANGED <<engineVars, selected, focusVars, busy>>

\* The graph looks at no number either.
RescanGraphArrives(c) ==
    /\ Succeeds(c, "rescan graph")
    /\ shown' = [shown EXCEPT !["graph"] = About(call[c].view)]
    /\ LoadExplorer(c, "rescan files")
    /\ UNCHANGED <<engineVars, selected, focusVars, busy>>

\* showEmptyAfterRescan: 404 is taken for a function that was removed.
RootIsGone(c) ==
    /\ call[c].at = "rescan graph" /\ "404" \in Statuses(c)
    /\ shown' = [shown EXCEPT !["graph"] = Blank("empty")]
    /\ Sends(c, "rescan files", selected)
    /\ live' = [live EXCEPT !["graph"] = None, !["explorer"] = c]
    /\ rootID' = None
    /\ UNCHANGED <<engineVars, selected, focusHistory, focusHistoryIndex, busy>>

RescanSearchArrives(c) ==
    /\ Succeeds(c, "rescan search")
    /\ shown' = IF live["search"] = c THEN [shown EXCEPT !["search"] = About(call[c].view)] ELSE shown
    /\ Sends(c, "rescan files", selected)
    /\ live' = [live EXCEPT !["search"] = IF @ = c THEN None ELSE @, !["explorer"] = c]
    /\ UNCHANGED <<engineVars, selected, focusVars, busy>>

RescanFails(c) ==
    /\ \/ Fails(c, "rescan scan") \/ Fails(c, "rescan search")
       \/ call[c].at = "rescan graph" /\ "500" \in Statuses(c)
    /\ Forgets(c, "search")
    /\ Returns(c)
    /\ busy' = FALSE
    /\ UNCHANGED <<engineVars, selected, focusVars>>

-----------------------------------------------------------------------------

Arrivals(c) ==
    \/ ProjectsArrive(c) \/ SelectScanArrives(c) \/ GitStatusArrives(c) \/ FilesArrive(c)
    \/ SearchArrives(c) \/ FocusArrives(c) \/ ReloadArrives(c) \/ DetailArrives(c)
    \/ RescanArrives(c) \/ RescanGraphArrives(c) \/ RootIsGone(c) \/ RescanSearchArrives(c) \/ RescanFails(c)

Clicks(c) ==
    \/ ChooseLanguage(c) \/ ChooseProject(c) \/ Search(c) \/ ChooseFunction(c) \/ NavigateHistory(c)
    \/ LoadGraph(c) \/ ShowDetail(c) \/ Rescan(c)

\* initializeProjects: the page starts by asking for the projects.
Init ==
    /\ scanned = {}
    /\ loadState = [v \in Views |-> "unscanned"]
    /\ selected = None
    /\ \E c \in Activations : call = [d \in Activations |-> IF d = c THEN Fetch("list", None) ELSE NoCall]
    /\ live = [p \in Panels |-> None]
    /\ shown = [p \in Panels |-> Blank("empty")]
    /\ rootID = None
    /\ focusHistory = <<>>
    /\ focusHistoryIndex = 0
    /\ busy = FALSE

Next ==
    \/ \E c \in Activations : StartScan(c) \/ FinishScan(c) \/ Arrivals(c) \/ Clicks(c)
    \/ HideDetail

Spec == Init /\ [][Next]_vars

-----------------------------------------------------------------------------
(* Properties *)

AtRest == \A c \in Activations : Idle(c)

\* Results, details and files on the page are about the selected view, however late
\* the answers about another one arrive.
SelectedViewOnly ==
    \A p \in {"search", "detail", "explorer"} :
        shown[p].is = "answer" => shown[p].view = selected

\* When nothing is under way no panel waits: a view that is selected has its files
\* listed or declared unavailable, and no detail panel is still loading.
PanelsSettle ==
    AtRest => /\ shown["detail"].is # "loading"
              /\ selected # None => shown["explorer"].is # "empty"

\* The function in focus is where the history stands, so that back and forward lead
\* from it to its neighbours, whatever focus, navigation, switch or rescan overtook.
HistoryMatchesRoot ==
    rootID # None => /\ focusHistoryIndex \in DOMAIN focusHistory
                     /\ focusHistory[focusHistoryIndex] = rootID

\* The user guide says that the branch label and the change list describe the code
\* shown by Flowmap.  This fails: loadGitStatus keeps no number, and an answer about a
\* view that was left can be the last to arrive.
GitDescribesCodeShown ==
    AtRest /\ shown["git"].is = "answer" => shown["git"].view = selected
=============================================================================
