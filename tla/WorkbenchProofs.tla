--------------------------- MODULE WorkbenchProofs ---------------------------
(***************************************************************************)
(* Theorems about Workbench, for any views, symbols and number of          *)
(* suspended activations, and whatever order the answers arrive in.        *)
(***************************************************************************)
EXTENDS WorkbenchInvariant, SequenceTheorems, TLAPS

-----------------------------------------------------------------------------
(* Calls and panels.                                                       *)

\* A fetch is a call from the moment it is sent.
LEMMA FetchTyped ==
    ASSUME NEW at \in Places, NEW view \in Views \cup {None}
    PROVE  /\ Fetch(at, view) \in Calls
           /\ Fetch(at, view).at = at /\ Fetch(at, view).view = view
           /\ Fetch(at, view).back = 0 /\ Fetch(at, view).open = FALSE
           /\ Fetch(at, view).id = None /\ Fetch(at, view).stage = "sent"
BY DEF Fetch, Calls

\* Whoever is somewhere waits for an answer.
LEMMA CallTyped ==
    ASSUME PageTypes, NEW c \in Activations, call[c].at \in Places
    PROVE  call[c] \in Calls
<1>1. call[c] \in Calls \cup {NoCall}
  BY DEF PageTypes
<1>2. NoCall.at = "idle" /\ "idle" \notin Places
  BY DEF NoCall, Places
<1>3. QED
  BY <1>1, <1>2

\* What sending does to the calls.
LEMMA Sent ==
    ASSUME PageTypes, NEW c \in Activations, NEW at \in Places, NEW view \in Views \cup {None},
           Sends(c, at, view)
    PROVE  /\ call'[c] \in Calls /\ call'[c].at = at /\ call'[c].view = view
           /\ \A d \in Activations \ {c} : call'[d] = call[d]
           /\ call' \in [Activations -> Calls \cup {NoCall}]
<1>1. call' = [call EXCEPT ![c] = Fetch(at, view)]
  BY DEF Sends
<1>2. call \in [Activations -> Calls \cup {NoCall}]
  BY DEF PageTypes
<1>3. QED
  BY <1>1, <1>2, FetchTyped

\* What returning does to the calls.
LEMMA Returned ==
    ASSUME PageTypes, NEW c \in Activations, Returns(c)
    PROVE  /\ call'[c] = NoCall /\ call'[c].at = "idle"
           /\ \A d \in Activations \ {c} : call'[d] = call[d]
           /\ call' \in [Activations -> Calls \cup {NoCall}]
BY DEF PageTypes, Returns, NoCall

LEMMA BlankTyped ==
    /\ \A is \in {"empty", "loading", "unavailable"} : Blank(is) \in Contents /\ Blank(is).is = is
    /\ \A view \in Views \cup {None} : /\ About(view) \in Contents
                                       /\ About(view).is = "answer" /\ About(view).view = view
BY DEF Blank, About, Contents

\* Whoever may fill a panel waits for its answer, about the selected view.
LEMMA OwnPanel ==
    ASSUME LiveAsksSelected, NEW c \in Activations, NEW p \in Panels, live[p] = c
    PROVE  call[c].at \in Awaits(p) /\ call[c].view = selected
BY WorkbenchAssumption DEF LiveAsksSelected

\* An activation waits for at most one panel.
LEMMA AwaitsOne ==
    ASSUME NEW p \in Panels, NEW q \in Panels, p # q
    PROVE  Awaits(p) \cap Awaits(q) = {}
<1>1. /\ Awaits("search") = {"search", "rescan search"} /\ Awaits("graph") = {"focus", "reload"}
      /\ Awaits("detail") = {"detail"} /\ Awaits("explorer") = {"files", "rescan files"}
      /\ Awaits("git") = {}
  BY DEF Awaits
<1>2. ASSUME NEW at, at \in Awaits(p), at \in Awaits(q) PROVE FALSE
  <2>1. CASE p = "search"
    BY <1>1, <1>2, <2>1 DEF Panels
  <2>2. CASE p = "graph"
    BY <1>1, <1>2, <2>2 DEF Panels
  <2>3. CASE p = "detail"
    BY <1>1, <1>2, <2>3 DEF Panels
  <2>4. CASE p = "explorer"
    BY <1>1, <1>2, <2>4 DEF Panels
  <2>5. CASE p = "git"
    BY <1>1, <1>2, <2>5 DEF Panels
  <2>6. QED
    BY <2>1, <2>2, <2>3, <2>4, <2>5 DEF Panels
<1>3. QED
  BY <1>2

\* What filling a panel does to the panels.
LEMMA Rendered ==
    ASSUME PageTypes, NEW c \in Activations, NEW p \in Panels, NEW what \in Contents,
           Renders(c, p, what)
    PROVE  /\ live' \in [Panels -> Activations \cup {None}] /\ shown' \in [Panels -> Contents]
           /\ \A q \in Panels \ {p} : live'[q] = live[q] /\ shown'[q] = shown[q]
           /\ live'[p] # c /\ live'[p] \in {None, live[p]}
           /\ \/ live[p] = c /\ shown'[p] = what
              \/ live'[p] = live[p] /\ shown'[p] = shown[p]
<1>1. c # None
  BY WorkbenchAssumption
<1>2. live \in [Panels -> Activations \cup {None}] /\ shown \in [Panels -> Contents]
  BY DEF PageTypes
<1>3. CASE live[p] = c
  BY <1>1, <1>2, <1>3 DEF Renders
<1>4. CASE live[p] # c
  BY <1>1, <1>2, <1>4 DEF Renders
<1>5. QED
  BY <1>3, <1>4

\* What giving a panel up does to the panels.
LEMMA Forgotten ==
    ASSUME PageTypes, NEW c \in Activations, NEW p \in Panels, Forgets(c, p)
    PROVE  /\ live' \in [Panels -> Activations \cup {None}] /\ shown' = shown
           /\ \A q \in Panels \ {p} : live'[q] = live[q]
           /\ live'[p] # c /\ live'[p] \in {None, live[p]}
<1>1. c # None
  BY WorkbenchAssumption
<1>2. live \in [Panels -> Activations \cup {None}]
  BY DEF PageTypes
<1>3. QED
  BY <1>1, <1>2 DEF Forgets

\* What the page needs of a step of activation c that leaves the selection alone.
LEMMA PageFrame ==
    ASSUME PageTypes, LiveAsksSelected, SelectedViewOnly, NEW c \in Activations,
           selected' = selected, busy' \in BOOLEAN,
           call' \in [Activations -> Calls \cup {NoCall}],
           \A d \in Activations \ {c} : call'[d] = call[d],
           live' \in [Panels -> Activations \cup {None}],
           \A p \in Panels :
               /\ live'[p] \in {None, c, live[p]}
               /\ live'[p] = c => call'[c].at \in Awaits(p) /\ call'[c].view = selected,
           shown' \in [Panels -> Contents],
           \A p \in {"search", "detail", "explorer"} :
               \/ shown'[p] = shown[p]
               \/ shown'[p].is # "answer"
               \/ shown'[p].view = selected,
           WaitingPanelsAwaited,
           \/ shown'["detail"].is # "loading" \/ live'["detail"] = c
           \/ shown'["detail"] = shown["detail"] /\ live'["detail"] = live["detail"],
           \/ shown'["explorer"].is # "empty" \/ live'["explorer"] = c
           \/ call'[c].at \in {"select scan", "select git"}
           \/ /\ shown'["explorer"] = shown["explorer"] /\ live'["explorer"] = live["explorer"]
              /\ call[c].at \notin {"select scan", "select git"}
    PROVE  PageTypes' /\ LiveAsksSelected' /\ SelectedViewOnly' /\ WaitingPanelsAwaited'
<1>1. PageTypes'
  BY DEF PageTypes
<1>2. ASSUME NEW p \in Panels, live'[p] # None
      PROVE  call'[live'[p]].at \in Awaits(p) /\ call'[live'[p]].view = selected'
  <2>1. CASE live'[p] = c
    BY <2>1
  <2>2. CASE live'[p] = live[p] /\ live[p] # c
    <3>1. live[p] \in Activations \ {c}
      BY <1>2, <2>2 DEF PageTypes
    <3>2. call[live[p]].at \in Awaits(p) /\ call[live[p]].view = selected
      BY <1>2, <2>2 DEF LiveAsksSelected
    <3>3. call'[live[p]] = call[live[p]] /\ selected' = selected
      BY <3>1
    <3>4. QED
      BY <2>2, <3>2, <3>3
  <2>3. QED
    BY <1>2, <2>1, <2>2
<1>3. LiveAsksSelected'
  BY <1>2 DEF LiveAsksSelected, Awaits
<1>4. SelectedViewOnly'
  BY DEF SelectedViewOnly
<1>5. WaitingPanelsAwaited'
  <2>1. c # None
    BY WorkbenchAssumption
  <2>2. shown'["detail"].is = "loading" => live'["detail"] # None
    BY <2>1 DEF WaitingPanelsAwaited
  <2>3. call'[c].at \in {"select scan", "select git"} => SelectionUnderWay'
    BY DEF SelectionUnderWay
  <2>4. call[c].at \notin {"select scan", "select git"} /\ SelectionUnderWay => SelectionUnderWay'
    BY DEF SelectionUnderWay
  <2>5. selected # None /\ shown'["explorer"].is = "empty" =>
          live'["explorer"] # None \/ SelectionUnderWay'
    BY <2>1, <2>3, <2>4 DEF WaitingPanelsAwaited
  <2>6. QED
    BY <2>2, <2>5 DEF WaitingPanelsAwaited
<1>6. QED
  BY <1>1, <1>3, <1>4, <1>5

\* What the focus needs of a step of activation c that leaves the history alone.
LEMMA FocusFrame ==
    ASSUME PageTypes, FocusTypes, FocusStaysInHistory, HistoryMatchesRoot, NEW c \in Activations,
           UNCHANGED <<focusHistory, focusHistoryIndex>>, rootID' \in {rootID, None},
           \A d \in Activations \ {c} : /\ call'[d] = call[d]
                                        /\ live'["graph"] = d => live["graph"] = d,
           call'[c].at = "focus" =>
               /\ call'[c].id \in Symbols
               /\ live'["graph"] = c /\ call'[c].back # 0 =>
                     /\ call'[c].back \in DOMAIN focusHistory
                     /\ focusHistory[call'[c].back] = call'[c].id
    PROVE  FocusTypes' /\ FocusStaysInHistory' /\ HistoryMatchesRoot'
<1>1. FocusTypes' /\ HistoryMatchesRoot'
  BY DEF FocusTypes, HistoryMatchesRoot
<1>2. FocusStaysInHistory'
  BY DEF FocusStaysInHistory
<1>3. QED
  BY <1>1, <1>2

\* What the engine's part needs of a step of activation c that scans nothing.
LEMMA EngineFrame ==
    ASSUME EngineTypes, NEW c \in Activations, UNCHANGED engineVars,
           \A d \in Activations \ {c} : call'[d] = call[d],
           call'[c].at \in Scans => call'[c].view \in Views
    PROVE  EngineTypes'
BY DEF EngineTypes, engineVars, Scans

\* The three together: a step of activation c that changes neither the engine, nor the
\* selection, nor the history.
LEMMA QuietStep ==
    ASSUME Inductive, NEW c \in Activations,
           UNCHANGED <<engineVars, selected, focusHistory, focusHistoryIndex>>,
           rootID' \in {rootID, None}, busy' \in BOOLEAN,
           call' \in [Activations -> Calls \cup {NoCall}],
           \A d \in Activations \ {c} : call'[d] = call[d],
           live' \in [Panels -> Activations \cup {None}],
           \A p \in Panels :
               /\ live'[p] \in {None, c, live[p]}
               /\ live'[p] = c => call'[c].at \in Awaits(p) /\ call'[c].view = selected,
           shown' \in [Panels -> Contents],
           \A p \in {"search", "detail", "explorer"} :
               \/ shown'[p] = shown[p]
               \/ shown'[p].is # "answer"
               \/ shown'[p].view = selected,
           \/ shown'["detail"].is # "loading" \/ live'["detail"] = c
           \/ shown'["detail"] = shown["detail"] /\ live'["detail"] = live["detail"],
           \/ shown'["explorer"].is # "empty" \/ live'["explorer"] = c
           \/ call'[c].at \in {"select scan", "select git"}
           \/ /\ shown'["explorer"] = shown["explorer"] /\ live'["explorer"] = live["explorer"]
              /\ call[c].at \notin {"select scan", "select git"},
           call'[c].at = "focus" =>
               /\ call'[c].id \in Symbols
               /\ live'["graph"] = c /\ call'[c].back # 0 =>
                     /\ call'[c].back \in DOMAIN focusHistory
                     /\ focusHistory[call'[c].back] = call'[c].id,
           call'[c].at \in Scans => call'[c].view \in Views
    PROVE  Inductive'
<1>0. /\ PageTypes /\ FocusTypes /\ EngineTypes
      /\ LiveAsksSelected /\ SelectedViewOnly /\ WaitingPanelsAwaited
      /\ FocusStaysInHistory /\ HistoryMatchesRoot
  BY DEF Inductive, TypeOK
<1>1. PageTypes' /\ LiveAsksSelected' /\ SelectedViewOnly' /\ WaitingPanelsAwaited'
  BY <1>0, PageFrame
<1>2. EngineTypes'
  BY <1>0, EngineFrame
<1>3. \A d \in Activations \ {c} : live'["graph"] = d => live["graph"] = d
  BY WorkbenchAssumption DEF Panels
<1>4. FocusTypes' /\ FocusStaysInHistory' /\ HistoryMatchesRoot'
  BY <1>0, <1>3, FocusFrame
<1>5. QED
  BY <1>1, <1>2, <1>4 DEF Inductive, TypeOK

LEMMA InitInductive == Init => Inductive
<1> SUFFICES ASSUME Init PROVE Inductive
  OBVIOUS
<1>1. /\ live = [p \in Panels |-> None] /\ shown = [p \in Panels |-> Blank("empty")]
      /\ \A p \in Panels : live[p] = None /\ shown[p].is = "empty"
      /\ selected = None /\ rootID = None
  BY BlankTyped DEF Init
<1>2. PICK c \in Activations : call = [d \in Activations |-> IF d = c THEN Fetch("list", None) ELSE NoCall]
  BY DEF Init
<1>3. Fetch("list", None) \in Calls /\ Fetch("list", None).at = "list"
  <2>1. "list" \in Places /\ None \in Views \cup {None}
    BY DEF Places
  <2>2. QED
    BY <2>1, FetchTyped
<1>4. /\ call \in [Activations -> Calls \cup {NoCall}]
      /\ \A d \in Activations : call[d].at \in {"list", "idle"}
  <2>1. NoCall.at = "idle"
    BY DEF NoCall
  <2>2. QED
    BY <1>2, <1>3, <2>1
<1>5. PageTypes
  <2>1. Blank("empty") \in Contents /\ busy = FALSE
    BY BlankTyped DEF Init
  <2>2. QED
    BY <1>1, <1>4, <2>1 DEF PageTypes
<1>6. FocusTypes /\ EngineTypes
  <2>1. /\ rootID = None /\ focusHistory = <<>> /\ focusHistoryIndex = 0
        /\ scanned = {} /\ loadState = [v \in Views |-> "unscanned"]
    BY DEF Init
  <2>2. FocusTypes
    BY <2>1 DEF FocusTypes
  <2>3. EngineTypes
    BY <1>4, <2>1 DEF EngineTypes, Scans
  <2>4. QED
    BY <2>2, <2>3
<1>7. QED
  BY <1>1, <1>4, <1>5, <1>6 DEF Inductive, TypeOK, LiveAsksSelected, SelectedViewOnly,
     WaitingPanelsAwaited, FocusStaysInHistory, HistoryMatchesRoot, Panels

-----------------------------------------------------------------------------
(* Scans.                                                                  *)

LEMMA ScanKeeps ==
    ASSUME Inductive, NEW c \in Activations, StartScan(c) \/ FinishScan(c)
    PROVE  Inductive'
<1>0. /\ PageTypes /\ FocusTypes /\ EngineTypes
      /\ LiveAsksSelected /\ SelectedViewOnly /\ WaitingPanelsAwaited
      /\ FocusStaysInHistory /\ HistoryMatchesRoot
  BY DEF Inductive, TypeOK
<1>1. call[c].at \in Scans /\ call[c] \in Calls
  BY <1>0, CallTyped DEF StartScan, FinishScan, Scans, Places
<1>2. \E stage \in {"409", "scanning", "200", "500"} : call' = [call EXCEPT ![c].stage = stage]
  BY DEF StartScan, FinishScan
<1>3. /\ \A d \in Activations \ {c} : call'[d] = call[d]
      /\ call'[c] \in Calls /\ call'[c].at = call[c].at /\ call'[c].view = call[c].view
      /\ call' \in [Activations -> Calls \cup {NoCall}]
  BY <1>0, <1>1, <1>2 DEF Calls, PageTypes
<1>4. /\ UNCHANGED <<selected, live, shown, rootID, focusHistory, focusHistoryIndex, busy>>
  BY DEF StartScan, FinishScan, focusVars
<1>5. EngineTypes'
  BY <1>0, <1>1, <1>3 DEF StartScan, FinishScan, EngineTypes
<1>7. PageTypes' /\ LiveAsksSelected' /\ SelectedViewOnly' /\ WaitingPanelsAwaited'
  <2>1. \A p \in Panels : live[p] = c => call'[c].at \in Awaits(p) /\ call'[c].view = selected
    BY <1>0, <1>3, OwnPanel
  <2>2. \/ call'[c].at \in {"select scan", "select git"}
        \/ call[c].at \notin {"select scan", "select git"}
    BY <1>3
  <2>3. QED
    BY <1>0, <1>3, <1>4, <2>1, <2>2, PageFrame DEF PageTypes
<1>8. FocusTypes' /\ FocusStaysInHistory' /\ HistoryMatchesRoot'
  BY <1>0, <1>1, <1>3, <1>4, FocusFrame DEF Scans
<1>9. QED
  BY <1>5, <1>7, <1>8 DEF Inductive, TypeOK

-----------------------------------------------------------------------------
(* Choosing what to look at.                                               *)

\* The history of a page that was reset.
LEMMA EmptyIsHistory ==
    ASSUME NEW h, h = <<>>, NEW i, i = 0
    PROVE  h \in Seq(Symbols) /\ i \in 0..Len(h)
<1>1. h \in Seq(Symbols) /\ Len(h) = 0
  BY EmptySeq
<1>2. i \in 0..Len(h)
  <2>1. 0 \in 0..0
    OBVIOUS
  <2>2. QED
    BY <1>1, <2>1, Zenon
<1>3. QED
  BY <1>1, <1>2

LEMMA SelectionKeeps ==
    ASSUME Inductive, NEW c \in Activations, call[c].at \in {"idle", "list"},
           NEW v \in Views, SelectLanguage(c, v)
    PROVE  Inductive'
<1>0. /\ PageTypes /\ FocusTypes /\ EngineTypes
      /\ LiveAsksSelected /\ SelectedViewOnly /\ WaitingPanelsAwaited
      /\ FocusStaysInHistory /\ HistoryMatchesRoot
  BY DEF Inductive, TypeOK
<1>1. PICK at \in {"select git", "select scan"} : Sends(c, at, v)
  BY DEF SelectLanguage
<1>2. /\ call'[c] \in Calls /\ call'[c].at = at /\ call'[c].view = v
      /\ \A d \in Activations \ {c} : call'[d] = call[d]
      /\ call' \in [Activations -> Calls \cup {NoCall}]
  <2>1. at \in Places /\ v \in Views \cup {None}
    BY DEF Places
  <2>2. QED
    BY <1>0, <1>1, <2>1, Sent
<1>3. /\ selected' = v /\ busy' \in BOOLEAN /\ UNCHANGED engineVars
      /\ v \in Views
  BY <1>0 DEF SelectLanguage, PageTypes
<1>4. \A p \in Panels : live[p] # c
  BY <1>0, OwnPanel DEF Awaits, Panels
<1>5. CASE v = selected
  <2>1. UNCHANGED <<live, shown, rootID, focusHistory, focusHistoryIndex>>
    BY <1>5 DEF SelectLanguage, focusVars
  <2>2. live' \in [Panels -> Activations \cup {None}] /\ shown' \in [Panels -> Contents]
    BY <1>0, <2>1 DEF PageTypes
  <2>3. \A p \in Panels : live'[p] = live[p] /\ live'[p] # c
    BY <1>4, <2>1
  <2>4. QED
    BY <1>2, <1>3, <1>5, <2>1, <2>2, <2>3, QuietStep
<1>6. CASE v # selected
  <2>1. /\ live' = [p \in Panels |-> IF p \in Panels \ {"git"} THEN None ELSE live[p]]
        /\ shown' = [p \in Panels |-> IF p \in Panels \ {"git"} THEN Blank("empty") ELSE shown[p]]
        /\ rootID' = None /\ focusHistory' = <<>> /\ focusHistoryIndex' = 0
    BY <1>6 DEF SelectLanguage, ResetProjectView, Emptied
  <2>2. \A p \in Panels : live'[p] = None
    BY <1>0, <2>1, OwnPanel DEF LiveAsksSelected, Awaits, Panels
  <2>3. /\ live' \in [Panels -> Activations \cup {None}] /\ shown' \in [Panels -> Contents]
        /\ \A p \in {"search", "detail", "explorer"} : shown'[p].is = "empty"
    <3>1. Blank("empty") \in Contents /\ Blank("empty").is = "empty"
      BY BlankTyped
    <3>2. QED
      BY <1>0, <2>1, <3>1 DEF PageTypes, Panels
  <2>4. PageTypes'
    BY <1>2, <1>3, <2>3 DEF PageTypes
  <2>5. LiveAsksSelected' /\ SelectedViewOnly'
    BY <2>2, <2>3 DEF LiveAsksSelected, SelectedViewOnly
  <2>6. WaitingPanelsAwaited'
    <3>1. SelectionUnderWay'
      BY <1>2 DEF SelectionUnderWay
    <3>2. QED
      BY <2>3, <3>1 DEF WaitingPanelsAwaited
  <2>7. EngineTypes'
    BY <1>0, <1>2, <1>3, EngineFrame
  <2>8. FocusTypes' /\ HistoryMatchesRoot'
    <3>1. FocusTypes'
      <4>1. rootID' = None /\ focusHistory' = <<>> /\ focusHistoryIndex' = 0
        BY <2>1
      <4>2. focusHistory' \in Seq(Symbols) /\ focusHistoryIndex' \in 0..Len(focusHistory')
        BY <4>1, EmptyIsHistory
      <4>3. rootID' \in Symbols \cup {None}
        BY <4>1
      <4>4. QED
        BY <4>2, <4>3 DEF FocusTypes
    <3>2. HistoryMatchesRoot'
      BY <2>1 DEF HistoryMatchesRoot
    <3>3. QED
      BY <3>1, <3>2
  <2>9. FocusStaysInHistory'
    <3>1. live'["graph"] = None
      BY <2>2 DEF Panels
    <3>2. ASSUME NEW d \in Activations, call'[d].at = "focus" PROVE call'[d].id \in Symbols
      BY <1>0, <1>2, <3>2 DEF FocusStaysInHistory
    <3>3. \A d \in Activations : d # None
      BY WorkbenchAssumption
    <3>4. QED
      BY <3>1, <3>2, <3>3 DEF FocusStaysInHistory
  <2>10. QED
    BY <2>4, <2>5, <2>6, <2>7, <2>8, <2>9 DEF Inductive, TypeOK
<1>7. QED
  BY <1>5, <1>6

LEMMA ChooseKeeps ==
    ASSUME Inductive, NEW c \in Activations, ChooseLanguage(c)
    PROVE  Inductive'
<1>1. PICK v \in Views : SelectLanguage(c, v)
  BY DEF ChooseLanguage
<1>2. call[c].at = "idle"
  BY DEF ChooseLanguage, Idle
<1>3. QED
  BY <1>1, <1>2, SelectionKeeps

\* An activation that sends from a place where it awaits nothing for a panel, and
\* touches no panel.
LEMMA SendingKeeps ==
    ASSUME Inductive, NEW c \in Activations, call[c].at \in {"idle", "list"},
           NEW at \in {"list", "rescan scan"}, NEW view \in Views \cup {None},
           Sends(c, at, view), at = "rescan scan" => view \in Views, busy' \in BOOLEAN,
           UNCHANGED <<engineVars, selected, live, shown, focusVars>>
    PROVE  Inductive'
<1>0. PageTypes /\ LiveAsksSelected
  BY DEF Inductive, TypeOK
<1>1. /\ call'[c] \in Calls /\ call'[c].at = at /\ call'[c].view = view
      /\ \A d \in Activations \ {c} : call'[d] = call[d]
      /\ call' \in [Activations -> Calls \cup {NoCall}]
  <2>1. at \in Places
    BY DEF Places
  <2>2. QED
    BY <1>0, <2>1, Sent
<1>2. /\ live' \in [Panels -> Activations \cup {None}] /\ shown' \in [Panels -> Contents]
      /\ UNCHANGED <<live, shown, rootID, focusHistory, focusHistoryIndex>>
  BY <1>0 DEF PageTypes, focusVars
<1>3. \A p \in Panels : live'[p] = live[p] /\ live'[p] # c
  BY <1>0, <1>2, OwnPanel DEF Awaits, Panels
<1>4. call'[c].at # "focus" /\ (call'[c].at \in Scans => call'[c].view \in Views)
  BY <1>1 DEF Scans
<1>5. QED
  BY <1>1, <1>2, <1>3, <1>4, QuietStep

LEMMA ChooseProjectKeeps ==
    ASSUME Inductive, NEW c \in Activations, ChooseProject(c)
    PROVE  Inductive'
<1>1. PageTypes
  BY DEF Inductive, TypeOK
<1>2. /\ call[c].at = "idle" /\ Sends(c, "list", None) /\ busy' = busy
      /\ UNCHANGED <<engineVars, selected, live, shown, focusVars>>
  BY DEF ChooseProject, Idle
<1>3. QED
  BY <1>1, <1>2, SendingKeeps DEF PageTypes

LEMMA RescanKeeps ==
    ASSUME Inductive, NEW c \in Activations, Rescan(c)
    PROVE  Inductive'
<1>1. PageTypes
  BY DEF Inductive, TypeOK
<1>2. /\ call[c].at = "idle" /\ Sends(c, "rescan scan", selected) /\ busy' = TRUE
      /\ UNCHANGED <<engineVars, selected, live, shown, focusVars>>
  BY DEF Rescan, Idle
<1>3. selected \in Views
  BY <1>1 DEF Rescan, PageTypes
<1>4. QED
  BY <1>2, <1>3, SendingKeeps

\* An activation that returns, with what it leaves of the panels.
LEMMA ReturningKeeps ==
    ASSUME Inductive, NEW c \in Activations, Returns(c),
           UNCHANGED <<engineVars, selected, focusVars>>, busy' \in BOOLEAN,
           call[c].at \notin {"select scan", "select git"},
           live' \in [Panels -> Activations \cup {None}], shown' \in [Panels -> Contents],
           \A p \in Panels : live'[p] \in {None, live[p]} /\ live'[p] # c,
           \A p \in Panels : \/ shown'[p] = shown[p] /\ live'[p] = live[p]
                             \/ shown'[p].is = "answer" /\ shown'[p].view = selected
                             \/ shown'[p].is = "unavailable"
                             \/ p \notin {"detail", "explorer"} /\ shown'[p] = shown[p]
    PROVE  Inductive'
<1>0. PageTypes
  BY DEF Inductive, TypeOK
<1>1. /\ call'[c].at = "idle"
      /\ \A d \in Activations \ {c} : call'[d] = call[d]
      /\ call' \in [Activations -> Calls \cup {NoCall}]
  BY <1>0, Returned
<1>2. UNCHANGED <<rootID, focusHistory, focusHistoryIndex>>
  BY DEF focusVars
<1>3. /\ \A p \in {"search", "detail", "explorer"} :
            shown'[p] = shown[p] \/ shown'[p].is # "answer" \/ shown'[p].view = selected
      /\ \/ shown'["detail"].is # "loading"
         \/ shown'["detail"] = shown["detail"] /\ live'["detail"] = live["detail"]
      /\ \/ shown'["explorer"].is # "empty"
         \/ shown'["explorer"] = shown["explorer"] /\ live'["explorer"] = live["explorer"]
  BY DEF Panels
<1>4. call'[c].at # "focus" /\ call'[c].at \notin Scans
  BY <1>1 DEF Scans
<1>5. QED
  BY <1>1, <1>2, <1>3, <1>4, QuietStep

LEMMA ProjectsKeep ==
    ASSUME Inductive, NEW c \in Activations, ProjectsArrive(c)
    PROVE  Inductive'
<1>0. PageTypes /\ LiveAsksSelected
  BY DEF Inductive, TypeOK
<1>1. call[c].at = "list"
  BY DEF ProjectsArrive, Succeeds, Fails
<1>2. CASE \E v \in Views : SelectLanguage(c, v)
  BY <1>1, <1>2, SelectionKeeps
<1>3. CASE Returns(c) /\ UNCHANGED <<engineVars, selected, live, shown, focusVars, busy>>
  <2>1. live' \in [Panels -> Activations \cup {None}] /\ shown' \in [Panels -> Contents] /\ busy' \in BOOLEAN
    BY <1>0, <1>3 DEF PageTypes
  <2>2. \A p \in Panels : live[p] # c
    BY <1>0, <1>1, OwnPanel DEF Awaits, Panels
  <2>3. \A p \in Panels : live'[p] = live[p] /\ live'[p] # c /\ shown'[p] = shown[p]
    BY <1>3, <2>2
  <2>4. QED
    BY <1>1, <1>3, <2>1, <2>3, ReturningKeeps
<1>4. QED
  BY <1>2, <1>3 DEF ProjectsArrive

LEMMA SelectScanKeeps ==
    ASSUME Inductive, NEW c \in Activations, SelectScanArrives(c)
    PROVE  Inductive'
<1>0. PageTypes /\ LiveAsksSelected
  BY DEF Inductive, TypeOK
<1>1. call[c].at = "select scan" /\ call[c] \in Calls
  <2>1. call[c].at = "select scan"
    BY DEF SelectScanArrives, Succeeds, Fails
  <2>2. QED
    BY <1>0, <2>1, CallTyped DEF Places
<1>2. /\ Sends(c, "select git", selected) /\ busy' = FALSE
      /\ UNCHANGED <<engineVars, selected, live, rootID, focusHistory, focusHistoryIndex>>
  BY DEF SelectScanArrives, focusVars
<1>3. /\ call'[c] \in Calls /\ call'[c].at = "select git"
      /\ \A d \in Activations \ {c} : call'[d] = call[d]
      /\ call' \in [Activations -> Calls \cup {NoCall}]
  <2>1. "select git" \in Places /\ selected \in Views \cup {None}
    BY <1>0 DEF Places, PageTypes
  <2>2. QED
    BY <1>0, <1>2, <2>1, Sent
<1>4. /\ shown' \in [Panels -> Contents]
      /\ \A p \in {"search", "detail", "explorer"} : shown'[p] = shown[p]
  <2>1. About(call[c].view) \in Contents
    BY <1>1, BlankTyped DEF Calls
  <2>2. shown' = [shown EXCEPT !["git"] = About(call[c].view)] \/ shown' = shown
    BY DEF SelectScanArrives
  <2>3. QED
    BY <1>0, <2>1, <2>2 DEF PageTypes, Panels
<1>5. live' \in [Panels -> Activations \cup {None}]
  BY <1>0, <1>2 DEF PageTypes
<1>6. \A p \in Panels : live'[p] = live[p] /\ live'[p] # c
  BY <1>0, <1>1, <1>2, OwnPanel DEF Awaits, Panels
<1>7. QED
  BY <1>2, <1>3, <1>4, <1>5, <1>6, QuietStep DEF Scans

LEMMA GitStatusKeeps ==
    ASSUME Inductive, NEW c \in Activations, GitStatusArrives(c)
    PROVE  Inductive'
<1>0. PageTypes /\ LiveAsksSelected
  BY DEF Inductive, TypeOK
<1>1. call[c].at = "select git" /\ call[c] \in Calls
  <2>1. call[c].at = "select git"
    BY DEF GitStatusArrives, Succeeds, Fails
  <2>2. QED
    BY <1>0, <2>1, CallTyped DEF Places
<1>2. /\ Sends(c, "files", selected) /\ live' = [live EXCEPT !["explorer"] = c]
      /\ UNCHANGED <<engineVars, selected, rootID, focusHistory, focusHistoryIndex, busy>>
  BY DEF GitStatusArrives, LoadExplorer, focusVars
<1>3. /\ call'[c] \in Calls /\ call'[c].at = "files" /\ call'[c].view = selected
      /\ \A d \in Activations \ {c} : call'[d] = call[d]
      /\ call' \in [Activations -> Calls \cup {NoCall}]
  <2>1. "files" \in Places /\ selected \in Views \cup {None}
    BY <1>0 DEF Places, PageTypes
  <2>2. QED
    BY <1>0, <1>2, <2>1, Sent
<1>4. /\ shown' \in [Panels -> Contents]
      /\ \A p \in {"search", "detail", "explorer"} : shown'[p] = shown[p]
  <2>1. About(call[c].view) \in Contents /\ Blank("empty") \in Contents
    BY <1>1, BlankTyped DEF Calls
  <2>2. \E what \in {About(call[c].view), Blank("empty")} : shown' = [shown EXCEPT !["git"] = what]
    BY DEF GitStatusArrives
  <2>3. QED
    BY <1>0, <2>1, <2>2 DEF PageTypes, Panels
<1>5. /\ live' \in [Panels -> Activations \cup {None}] /\ busy' \in BOOLEAN
      /\ live'["explorer"] = c
      /\ \A p \in Panels \ {"explorer"} : live'[p] = live[p] /\ live'[p] # c
  <2>1. \A p \in Panels : live[p] # c
    BY <1>0, <1>1, OwnPanel DEF Awaits, Panels
  <2>2. QED
    BY <1>0, <1>2, <2>1 DEF PageTypes, Panels
<1>6. \A p \in Panels : live'[p] = c => call'[c].at \in Awaits(p)
  BY <1>3, <1>5 DEF Awaits
<1>7. live'["detail"] = live["detail"]
  BY <1>5 DEF Panels
<1>8. QED
  BY <1>2, <1>3, <1>4, <1>5, <1>6, <1>7, QuietStep DEF Scans

\* What filling panel p and returning keeps.
LEMMA FillingKeeps ==
    ASSUME Inductive, NEW c \in Activations, NEW p \in Panels, Returns(c),
           call[c].at \in Awaits(p), call[c] \in Calls,
           \/ Renders(c, p, About(call[c].view))
           \/ p # "search" /\ p # "graph" /\ Renders(c, p, Blank("unavailable"))
           \/ p # "detail" /\ p # "explorer" /\ Forgets(c, p),
           UNCHANGED <<engineVars, selected, focusVars>>, busy' \in BOOLEAN
    PROVE  Inductive'
<1>0. PageTypes /\ LiveAsksSelected
  BY DEF Inductive, TypeOK
<1>1. /\ About(call[c].view) \in Contents /\ About(call[c].view).is = "answer"
      /\ About(call[c].view).view = call[c].view
      /\ Blank("unavailable") \in Contents /\ Blank("unavailable").is = "unavailable"
  <2>1. call[c].view \in Views \cup {None}
    BY DEF Calls
  <2>2. QED
    BY <2>1, BlankTyped
<1>2. live[p] = c => call[c].view = selected
  BY <1>0, OwnPanel
<1>3. call[c].at \notin {"select scan", "select git"}
  BY DEF Awaits, Panels
<1>4. \A q \in Panels \ {p} : live[q] # c
  <2>1. \A q \in Panels \ {p} : call[c].at \notin Awaits(q)
    BY AwaitsOne
  <2>2. QED
    BY <1>0, <2>1, OwnPanel
<1>5. /\ live' \in [Panels -> Activations \cup {None}] /\ shown' \in [Panels -> Contents]
      /\ \A q \in Panels \ {p} : live'[q] = live[q] /\ shown'[q] = shown[q]
      /\ live'[p] # c /\ live'[p] \in {None, live[p]}
      /\ \/ shown'[p] = shown[p] /\ live'[p] = live[p]
         \/ shown'[p].is = "answer" /\ shown'[p].view = selected
         \/ shown'[p].is = "unavailable"
         \/ p \notin {"detail", "explorer"} /\ shown'[p] = shown[p]
  <2>1. CASE Renders(c, p, About(call[c].view))
    BY <1>0, <1>1, <1>2, <2>1, Rendered
  <2>2. CASE Renders(c, p, Blank("unavailable"))
    BY <1>0, <1>1, <2>2, Rendered
  <2>3. CASE p # "detail" /\ p # "explorer" /\ Forgets(c, p)
    <3>1. shown \in [Panels -> Contents]
      BY <1>0 DEF PageTypes
    <3>2. QED
      BY <1>0, <2>3, <3>1, Forgotten
  <2>4. QED
    BY <2>1, <2>2, <2>3
<1>6. \A q \in Panels : live'[q] \in {None, live[q]} /\ live'[q] # c
  BY <1>4, <1>5
<1>7. \A q \in Panels : \/ shown'[q] = shown[q] /\ live'[q] = live[q]
                        \/ shown'[q].is = "answer" /\ shown'[q].view = selected
                        \/ shown'[q].is = "unavailable"
                        \/ q \notin {"detail", "explorer"} /\ shown'[q] = shown[q]
  BY <1>5
<1>8. QED
  BY <1>3, <1>5, <1>6, <1>7, ReturningKeeps

LEMMA PanelArrivalsKeep ==
    ASSUME Inductive, NEW c \in Activations,
           FilesArrive(c) \/ SearchArrives(c) \/ ReloadArrives(c) \/ DetailArrives(c)
    PROVE  Inductive'
<1>0. PageTypes
  BY DEF Inductive, TypeOK
<1>1. /\ Returns(c) /\ UNCHANGED <<engineVars, selected, focusVars>> /\ busy' \in BOOLEAN
  <2>1. busy \in BOOLEAN
    BY <1>0 DEF PageTypes
  <2>2. QED
    BY <2>1 DEF FilesArrive, SearchArrives, ReloadArrives, DetailArrives
<1>2. CASE FilesArrive(c)
  <2>1. /\ call[c].at \in {"files", "rescan files"}
        /\ Renders(c, "explorer", About(call[c].view)) \/ Renders(c, "explorer", Blank("unavailable"))
    BY <1>2 DEF FilesArrive, Succeeds, Fails
  <2>2. "explorer" \in Panels /\ call[c].at \in Awaits("explorer") /\ call[c] \in Calls
    BY <1>0, <2>1, CallTyped DEF Panels, Awaits, Places
  <2>3. QED
    BY <1>1, <2>1, <2>2, FillingKeeps
<1>3. CASE SearchArrives(c)
  <2>1. /\ call[c].at = "search"
        /\ Renders(c, "search", About(call[c].view)) \/ Forgets(c, "search")
    BY <1>3 DEF SearchArrives, Succeeds, Fails
  <2>2. "search" \in Panels /\ call[c].at \in Awaits("search") /\ call[c] \in Calls
    BY <1>0, <2>1, CallTyped DEF Panels, Awaits, Places
  <2>3. QED
    BY <1>1, <2>1, <2>2, FillingKeeps
<1>4. CASE ReloadArrives(c)
  <2>1. /\ call[c].at = "reload"
        /\ Renders(c, "graph", About(call[c].view)) \/ Forgets(c, "graph")
    BY <1>4 DEF ReloadArrives, Succeeds, Fails
  <2>2. "graph" \in Panels /\ call[c].at \in Awaits("graph") /\ call[c] \in Calls
    BY <1>0, <2>1, CallTyped DEF Panels, Awaits, Places
  <2>3. QED
    BY <1>1, <2>1, <2>2, FillingKeeps
<1>5. CASE DetailArrives(c)
  <2>1. /\ call[c].at = "detail"
        /\ Renders(c, "detail", About(call[c].view)) \/ Renders(c, "detail", Blank("unavailable"))
    BY <1>5 DEF DetailArrives, Succeeds, Fails
  <2>2. "detail" \in Panels /\ call[c].at \in Awaits("detail") /\ call[c] \in Calls
    BY <1>0, <2>1, CallTyped DEF Panels, Awaits, Places
  <2>3. QED
    BY <1>1, <2>1, <2>2, FillingKeeps
<1>6. QED
  BY <1>2, <1>3, <1>4, <1>5

-----------------------------------------------------------------------------
(* Searching, focusing, reading.                                           *)

\* A step hands panels to c alone, each one it awaits at the place it goes to.
Hands(c, at) ==
    /\ live' \in [Panels -> Activations \cup {None}]
    /\ \A p \in Panels : \/ live'[p] \in {None, live[p]} /\ live'[p] # c
                         \/ live'[p] = c /\ at \in Awaits(p)

\* A step of c leaves no panel about another view, and none waiting in vain.
Leaves(c) ==
    /\ shown' \in [Panels -> Contents]
    /\ \A p \in {"search", "detail", "explorer"} :
           shown'[p] = shown[p] \/ shown'[p].is # "answer" \/ shown'[p].view = selected
    /\ \/ shown'["detail"].is # "loading" \/ live'["detail"] = c
       \/ shown'["detail"] = shown["detail"] /\ live'["detail"] = live["detail"]
    /\ \/ live'["explorer"] = c
       \/ shown'["explorer"] = shown["explorer"] /\ live'["explorer"] = live["explorer"]

\* An activation that asks for something about the selected view, with what it leaves
\* of the panels.
LEMMA AskingKeeps ==
    ASSUME Inductive, NEW c \in Activations,
           NEW at \in {"search", "reload", "detail", "rescan graph", "rescan search", "rescan files"},
           Sends(c, at, selected), UNCHANGED <<engineVars, selected, busy>>,
           UNCHANGED <<focusHistory, focusHistoryIndex>>, rootID' \in {rootID, None},
           call[c].at \notin {"select scan", "select git"},
           Hands(c, at), Leaves(c)
    PROVE  Inductive'
<1>0. PageTypes
  BY DEF Inductive, TypeOK
<1>1. /\ call'[c].at = at /\ call'[c].view = selected
      /\ \A d \in Activations \ {c} : call'[d] = call[d]
      /\ call' \in [Activations -> Calls \cup {NoCall}]
  <2>1. at \in Places /\ selected \in Views \cup {None}
    BY <1>0 DEF Places, PageTypes
  <2>2. QED
    BY <1>0, <2>1, Sent
<1>2. /\ at # "focus" /\ at \notin Scans /\ busy' \in BOOLEAN
  BY <1>0 DEF Scans, PageTypes
<1>3. \A p \in Panels :
          /\ live'[p] \in {None, c, live[p]}
          /\ live'[p] = c => call'[c].at \in Awaits(p) /\ call'[c].view = selected
  BY <1>1 DEF Hands
<1>4. QED
  BY <1>1, <1>2, <1>3, QuietStep DEF Hands, Leaves

LEMMA SearchKeeps ==
    ASSUME Inductive, NEW c \in Activations, Search(c)
    PROVE  Inductive'
<1>0. PageTypes /\ LiveAsksSelected
  BY DEF Inductive, TypeOK
<1>1. /\ call[c].at = "idle" /\ Sends(c, "search", selected)
      /\ live' = [live EXCEPT !["search"] = c]
      /\ UNCHANGED <<engineVars, selected, busy, shown, rootID, focusHistory, focusHistoryIndex>>
  BY DEF Search, Idle, focusVars
<1>2. \A p \in Panels : live[p] # c
  BY <1>0, <1>1, OwnPanel DEF Awaits, Panels
<1>3. /\ live' \in [Panels -> Activations \cup {None}] /\ shown' \in [Panels -> Contents]
      /\ live'["search"] = c
      /\ \A p \in Panels \ {"search"} : live'[p] = live[p]
  BY <1>0, <1>1 DEF PageTypes, Panels
<1>4. /\ "search" \in Awaits("search")
      /\ live'["detail"] = live["detail"] /\ live'["explorer"] = live["explorer"]
  BY <1>3 DEF Awaits, Panels
<1>5. Hands(c, "search")
  BY <1>2, <1>3, <1>4 DEF Hands
<1>6. Leaves(c)
  BY <1>1, <1>3, <1>4 DEF Leaves
<1>7. QED
  BY <1>1, <1>5, <1>6, AskingKeeps

LEMMA LoadGraphKeeps ==
    ASSUME Inductive, NEW c \in Activations, LoadGraph(c)
    PROVE  Inductive'
<1>0. PageTypes /\ LiveAsksSelected
  BY DEF Inductive, TypeOK
<1>1. /\ call[c].at = "idle" /\ Sends(c, "reload", selected)
      /\ live' = [live EXCEPT !["graph"] = c]
      /\ UNCHANGED <<engineVars, selected, busy, shown, rootID, focusHistory, focusHistoryIndex>>
  BY DEF LoadGraph, Idle, focusVars
<1>2. \A p \in Panels : live[p] # c
  BY <1>0, <1>1, OwnPanel DEF Awaits, Panels
<1>3. /\ live' \in [Panels -> Activations \cup {None}] /\ shown' \in [Panels -> Contents]
      /\ live'["graph"] = c
      /\ \A p \in Panels \ {"graph"} : live'[p] = live[p]
  BY <1>0, <1>1 DEF PageTypes, Panels
<1>4. /\ "reload" \in Awaits("graph")
      /\ live'["detail"] = live["detail"] /\ live'["explorer"] = live["explorer"]
  BY <1>3 DEF Awaits, Panels
<1>5. Hands(c, "reload")
  BY <1>2, <1>3, <1>4 DEF Hands
<1>6. Leaves(c)
  BY <1>1, <1>3, <1>4 DEF Leaves
<1>7. QED
  BY <1>1, <1>5, <1>6, AskingKeeps

LEMMA ShowDetailKeeps ==
    ASSUME Inductive, NEW c \in Activations, ShowDetail(c)
    PROVE  Inductive'
<1>0. PageTypes /\ LiveAsksSelected
  BY DEF Inductive, TypeOK
<1>1. /\ call[c].at = "idle" /\ Sends(c, "detail", selected)
      /\ live' = [live EXCEPT !["detail"] = c]
      /\ shown' = [shown EXCEPT !["detail"] = Blank("loading")]
      /\ UNCHANGED <<engineVars, selected, busy, rootID, focusHistory, focusHistoryIndex>>
  BY DEF ShowDetail, Idle, focusVars
<1>2. \A p \in Panels : live[p] # c
  BY <1>0, <1>1, OwnPanel DEF Awaits, Panels
<1>3. Blank("loading") \in Contents /\ Blank("loading").is = "loading"
  BY BlankTyped
<1>4. /\ live' \in [Panels -> Activations \cup {None}] /\ shown' \in [Panels -> Contents]
      /\ live'["detail"] = c /\ shown'["detail"].is = "loading"
      /\ \A p \in Panels \ {"detail"} : live'[p] = live[p] /\ shown'[p] = shown[p]
  BY <1>0, <1>1, <1>3 DEF PageTypes, Panels
<1>5. /\ "detail" \in Awaits("detail")
      /\ shown'["search"] = shown["search"]
      /\ live'["explorer"] = live["explorer"] /\ shown'["explorer"] = shown["explorer"]
  BY <1>4 DEF Awaits, Panels
<1>6. \A p \in {"search", "detail", "explorer"} : shown'[p] = shown[p] \/ shown'[p].is # "answer"
  BY <1>4, <1>5
<1>7. \A p \in Panels : \/ live'[p] \in {None, live[p]} /\ live'[p] # c
                        \/ live'[p] = c /\ "detail" \in Awaits(p)
  BY <1>2, <1>4, <1>5
<1>8. /\ Sends(c, "detail", selected) /\ UNCHANGED <<engineVars, selected, busy>>
      /\ UNCHANGED <<focusHistory, focusHistoryIndex>> /\ rootID' \in {rootID, None}
      /\ call[c].at \notin {"select scan", "select git"}
  BY <1>1
<1>9. Hands(c, "detail")
  BY <1>4, <1>7 DEF Hands
<1>10. Leaves(c)
  BY <1>4, <1>5, <1>6 DEF Leaves
<1>11. QED
  BY <1>8, <1>9, <1>10, AskingKeeps

\* A focus asks for a function where the history has it, or outside of it.
LEMMA FocusGraphKeeps ==
    ASSUME Inductive, NEW c \in Activations, call[c].at = "idle",
           NEW id \in Symbols, NEW back \in Nat, NEW open \in BOOLEAN,
           back # 0 => back \in DOMAIN focusHistory /\ focusHistory[back] = id,
           FocusGraph(c, id, back, open)
    PROVE  Inductive'
<1>0. PageTypes /\ LiveAsksSelected
  BY DEF Inductive, TypeOK
<1>1. UNCHANGED <<engineVars, selected, busy, rootID, focusHistory, focusHistoryIndex>>
  BY DEF FocusGraph, focusVars
<1>2. \A p \in Panels : live[p] # c
  BY <1>0, OwnPanel DEF Awaits, Panels
<1>3. c # None /\ call[c] \notin Calls /\ busy \in BOOLEAN
  BY <1>0, WorkbenchAssumption DEF PageTypes, Calls, Places
<1>4. PICK number \in {live["graph"], c} : HideResults(number)
  BY DEF FocusGraph
<1>5. /\ live' \in [Panels -> Activations \cup {None}] /\ shown' \in [Panels -> Contents]
      /\ live'["search"] = None /\ live'["graph"] = number
      /\ live'["detail"] = live["detail"] /\ live'["explorer"] = live["explorer"]
      /\ live'["git"] = live["git"]
      /\ shown'["search"].is = "empty"
      /\ shown'["detail"] = shown["detail"] /\ shown'["explorer"] = shown["explorer"]
  <2>1. Blank("empty") \in Contents /\ Blank("empty").is = "empty"
    BY BlankTyped
  <2>2. /\ live' = [live EXCEPT !["search"] = None, !["graph"] = number]
        /\ shown' = [shown EXCEPT !["search"] = Blank("empty")]
    BY <1>4 DEF HideResults
  <2>3. QED
    BY <1>0, <2>1, <2>2 DEF PageTypes, Panels
<1>6. \A p \in {"search", "detail", "explorer"} : shown'[p] = shown[p] \/ shown'[p].is # "answer"
  BY <1>5
<1>7. CASE back = 0 /\ id = rootID
  <2>1. HideResults(live["graph"]) /\ call' = call
    BY <1>7 DEF FocusGraph
  <2>2. live'["graph"] = live["graph"]
    BY <1>0, <2>1 DEF HideResults, PageTypes, Panels
  <2>3. \A p \in Panels : live'[p] \in {None, live[p]} /\ live'[p] # c
    BY <1>2, <1>3, <1>5, <2>2 DEF Panels
  <2>4. call'[c].at = "idle" /\ call' \in [Activations -> Calls \cup {NoCall}]
    BY <1>0, <2>1 DEF PageTypes
  <2>5. QED
    BY <1>1, <1>3, <1>5, <1>6, <2>1, <2>3, <2>4, QuietStep DEF Scans
<1>8. CASE ~(back = 0 /\ id = rootID)
  <2>1. /\ HideResults(c)
        /\ call' = [call EXCEPT ![c] = [Fetch("focus", selected) EXCEPT !.id = id, !.back = back, !.open = open]]
    BY <1>8 DEF FocusGraph
  <2>2. /\ [Fetch("focus", selected) EXCEPT !.id = id, !.back = back, !.open = open] \in Calls
        /\ [Fetch("focus", selected) EXCEPT !.id = id, !.back = back, !.open = open].at = "focus"
        /\ [Fetch("focus", selected) EXCEPT !.id = id, !.back = back, !.open = open].view = selected
        /\ [Fetch("focus", selected) EXCEPT !.id = id, !.back = back, !.open = open].id = id
        /\ [Fetch("focus", selected) EXCEPT !.id = id, !.back = back, !.open = open].back = back
    <3>1. selected \in Views \cup {None}
      BY <1>0 DEF PageTypes
    <3>2. QED
      BY <3>1 DEF Fetch, Calls, Places
  <2>3. /\ call' \in [Activations -> Calls \cup {NoCall}]
        /\ \A d \in Activations \ {c} : call'[d] = call[d]
        /\ call'[c].at = "focus" /\ call'[c].view = selected
        /\ call'[c].id = id /\ call'[c].back = back
    BY <1>0, <2>1, <2>2 DEF PageTypes
  <2>4. live'["graph"] = c
    BY <1>0, <2>1 DEF HideResults, PageTypes, Panels
  <2>5. \A p \in Panels : /\ live'[p] \in {None, c, live[p]}
                          /\ live'[p] = c => p = "graph"
    BY <1>2, <1>3, <1>5, <2>4 DEF Panels
  <2>6. "focus" \in Awaits("graph") /\ "focus" \notin Scans
    BY DEF Awaits, Scans
  <2>7. \A p \in Panels : live'[p] = c => call'[c].at \in Awaits(p) /\ call'[c].view = selected
    BY <2>3, <2>5, <2>6
  <2>8. QED
    BY <1>1, <1>3, <1>5, <1>6, <2>3, <2>5, <2>6, <2>7, QuietStep
<1>9. QED
  BY <1>7, <1>8

LEMMA FocusClicksKeep ==
    ASSUME Inductive, NEW c \in Activations, ChooseFunction(c) \/ NavigateHistory(c)
    PROVE  Inductive'
<1>0. focusHistory \in Seq(Symbols)
  BY DEF Inductive, TypeOK, FocusTypes
<1>1. call[c].at = "idle"
  BY DEF ChooseFunction, NavigateHistory, Idle
<1>2. CASE ChooseFunction(c)
  <2>1. PICK id \in Symbols, open \in BOOLEAN : FocusGraph(c, id, 0, open)
    BY <1>2 DEF ChooseFunction
  <2>2. QED
    BY <1>1, <2>1, FocusGraphKeeps
<1>3. CASE NavigateHistory(c)
  <2>1. PICK target \in DOMAIN focusHistory : FocusGraph(c, focusHistory[target], target, FALSE)
    BY <1>3 DEF NavigateHistory
  <2>2. focusHistory[target] \in Symbols /\ target \in Nat
    BY <1>0, <2>1
  <2>3. QED
    BY <1>1, <2>1, <2>2, FocusGraphKeeps
<1>4. QED
  BY <1>2, <1>3

LEMMA HideDetailKeeps ==
    ASSUME Inductive, HideDetail
    PROVE  Inductive'
<1>0. /\ PageTypes /\ FocusTypes /\ EngineTypes
      /\ LiveAsksSelected /\ SelectedViewOnly /\ WaitingPanelsAwaited
      /\ FocusStaysInHistory /\ HistoryMatchesRoot
  BY DEF Inductive, TypeOK
<1>1. /\ live' = [p \in Panels |-> IF p \in {"detail"} THEN None ELSE live[p]]
      /\ shown' = [p \in Panels |-> IF p \in {"detail"} THEN Blank("empty") ELSE shown[p]]
      /\ UNCHANGED <<scanned, loadState, selected, call, rootID, focusHistory, focusHistoryIndex, busy>>
  BY DEF HideDetail, Emptied, engineVars, focusVars
<1>2. /\ live' \in [Panels -> Activations \cup {None}] /\ shown' \in [Panels -> Contents]
      /\ live'["detail"] = None /\ shown'["detail"].is = "empty"
      /\ \A p \in Panels \ {"detail"} : live'[p] = live[p] /\ shown'[p] = shown[p]
  <2>1. Blank("empty") \in Contents /\ Blank("empty").is = "empty"
    BY BlankTyped
  <2>2. QED
    BY <1>0, <1>1, <2>1 DEF PageTypes, Panels
<1>3. PageTypes' /\ FocusTypes' /\ EngineTypes'
  BY <1>0, <1>1, <1>2 DEF PageTypes, FocusTypes, EngineTypes
<1>4. LiveAsksSelected'
  BY <1>0, <1>1, <1>2 DEF LiveAsksSelected
<1>5. SelectedViewOnly'
  BY <1>0, <1>1, <1>2 DEF SelectedViewOnly, Panels
<1>6. WaitingPanelsAwaited'
  BY <1>0, <1>1, <1>2 DEF WaitingPanelsAwaited, SelectionUnderWay, Panels
<1>7. FocusStaysInHistory' /\ HistoryMatchesRoot'
  <2>1. live'["graph"] = live["graph"]
    BY <1>2 DEF Panels
  <2>2. QED
    BY <1>0, <1>1, <2>1 DEF FocusStaysInHistory, HistoryMatchesRoot
<1>8. QED
  BY <1>3, <1>4, <1>5, <1>6, <1>7 DEF Inductive, TypeOK

\* What the answer to a focus leaves: the call, and the panels it numbers and shows.
LEMMA WentOn ==
    ASSUME PageTypes, NEW c \in Activations,
           NEW numbers \in [Panels -> Activations \cup {None}], NEW panels \in [Panels -> Contents],
           GoesOn(c, numbers, panels)
    PROVE  /\ call' \in [Activations -> Calls \cup {NoCall}]
           /\ \A d \in Activations \ {c} : call'[d] = call[d]
           /\ live' \in [Panels -> Activations \cup {None}] /\ shown' \in [Panels -> Contents]
           /\ \A p \in Panels \ {"detail"} : live'[p] = numbers[p] /\ shown'[p] = panels[p]
           /\ \/ /\ call'[c].at = "detail" /\ call'[c].view = selected
                 /\ live'["detail"] = c /\ shown'["detail"].is = "loading"
              \/ /\ call'[c].at = "idle"
                 /\ live'["detail"] = numbers["detail"] /\ shown'["detail"] = panels["detail"]
<1>1. CASE call[c].open
  <2>1. /\ Sends(c, "detail", selected)
        /\ live' = [numbers EXCEPT !["detail"] = c]
        /\ shown' = [panels EXCEPT !["detail"] = Blank("loading")]
    BY <1>1 DEF GoesOn
  <2>2. "detail" \in Places /\ selected \in Views \cup {None} /\ "detail" \in Panels
    BY DEF PageTypes, Places, Panels
  <2>3. /\ call'[c].at = "detail" /\ call'[c].view = selected
        /\ call' \in [Activations -> Calls \cup {NoCall}]
        /\ \A d \in Activations \ {c} : call'[d] = call[d]
    BY <2>1, <2>2, Sent
  <2>4. Blank("loading") \in Contents /\ Blank("loading").is = "loading"
    BY BlankTyped
  <2>5. QED
    BY <2>1, <2>2, <2>3, <2>4
<1>2. CASE ~call[c].open
  <2>1. Returns(c) /\ live' = numbers /\ shown' = panels
    BY <1>2 DEF GoesOn
  <2>2. QED
    BY <2>1, Returned
<1>3. QED
  BY <1>1, <1>2

\* What recording does to the focus and its history.
LEMMA RecordedKeeps ==
    ASSUME FocusTypes, NEW c \in Activations, Recorded(c), call[c].id \in Symbols, call[c].back \in Nat,
           call[c].back # 0 => /\ call[c].back \in DOMAIN focusHistory
                               /\ focusHistory[call[c].back] = call[c].id
    PROVE  FocusTypes' /\ HistoryMatchesRoot'
<1> DEFINE id == call[c].id
           back == call[c].back
           before == SubSeq(focusHistory, 1, focusHistoryIndex)
<1>1. rootID' = id /\ id \in Symbols
  BY DEF Recorded
<1>2. /\ focusHistory \in Seq(Symbols) /\ Len(focusHistory) \in Nat
      /\ DOMAIN focusHistory = 1..Len(focusHistory)
      /\ focusHistoryIndex \in 0..Len(focusHistory)
  BY LenProperties DEF FocusTypes
<1>3. CASE back = 0
  <2>1. before \in Seq(Symbols) /\ Len(before) = focusHistoryIndex
    <3>1. \A i \in 1..focusHistoryIndex : focusHistory[i] \in Symbols
      BY <1>2, ElementOfSeq
    <3>2. focusHistoryIndex \in Int /\ 1 \in Int
      BY <1>2
    <3>3. /\ before \in Seq(Symbols)
          /\ Len(before) = IF 1 <= focusHistoryIndex THEN focusHistoryIndex - 1 + 1 ELSE 0
      BY <3>1, <3>2, SubSeqProperties
    <3>4. QED
      BY <1>2, <3>3
  <2>2. focusHistory' = Append(before, id) /\ focusHistoryIndex' = focusHistoryIndex + 1
    BY <1>3 DEF Recorded
  <2> HIDE DEF before, id
  <2>3. /\ focusHistory' \in Seq(Symbols) /\ Len(focusHistory') = focusHistoryIndex + 1
        /\ focusHistory'[focusHistoryIndex + 1] = id
    BY <1>1, <2>1, <2>2, AppendProperties
  <2>4. DOMAIN focusHistory' = 1..(focusHistoryIndex + 1)
    BY <2>3, LenProperties
  <2>5. FocusTypes'
    BY <1>1, <1>2, <2>2, <2>3 DEF FocusTypes
  <2>6. HistoryMatchesRoot'
    BY <1>1, <1>2, <2>2, <2>3, <2>4 DEF HistoryMatchesRoot
  <2>7. QED
    BY <2>5, <2>6
<1>4. CASE back # 0
  <2>1. focusHistoryIndex' = back /\ focusHistory' = focusHistory
    BY <1>4 DEF Recorded
  <2>2. back \in DOMAIN focusHistory /\ focusHistory[back] = id
    BY <1>4
  <2>3. QED
    BY <1>1, <1>2, <2>1, <2>2 DEF FocusTypes, HistoryMatchesRoot
<1>5. QED
  BY <1>3, <1>4

LEMMA FocusArrivesKeeps ==
    ASSUME Inductive, NEW c \in Activations, FocusArrives(c)
    PROVE  Inductive'
<1>0. /\ PageTypes /\ FocusTypes /\ EngineTypes
      /\ LiveAsksSelected /\ SelectedViewOnly /\ WaitingPanelsAwaited
      /\ FocusStaysInHistory /\ HistoryMatchesRoot
  BY DEF Inductive, TypeOK
<1>1. call[c].at = "focus" /\ call[c] \in Calls /\ UNCHANGED <<engineVars, selected, busy>>
  <2>1. call[c].at = "focus" /\ UNCHANGED <<engineVars, selected, busy>>
    BY DEF FocusArrives, Succeeds, Fails
  <2>2. QED
    BY <1>0, <2>1, CallTyped DEF Places
<1>2. \A p \in Panels : live[p] = c => p = "graph"
  BY <1>0, <1>1, OwnPanel DEF Awaits, Panels
<1>3. c # None /\ busy' \in BOOLEAN
  BY <1>0, <1>1, WorkbenchAssumption DEF PageTypes
<1>4. ASSUME NEW numbers \in [Panels -> Activations \cup {None}], NEW panels \in [Panels -> Contents],
             GoesOn(c, numbers, panels), numbers["graph"] # c,
             \A p \in Panels : numbers[p] \in {None, live[p]},
             \A p \in {"search", "explorer"} : numbers[p] = live[p] /\ panels[p] = shown[p],
             \/ panels["detail"] = shown["detail"] /\ numbers["detail"] = live["detail"]
             \/ panels["detail"].is = "empty"
      PROVE  /\ PageTypes' /\ EngineTypes' /\ LiveAsksSelected' /\ SelectedViewOnly' /\ WaitingPanelsAwaited'
             /\ \A d \in Activations \ {c} : call'[d] = call[d]
             /\ call'[c].at # "focus" /\ live'["graph"] = numbers["graph"]
  <2>1. /\ call' \in [Activations -> Calls \cup {NoCall}]
        /\ \A d \in Activations \ {c} : call'[d] = call[d]
        /\ live' \in [Panels -> Activations \cup {None}] /\ shown' \in [Panels -> Contents]
        /\ \A p \in Panels \ {"detail"} : live'[p] = numbers[p] /\ shown'[p] = panels[p]
        /\ \/ /\ call'[c].at = "detail" /\ call'[c].view = selected
              /\ live'["detail"] = c /\ shown'["detail"].is = "loading"
           \/ /\ call'[c].at = "idle"
              /\ live'["detail"] = numbers["detail"] /\ shown'["detail"] = panels["detail"]
    BY <1>0, <1>4, WentOn
  <2>2. /\ live'["search"] = live["search"] /\ shown'["search"] = shown["search"]
        /\ live'["explorer"] = live["explorer"] /\ shown'["explorer"] = shown["explorer"]
        /\ live'["graph"] = numbers["graph"]
    BY <1>4, <2>1 DEF Panels
  <2>3. \A p \in Panels : numbers[p] # c
    BY <1>2, <1>3, <1>4
  <2>4. "detail" \in Awaits("detail") /\ "detail" \in Panels
    BY DEF Awaits, Panels
  <2>5. \A p \in Panels :
            /\ live'[p] \in {None, c, live[p]}
            /\ live'[p] = c => call'[c].at \in Awaits(p) /\ call'[c].view = selected
    BY <1>4, <2>1, <2>3, <2>4
  <2>6. \A p \in {"search", "detail", "explorer"} : shown'[p] = shown[p] \/ shown'[p].is # "answer"
    BY <1>4, <2>1, <2>2
  <2>7. \/ shown'["detail"].is # "loading" \/ live'["detail"] = c
        \/ shown'["detail"] = shown["detail"] /\ live'["detail"] = live["detail"]
    BY <1>4, <2>1
  <2>8. call[c].at \notin {"select scan", "select git"}
    BY <1>1
  <2>9. PageTypes' /\ LiveAsksSelected' /\ SelectedViewOnly' /\ WaitingPanelsAwaited'
    BY <1>0, <1>1, <1>3, <2>1, <2>2, <2>5, <2>6, <2>7, <2>8, PageFrame
  <2>10. EngineTypes'
    BY <1>0, <1>1, <2>1, EngineFrame DEF Scans
  <2>11. call'[c].at # "focus"
    BY <2>1
  <2>12. QED
    BY <2>1, <2>2, <2>9, <2>10, <2>11
<1>5. CASE /\ live["graph"] = c /\ Recorded(c)
           /\ GoesOn(c, [live EXCEPT !["graph"] = None, !["detail"] = None],
                        [shown EXCEPT !["graph"] = About(call[c].view), !["detail"] = Blank("empty")])
  <2> DEFINE numbers == [live EXCEPT !["graph"] = None, !["detail"] = None]
             panels == [shown EXCEPT !["graph"] = About(call[c].view), !["detail"] = Blank("empty")]
  <2>1. /\ numbers \in [Panels -> Activations \cup {None}] /\ panels \in [Panels -> Contents]
        /\ numbers["graph"] = None
        /\ \A p \in Panels : numbers[p] \in {None, live[p]}
        /\ \A p \in {"search", "explorer"} : numbers[p] = live[p] /\ panels[p] = shown[p]
        /\ panels["detail"].is = "empty"
    <3>1. Blank("empty") \in Contents /\ Blank("empty").is = "empty" /\ About(call[c].view) \in Contents
      BY <1>1, BlankTyped DEF Calls
    <3>2. QED
      BY <1>0, <3>1 DEF PageTypes, Panels
  <2>2. GoesOn(c, numbers, panels)
    BY <1>5
  <2> HIDE DEF numbers, panels
  <2>3. /\ PageTypes' /\ EngineTypes' /\ LiveAsksSelected' /\ SelectedViewOnly' /\ WaitingPanelsAwaited'
        /\ \A d \in Activations \ {c} : call'[d] = call[d]
        /\ call'[c].at # "focus" /\ live'["graph"] = None
    BY <1>3, <1>4, <2>1, <2>2
  <2>4. FocusTypes' /\ HistoryMatchesRoot'
    <3>1. /\ call[c].id \in Symbols /\ call[c].back \in Nat
          /\ call[c].back # 0 => /\ call[c].back \in DOMAIN focusHistory
                                 /\ focusHistory[call[c].back] = call[c].id
      BY <1>0, <1>1, <1>5 DEF FocusStaysInHistory, Calls
    <3>2. QED
      BY <1>0, <1>5, <3>1, RecordedKeeps
  <2>5. FocusStaysInHistory'
    <3>1. \A d \in Activations : d # None
      BY WorkbenchAssumption
    <3>2. \A d \in Activations : call'[d].at = "focus" => call'[d].id \in Symbols
      BY <1>0, <2>3 DEF FocusStaysInHistory
    <3>3. QED
      BY <2>3, <3>1, <3>2 DEF FocusStaysInHistory
  <2>6. QED
    BY <2>3, <2>4, <2>5 DEF Inductive, TypeOK
<1>6. ASSUME NEW numbers \in [Panels -> Activations \cup {None}],
             \/ live["graph"] # c /\ numbers = live
             \/ live["graph"] = c /\ numbers = [live EXCEPT !["graph"] = None],
             GoesOn(c, numbers, shown), UNCHANGED focusVars
      PROVE  Inductive'
  <2>1. /\ numbers["graph"] # c
        /\ \A p \in Panels : numbers[p] \in {None, live[p]}
        /\ \A p \in Panels \ {"graph"} : numbers[p] = live[p]
    BY <1>0, <1>3, <1>6 DEF PageTypes, Panels
  <2>2. /\ shown \in [Panels -> Contents]
        /\ numbers["search"] = live["search"] /\ numbers["explorer"] = live["explorer"]
        /\ numbers["detail"] = live["detail"]
    BY <1>0, <2>1 DEF PageTypes, Panels
  <2>3. /\ PageTypes' /\ EngineTypes' /\ LiveAsksSelected' /\ SelectedViewOnly' /\ WaitingPanelsAwaited'
        /\ \A d \in Activations \ {c} : call'[d] = call[d]
        /\ call'[c].at # "focus" /\ live'["graph"] = numbers["graph"]
    BY <1>4, <1>6, <2>1, <2>2
  <2>4. \A d \in Activations \ {c} : live'["graph"] = d => live["graph"] = d
    <3>1. numbers["graph"] \in {None, live["graph"]} /\ \A d \in Activations : d # None
      BY <2>1, WorkbenchAssumption DEF Panels
    <3>2. QED
      BY <2>3, <3>1
  <2>5. UNCHANGED <<focusHistory, focusHistoryIndex>> /\ rootID' \in {rootID, None}
    BY <1>6 DEF focusVars
  <2>6. FocusTypes' /\ FocusStaysInHistory' /\ HistoryMatchesRoot'
    BY <1>0, <2>3, <2>4, <2>5, FocusFrame
  <2>7. QED
    BY <2>3, <2>6 DEF Inductive, TypeOK
<1>7. live \in [Panels -> Activations \cup {None}] /\ "graph" \in Panels
  BY <1>0 DEF PageTypes, Panels
<1>8. CASE live["graph"] # c /\ GoesOn(c, live, shown) /\ UNCHANGED focusVars
  BY <1>6, <1>7, <1>8
<1>9. CASE live["graph"] = c /\ GoesOn(c, [live EXCEPT !["graph"] = None], shown) /\ UNCHANGED focusVars
  <2>1. [live EXCEPT !["graph"] = None] \in [Panels -> Activations \cup {None}]
    BY <1>7
  <2>2. QED
    BY <1>6, <1>9, <2>1
<1>10. QED
  BY <1>5, <1>8, <1>9 DEF FocusArrives

-----------------------------------------------------------------------------
(* Rescanning.                                                             *)

\* What an activation of a rescan has before its answer is looked at.
LEMMA RescanArrivals ==
    ASSUME Inductive, NEW c \in Activations,
           NEW at \in {"rescan scan", "rescan graph", "rescan search"}, call[c].at = at
    PROVE  /\ c # None /\ About(call[c].view) \in Contents /\ Blank("empty") \in Contents
           /\ Blank("empty").is = "empty"
           /\ About(call[c].view).is = "answer" /\ About(call[c].view).view = call[c].view
           /\ live \in [Panels -> Activations \cup {None}] /\ shown \in [Panels -> Contents]
           /\ \A p \in Panels : live[p] = c => p = "search" /\ at = "rescan search"
           /\ live["search"] = c => call[c].view = selected
           /\ "explorer" \in Panels /\ "search" \in Panels
           /\ "rescan search" \in Awaits("search") /\ "rescan files" \in Awaits("explorer")
           /\ call[c].at \notin {"select scan", "select git"}
<1>1. PageTypes /\ LiveAsksSelected
  BY DEF Inductive, TypeOK
<1>2. call[c] \in Calls
  BY <1>1, CallTyped DEF Places
<1>3. /\ About(call[c].view) \in Contents /\ Blank("empty") \in Contents
      /\ Blank("empty").is = "empty"
      /\ About(call[c].view).is = "answer" /\ About(call[c].view).view = call[c].view
  BY <1>2, BlankTyped DEF Calls
<1>4. \A p \in Panels : live[p] = c => p = "search" /\ at = "rescan search"
  BY <1>1, OwnPanel DEF Awaits, Panels
<1>5. live["search"] = c => call[c].view = selected
  BY <1>1, OwnPanel DEF Panels
<1>6. "rescan search" \in Awaits("search") /\ "rescan files" \in Awaits("explorer")
  BY DEF Awaits
<1>7. QED
  BY <1>1, <1>3, <1>4, <1>5, <1>6, WorkbenchAssumption DEF PageTypes, Panels

LEMMA RescanArrivesKeeps ==
    ASSUME Inductive, NEW c \in Activations, RescanArrives(c)
    PROVE  Inductive'
<1>1. /\ call[c].at = "rescan scan" /\ UNCHANGED <<engineVars, selected, busy>>
      /\ UNCHANGED <<focusHistory, focusHistoryIndex>> /\ rootID' \in {rootID, None}
  BY DEF RescanArrives, Succeeds, focusVars
<1> DEFINE hidden == [live EXCEPT !["detail"] = None, !["search"] = None]
<1>2. PICK at \in {"rescan graph", "rescan search", "rescan files"} :
          /\ Sends(c, at, selected)
          /\ \/ at = "rescan graph" /\ live' = hidden
             \/ at = "rescan search" /\ live' = [hidden EXCEPT !["search"] = c]
             \/ at = "rescan files" /\ live' = [hidden EXCEPT !["explorer"] = c]
  BY DEF RescanArrives
<1>3. shown' = [shown EXCEPT !["git"] = About(call[c].view), !["detail"] = Blank("empty"), !["search"] = Blank("empty")]
  BY DEF RescanArrives
<1>4. /\ c # None /\ About(call[c].view) \in Contents /\ Blank("empty") \in Contents
      /\ Blank("empty").is = "empty"
      /\ live \in [Panels -> Activations \cup {None}] /\ shown \in [Panels -> Contents]
      /\ \A p \in Panels : live[p] # c
      /\ "rescan search" \in Awaits("search") /\ "rescan files" \in Awaits("explorer")
      /\ call[c].at \notin {"select scan", "select git"}
  BY <1>1, RescanArrivals
<1>5. /\ shown' \in [Panels -> Contents]
      /\ shown'["search"].is = "empty" /\ shown'["detail"].is = "empty"
      /\ shown'["explorer"] = shown["explorer"]
  BY <1>3, <1>4 DEF Panels
<1>6. /\ hidden \in [Panels -> Activations \cup {None}]
      /\ hidden["search"] = None /\ hidden["explorer"] = live["explorer"]
      /\ \A p \in Panels : hidden[p] \in {None, live[p]} /\ hidden[p] # c
      /\ "search" \in Panels /\ "explorer" \in Panels
  BY <1>4 DEF Panels
<1> HIDE DEF hidden
<1>7. /\ live' \in [Panels -> Activations \cup {None}]
      /\ \A p \in Panels : \/ live'[p] \in {None, live[p]} /\ live'[p] # c
                           \/ live'[p] = c /\ at \in Awaits(p)
      /\ live'["explorer"] = c \/ live'["explorer"] = live["explorer"]
  <2>1. CASE at = "rescan graph" /\ live' = hidden
    BY <1>6, <2>1
  <2>2. CASE at = "rescan search" /\ live' = [hidden EXCEPT !["search"] = c]
    BY <1>4, <1>6, <2>2
  <2>3. CASE at = "rescan files" /\ live' = [hidden EXCEPT !["explorer"] = c]
    BY <1>4, <1>6, <2>3
  <2>4. QED
    BY <1>2, <2>1, <2>2, <2>3
<1>8. \A p \in {"search", "detail", "explorer"} : shown'[p] = shown[p] \/ shown'[p].is # "answer"
  BY <1>5
<1>9. Sends(c, at, selected)
  BY <1>2
<1>10. Hands(c, at)
  BY <1>7 DEF Hands
<1>11. Leaves(c)
  BY <1>5, <1>7, <1>8 DEF Leaves
<1>12. QED
  BY <1>1, <1>4, <1>9, <1>10, <1>11, AskingKeeps

LEMMA RescanGraphKeeps ==
    ASSUME Inductive, NEW c \in Activations, RescanGraphArrives(c) \/ RootIsGone(c)
    PROVE  Inductive'
<1>1. /\ call[c].at = "rescan graph" /\ UNCHANGED <<engineVars, selected, busy>>
      /\ UNCHANGED <<focusHistory, focusHistoryIndex>> /\ rootID' \in {rootID, None}
      /\ Sends(c, "rescan files", selected)
  BY DEF RescanGraphArrives, RootIsGone, LoadExplorer, Succeeds, focusVars
<1>2. PICK what \in {About(call[c].view), Blank("empty")} : shown' = [shown EXCEPT !["graph"] = what]
  BY DEF RescanGraphArrives, RootIsGone
<1>3. \/ live' = [live EXCEPT !["explorer"] = c]
      \/ live' = [live EXCEPT !["graph"] = None, !["explorer"] = c]
  BY DEF RescanGraphArrives, RootIsGone, LoadExplorer
<1>4. /\ c # None /\ what \in Contents
      /\ live \in [Panels -> Activations \cup {None}] /\ shown \in [Panels -> Contents]
      /\ \A p \in Panels : live[p] # c
      /\ "rescan files" \in Awaits("explorer")
      /\ call[c].at \notin {"select scan", "select git"}
  <2>1. /\ c # None /\ About(call[c].view) \in Contents /\ Blank("empty") \in Contents
        /\ live \in [Panels -> Activations \cup {None}] /\ shown \in [Panels -> Contents]
        /\ \A p \in Panels : live[p] # c
        /\ "rescan files" \in Awaits("explorer")
        /\ call[c].at \notin {"select scan", "select git"}
    BY <1>1, RescanArrivals
  <2>2. QED
    BY <1>2, <2>1
<1>5. /\ shown' \in [Panels -> Contents]
      /\ shown'["search"] = shown["search"] /\ shown'["detail"] = shown["detail"]
      /\ shown'["explorer"] = shown["explorer"]
  BY <1>2, <1>4 DEF Panels
<1>6. /\ live' \in [Panels -> Activations \cup {None}]
      /\ live'["explorer"] = c /\ live'["detail"] = live["detail"]
      /\ \A p \in Panels \ {"explorer"} : live'[p] \in {None, live[p]} /\ live'[p] # c
  BY <1>3, <1>4 DEF Panels
<1>7. \A p \in Panels : \/ live'[p] \in {None, live[p]} /\ live'[p] # c
                        \/ live'[p] = c /\ "rescan files" \in Awaits(p)
  BY <1>4, <1>6
<1>8. \A p \in {"search", "detail", "explorer"} : shown'[p] = shown[p]
  BY <1>5
<1>9. Hands(c, "rescan files")
  BY <1>6, <1>7 DEF Hands
<1>10. Leaves(c)
  BY <1>5, <1>6, <1>8 DEF Leaves
<1>11. QED
  BY <1>1, <1>4, <1>9, <1>10, AskingKeeps

LEMMA RescanSearchKeeps ==
    ASSUME Inductive, NEW c \in Activations, RescanSearchArrives(c)
    PROVE  Inductive'
<1>1. /\ call[c].at = "rescan search" /\ UNCHANGED <<engineVars, selected, busy>>
      /\ UNCHANGED <<focusHistory, focusHistoryIndex>> /\ rootID' \in {rootID, None}
      /\ Sends(c, "rescan files", selected)
  BY DEF RescanSearchArrives, Succeeds, focusVars
<1>2. /\ shown' = IF live["search"] = c THEN [shown EXCEPT !["search"] = About(call[c].view)] ELSE shown
      /\ live' = [live EXCEPT !["search"] = IF @ = c THEN None ELSE @, !["explorer"] = c]
  BY DEF RescanSearchArrives
<1>3. /\ c # None /\ About(call[c].view) \in Contents
      /\ About(call[c].view).view = call[c].view
      /\ live \in [Panels -> Activations \cup {None}] /\ shown \in [Panels -> Contents]
      /\ \A p \in Panels : live[p] = c => p = "search"
      /\ live["search"] = c => call[c].view = selected
      /\ "rescan files" \in Awaits("explorer")
      /\ call[c].at \notin {"select scan", "select git"}
  BY <1>1, RescanArrivals
<1>4. /\ shown' \in [Panels -> Contents]
      /\ shown'["search"] = shown["search"] \/ shown'["search"].view = selected
      /\ shown'["detail"] = shown["detail"] /\ shown'["explorer"] = shown["explorer"]
  <2>1. CASE live["search"] = c
    BY <1>2, <1>3, <2>1 DEF Panels
  <2>2. CASE live["search"] # c
    BY <1>2, <1>3, <2>2
  <2>3. QED
    BY <2>1, <2>2
<1>5. /\ live' \in [Panels -> Activations \cup {None}]
      /\ live'["explorer"] = c /\ live'["detail"] = live["detail"]
      /\ \A p \in Panels \ {"explorer"} : live'[p] \in {None, live[p]} /\ live'[p] # c
  <2>1. PICK number \in {None, live["search"]} :
            number # c /\ live' = [live EXCEPT !["search"] = number, !["explorer"] = c]
    <3>1. CASE live["search"] = c
      BY <1>2, <1>3, <3>1 DEF Panels
    <3>2. CASE live["search"] # c
      BY <1>2, <1>3, <3>2 DEF Panels
    <3>3. QED
      BY <3>1, <3>2
  <2>2. number \in Activations \cup {None}
    BY <1>3 DEF Panels
  <2>3. QED
    BY <1>3, <2>1, <2>2 DEF Panels
<1>6. \A p \in Panels : \/ live'[p] \in {None, live[p]} /\ live'[p] # c
                        \/ live'[p] = c /\ "rescan files" \in Awaits(p)
  BY <1>3, <1>5
<1>7. \A p \in {"search", "detail", "explorer"} : shown'[p] = shown[p] \/ shown'[p].view = selected
  BY <1>4
<1>8. Hands(c, "rescan files")
  BY <1>5, <1>6 DEF Hands
<1>9. Leaves(c)
  BY <1>4, <1>5, <1>7 DEF Leaves
<1>10. QED
  BY <1>1, <1>3, <1>8, <1>9, AskingKeeps

LEMMA RescanFailsKeeps ==
    ASSUME Inductive, NEW c \in Activations, RescanFails(c)
    PROVE  Inductive'
<1>0. PageTypes
  BY DEF Inductive, TypeOK
<1>1. /\ Returns(c) /\ Forgets(c, "search") /\ busy' = FALSE
      /\ UNCHANGED <<engineVars, selected, focusVars>>
  BY DEF RescanFails
<1>2. PICK at \in {"rescan scan", "rescan graph", "rescan search"} : call[c].at = at
  BY DEF RescanFails, Fails
<1>3. /\ \A p \in Panels : live[p] = c => p = "search"
      /\ call[c].at \notin {"select scan", "select git"}
      /\ "search" \in Panels
  BY <1>2, RescanArrivals
<1>4. /\ live' \in [Panels -> Activations \cup {None}] /\ shown' = shown
      /\ \A q \in Panels \ {"search"} : live'[q] = live[q]
      /\ live'["search"] # c /\ live'["search"] \in {None, live["search"]}
  BY <1>0, <1>1, <1>3, Forgotten
<1>5. /\ shown' \in [Panels -> Contents]
      /\ \A p \in Panels : live'[p] \in {None, live[p]} /\ live'[p] # c
  BY <1>0, <1>3, <1>4 DEF PageTypes
<1>6. \A p \in Panels : \/ shown'[p] = shown[p] /\ live'[p] = live[p]
                        \/ p \notin {"detail", "explorer"} /\ shown'[p] = shown[p]
  BY <1>4
<1>7. QED
  BY <1>1, <1>3, <1>4, <1>5, <1>6, ReturningKeeps

-----------------------------------------------------------------------------
(* The theorems.                                                           *)

LEMMA NextKeeps ==
    ASSUME Inductive, Next
    PROVE  Inductive'
<1>1. CASE HideDetail
  BY <1>1, HideDetailKeeps
<1>2. ASSUME NEW c \in Activations, StartScan(c) \/ FinishScan(c)
      PROVE  Inductive'
  BY <1>2, ScanKeeps
<1>3. ASSUME NEW c \in Activations, Arrivals(c)
      PROVE  Inductive'
  BY <1>3, ProjectsKeep, SelectScanKeeps, GitStatusKeeps, PanelArrivalsKeep, FocusArrivesKeeps,
     RescanArrivesKeeps, RescanGraphKeeps, RescanSearchKeeps, RescanFailsKeeps DEF Arrivals
<1>4. ASSUME NEW c \in Activations, Clicks(c)
      PROVE  Inductive'
  BY <1>4, ChooseKeeps, ChooseProjectKeeps, SearchKeeps, FocusClicksKeep, LoadGraphKeeps,
     ShowDetailKeeps, RescanKeeps DEF Clicks
<1>5. QED
  BY <1>1, <1>2, <1>3, <1>4 DEF Next

\* The inductive invariant holds in every state the page can be in between two
\* stretches of its code.
THEOREM WorkbenchInvariance == Spec => []Inductive
<1>1. Init => Inductive
  BY InitInductive
<1>2. Inductive /\ [Next]_vars => Inductive'
  <2>1. Inductive /\ Next => Inductive'
    BY NextKeeps
  <2>2. Inductive /\ UNCHANGED vars => Inductive'
    BY DEF Inductive, TypeOK, PageTypes, FocusTypes, EngineTypes, LiveAsksSelected, Awaits,
       SelectedViewOnly, WaitingPanelsAwaited, SelectionUnderWay, FocusStaysInHistory,
       HistoryMatchesRoot, vars, engineVars, focusVars
  <2>3. QED
    BY <2>1, <2>2
<1>3. QED
  BY <1>1, <1>2, PTL DEF Spec

\* Every variable of the page and of the engine behind it keeps its type.
THEOREM PageTypeCorrect == Spec => []TypeOK
<1>1. Inductive => TypeOK
  BY DEF Inductive
<1>2. QED
  BY <1>1, WorkbenchInvariance, PTL

\* However late an answer about another view arrives, the results, the details and the
\* files on the page are about the selected one (the request numbers of app.js).
THEOREM PanelsShowSelectedView == Spec => []SelectedViewOnly
<1>1. Inductive => SelectedViewOnly
  BY DEF Inductive
<1>2. QED
  BY <1>1, WorkbenchInvariance, PTL

\* When the page has nothing under way, the files of the selected view are listed or
\* declared unavailable and no detail panel is still loading, whatever failed or was
\* overtaken on the way.
THEOREM NoPanelIsLeftWaiting == Spec => []PanelsSettle
<1>1. Inductive => PanelsSettle
  <2> SUFFICES ASSUME Inductive, AtRest
               PROVE  /\ shown["detail"].is # "loading"
                      /\ selected # None => shown["explorer"].is # "empty"
    BY DEF PanelsSettle
  <2>1. PageTypes /\ LiveAsksSelected /\ WaitingPanelsAwaited
    BY DEF Inductive, TypeOK
  <2>2. \A c \in Activations : call[c].at = "idle"
    BY DEF AtRest, Idle
  <2>3. \A p \in Panels : "idle" \notin Awaits(p)
    BY DEF Awaits, Panels
  <2>4. \A p \in Panels : live[p] = None
    BY <2>1, <2>2, <2>3 DEF LiveAsksSelected, PageTypes
  <2>5. ~SelectionUnderWay
    BY <2>2 DEF SelectionUnderWay
  <2>6. QED
    BY <2>1, <2>4, <2>5 DEF WaitingPanelsAwaited, Panels
<1>2. QED
  BY <1>1, WorkbenchInvariance, PTL

\* The function in focus is the one the history stands at, whatever focus, navigation,
\* switch of view or rescan overtook another.
THEOREM HistoryStandsAtRoot == Spec => []HistoryMatchesRoot
<1>1. Inductive => HistoryMatchesRoot
  BY DEF Inductive
<1>2. QED
  BY <1>1, WorkbenchInvariance, PTL
==============================================================================
