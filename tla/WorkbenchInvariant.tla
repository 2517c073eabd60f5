------------------------- MODULE WorkbenchInvariant -------------------------
(***************************************************************************)
(* The inductive invariant behind the safety properties of Workbench: what *)
(* is true of the page whenever no stretch of its code runs.               *)
(***************************************************************************)
EXTENDS Workbench

Places ==
    {"list", "select scan", "select git", "files", "search", "focus", "reload", "detail",
     "rescan scan", "rescan graph", "rescan search", "rescan files"}

Calls ==
    [at : Places, view : Views \cup {None}, id : Symbols \cup {None}, back : Nat,
     open : BOOLEAN, stage : {"sent", "scanning", "200", "409", "500"}]

Contents ==
    [is : {"empty", "loading", "unavailable", "answer"}, view : Views \cup {None}]

PageTypes ==
    /\ selected \in Views \cup {None}
    /\ call \in [Activations -> Calls \cup {NoCall}]
    /\ live \in [Panels -> Activations \cup {None}]
    /\ shown \in [Panels -> Contents]
    /\ busy \in BOOLEAN

FocusTypes ==
    /\ rootID \in Symbols \cup {None}
    /\ focusHistory \in Seq(Symbols)
    /\ focusHistoryIndex \in 0..Len(focusHistory)

EngineTypes ==
    /\ scanned \subseteq Views
    /\ loadState \in [Views -> {"unscanned", "loading", "ready", "failed"}]
    /\ \A c \in Activations : call[c].at \in Scans => call[c].view \in Views

TypeOK == PageTypes /\ FocusTypes /\ EngineTypes

\* Where an activation waits for what panel p is to show.
Awaits(p) ==
    CASE p = "search"   -> {"search", "rescan search"}
      [] p = "graph"    -> {"focus", "reload"}
      [] p = "detail"   -> {"detail"}
      [] p = "explorer" -> {"files", "rescan files"}
      [] p = "git"      -> {}

\* Whoever may still fill a panel waits for an answer about the selected view.
LiveAsksSelected ==
    \A p \in Panels : live[p] # None =>
        call[live[p]].at \in Awaits(p) /\ call[live[p]].view = selected

\* A panel that waits has somebody who will fill it: the activation that is live, or,
\* for the files, the selection that will ask for them.
SelectionUnderWay == \E c \in Activations : call[c].at \in {"select scan", "select git"}

WaitingPanelsAwaited ==
    /\ shown["detail"].is = "loading" => live["detail"] # None
    /\ selected # None /\ shown["explorer"].is = "empty" =>
          live["explorer"] # None \/ SelectionUnderWay

\* The focus that may still be recorded leads to the place in the history it was
\* started for, and names a function.
FocusStaysInHistory ==
    \A c \in Activations : call[c].at = "focus" =>
        /\ call[c].id \in Symbols
        /\ live["graph"] = c /\ call[c].back # 0 =>
              /\ call[c].back \in DOMAIN focusHistory
              /\ focusHistory[call[c].back] = call[c].id

Inductive ==
    /\ TypeOK
    /\ LiveAsksSelected
    /\ SelectedViewOnly
    /\ WaitingPanelsAwaited
    /\ FocusStaysInHistory
    /\ HistoryMatchesRoot
=============================================================================
