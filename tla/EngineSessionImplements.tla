---------------------- MODULE EngineSessionImplements ----------------------
(***************************************************************************)
(* The session shows every client the LanguageView the protocol promises,  *)
(* whatever the interleaving of handlers, analyses, closing and shutdown.  *)
(***************************************************************************)
EXTENDS EngineSession

Phase(v) ==
    IF ViewClosed(v) THEN "closed"
    ELSE IF active[v] # None THEN "analyzing"
    ELSE "idle"

\* The revisions resolveSnapshot finds in view v.
Queryable(v) == {revisionOf[snapshots[v][i]] : i \in DOMAIN snapshots[v]}

View(v) == INSTANCE LanguageView WITH
               phase <- Phase(v),
               revision <- revision[v],
               queryable <- Queryable(v),
               failure <- failure[v]

ViewStep(v) == View(v)!Next \/ UNCHANGED View(v)!viewVars

\* Every view of the session behaves as its LanguageView: it starts as one, and
\* whatever step the session takes, each view takes one of its own steps or none
\* (one step of the session may close several views).
ImplementsLanguageViews ==
    /\ \A v \in Views : View(v)!Init
    /\ [][\A v \in Views : ViewStep(v)]_vars
============================================================================
