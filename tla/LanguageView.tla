---------------------------- MODULE LanguageView ----------------------------
(***************************************************************************)
(* What the engine promises of one language view (the "Publication and     *)
(* retention guarantees" of the protocol, as commit, closeWorkspaceLocked  *)
(* and resolveSnapshot keep them): one attempt at a time, revisions that   *)
(* start at 1 and increase by one with each publication, a current         *)
(* snapshot that stays queryable with its predecessor until the workspace  *)
(* is closed, and attempts that end without publishing and change nothing  *)
(* that can be queried.                                                    *)
(***************************************************************************)
EXTENDS Naturals

VARIABLES
    phase,      \* idle, analyzing or closed
    revision,   \* publications so far
    queryable,  \* revisions of the snapshots a query is answered from
    failure     \* kind of the last attempt's failure, "none" after a publication

viewVars == <<phase, revision, queryable, failure>>

Init ==
    /\ phase = "idle"
    /\ revision = 0
    /\ queryable = {}
    /\ failure = "none"

Start ==
    /\ phase = "idle"
    /\ phase' = "analyzing"
    /\ UNCHANGED <<revision, queryable, failure>>

\* The new snapshot becomes current in one step.  Its predecessor stays queryable
\* if it was; anything older may be evicted.
Publish ==
    /\ phase = "analyzing"
    /\ phase' = "idle"
    /\ revision' = revision + 1
    /\ failure' = "none"
    /\ queryable' \subseteq queryable \cup {revision'}
    /\ revision' \in queryable'
    /\ revision \in queryable => revision \in queryable'

Fail ==
    /\ phase = "analyzing"
    /\ phase' = "idle"
    /\ failure' \in {"loadFailed", "internal"}
    /\ UNCHANGED <<revision, queryable>>

\* A cancelled attempt leaves the state it replaced.
GiveUp ==
    /\ phase = "analyzing"
    /\ phase' = "idle"
    /\ UNCHANGED <<revision, queryable, failure>>

Close ==
    /\ phase # "closed"
    /\ phase' = "closed"
    /\ queryable' = {}
    /\ UNCHANGED <<revision, failure>>

Next == Start \/ Publish \/ Fail \/ GiveUp \/ Close

Spec == Init /\ [][Next]_viewVars
============================================================================
