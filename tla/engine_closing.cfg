CONSTANTS
    w1 = w1
    w2 = w2
    v1 = v1
    v2 = v2
    None = None
    Workspaces = {w1}
    Views = {v1, v2}
    WorkspaceOf <- SharedWorkspace
    Analyses = {a1, a2}
    Requests = {r1, r2}
    Operations = {"open", "close", "start", "cancel"}
SPECIFICATION Spec
SYMMETRY Interchangeable
INVARIANT OneAnalysisPerView
INVARIANT AcknowledgedCancelNeverPublishes
INVARIANT StartResponseFirst
INVARIANT LoadStateMatchesNotifications
INVARIANT QuietAfterShutdown
