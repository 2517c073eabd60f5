CONSTANTS
    w1 = w1
    v1 = v1
    None = None
    Workspaces = {w1}
    Views = {v1}
    WorkspaceOf <- OneView
    Analyses = {a1, a2, a3}
    Requests = {r1, r2}
    Operations = {"open", "close", "start", "query"}
SPECIFICATION Spec
SYMMETRY Interchangeable
INVARIANT RetentionWindow
INVARIANT QueryOutlivesOnePublication
INVARIANT NotificationsInCommitOrder
PROPERTY ImplementsLanguageViews
