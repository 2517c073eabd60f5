CONSTANTS
    w1 = w1
    w2 = w2
    v1 = v1
    v2 = v2
    None = None
    Workspaces = {w1}
    Views = {v1}
    WorkspaceOf <- OneView
    Analyses = {a1}
    Requests = {r1}
    Operations = {"open", "start"}
SPECIFICATION Spec
PROPERTY SilentAfterReturn
