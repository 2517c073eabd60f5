CONSTANTS
    Functions = {f1, f2, f3}
    FactSets <- Facts
    EdgeSets <- Graphs
    RequestSets <- EveryRequest
    DefaultPageLimit = 1
    MaxPageLimit = 2
    MaxExplorerFiles = 2
SPECIFICATION AnswersSpec
SYMMETRY Interchangeable
INVARIANT PurityIgnoresOrder
INVARIANT InferredPureReachesNoEffect
INVARIANT FocusIsNeighborhood
INVARIANT CallersReviewedFirst
INVARIANT ChangesAttributed
INVARIANT GoCallsAccounted
INVARIANT DirectCallsAccounted
INVARIANT PagesPartition
CHECK_DEADLOCK FALSE
