CONSTANTS
    Functions = {f1, f2}
    FactSets <- Facts
    EdgeSets <- NoCalls
    RequestSets <- OnlyUnknownCalls
    DefaultPageLimit = 1
    MaxPageLimit = 2
    MaxExplorerFiles = 2
SPECIFICATION AnswersSpec
INVARIANT EveryCallAccounted
CHECK_DEADLOCK FALSE
