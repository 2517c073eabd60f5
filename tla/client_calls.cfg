CONSTANTS
    None = None
    Calls = {c1, c2}
    Notices = 1
    Capacity = 2
SPECIFICATION FairSpec
INVARIANT OwnAnswer
INVARIANT ClosedOnlyUnread
INVARIANT NoCallStranded
INVARIANT NoticesBeforeAnswer
PROPERTY CrashReleasesCallers
PROPERTY AnsweredCallReturns
PROPERTY WaitingCallHonorsContext
