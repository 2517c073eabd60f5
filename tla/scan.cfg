CONSTANTS
    None = None
    Scans = {s1, s2}
    Analyses = {1, 2, 3}
    Pages = 2
SPECIFICATION FairSpec
INVARIANT OwnOutcome
INVARIANT NoOutcomeLost
INVARIANT RecordsAreClaimed
INVARIANT UnavailableNeedsTwoPublications
PROPERTY GoneScanFreesView
PROPERTY ScanEnds
