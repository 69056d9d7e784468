SPECIFICATION FairSpec
CONSTANTS
    a = a
    b = b
    undeclared = undeclared
    early = early
    late = late
    None = None
    Targets <- MCTargets
    Known <- MCKnown
    Rows <- MCRows
    Born <- MCBorn
    MaxRevision = 2
    MaxLoads = 3
INVARIANT ListIsCurrent
INVARIANT WaitingIsAnswered
INVARIANT ActivationIsShown
INVARIANT InspectorFollows
PROPERTY RowsNeverGoBack
PROPERTY LoadingEnds
PROPERTY ReaderProtocol
CHECK_DEADLOCK FALSE
