SPECIFICATION FairSpec
CONSTANTS
    Packs = {p1, p2}
    Forms = {f1, f2}
    None = None
    Malformed = Malformed
    MaxGeneration = 14
    MaxExports = 2
    MaxRecords = 2
INVARIANT CandidateIsShown
INVARIANT EvidenceChain
INVARIANT NodeChain
PROPERTY FairNodeProtocol
PROPERTY CommandsSettle
INVARIANT RecordsFollowProjection
INVARIANT EvidenceIsCurrent
CHECK_DEADLOCK FALSE
