SPECIFICATION FairSpec
CONSTANTS
    Packs = {p1, p2}
    Forms = {f1, f2}
    None = None
    Malformed = Malformed
    Past = {w1}
    MaxExports = 2
    MaxRecords = 2
INVARIANT ArtifactIsAuthored
INVARIANT FlagsFollow
INVARIANT EvidenceIsCurrent
PROPERTY FairNodeProtocol
