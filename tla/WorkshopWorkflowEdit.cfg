SPECIFICATION Spec
CONSTANTS
    Packs = {p1}
    Forms = {f1}
    None = None
    Malformed = Malformed
    MaxGeneration = 9
    MaxExports = 1
    MaxRecords = 1
SYMMETRY Symmetry
INVARIANT EditWithdrawsArtifact
CHECK_DEADLOCK FALSE
