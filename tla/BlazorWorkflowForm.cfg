SPECIFICATION Spec
CONSTANTS
    Packs = {p1}
    Forms = {f1, f2}
    None = None
    Malformed = Malformed
    Past = {w1}
    MaxExports = 1
    MaxRecords = 1
INVARIANT RecordUsesBoundForm
