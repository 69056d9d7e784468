SPECIFICATION Spec
CONSTANTS
    a = a
    b = b
    undeclared = undeclared
    early = early
    late = late
    None = None
    Targets <- MCTargets
    Known <- MCKnown
    Rows <- MCRows
    Born <- MCBorn
    MaxRevision = 2
    MaxLoads = 3
PROPERTY SelectionKeepsWork
CHECK_DEADLOCK FALSE
