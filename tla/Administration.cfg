SPECIFICATION FairAppSpec
CONSTANTS
    d1 = d1
    officer = officer
    steward = steward
    a1 = a1
    a2 = a2
    None = None
    Definitions = {d1}
    Roles = {officer, steward}
    Offered <- MCOffered
    Audits = {a1, a2}
    MaxRevision = 2
    MaxSent = 2
    MaxVersions = 1
    MaxActs = 1
    MaxVisits = 1
INVARIANTS
    AppShowsPast
    AsksWithinShown
    TraceIsOfRefusal
PROPERTIES
    AppNeverGoesBack
    AppSettles
CHECK_DEADLOCK FALSE
