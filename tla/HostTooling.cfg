SPECIFICATION Spec
CONSTANTS
    None = None
    test = test
    restore = restore
    cover = cover
    ui = ui
    core = core
    ours = ours
    theirs = theirs
    api = api
    react = react
    Trees = {t1, t2}
    MaxCommits = 2
    Order <- MCOrder
    Required = {test, restore, cover}
    Coverage = cover
    Restoring = {restore}
    Ids = {i1, i2}
    Bytes = {b1, b2}
    MaxPacks = 4
    Projects = {ui, core}
    Versions = {v1, v2}
    Assemblies = {ours, theirs}
    Producers <- MCProducers
    Jobs = {app, other}
    Ours = app
    Suites = {api, react}
    Script <- MCScript
    Baseline <- MCBaseline
    MaxScore = 1
    MaxSessions = 2
    notes = notes
    code = code
    workflow = workflow
    Heads = {notes, code, workflow}
    FirstHead = code
    Branches = {main, release}
    Main = main
    Changes <- MCChanges
    MaxTime = 1
    MaxEvents = 4
INVARIANTS
    ReceiptIsHonest
    PromotedWasConsumed
    FeedIsWhole
    HeldIsMeasured
    
    PassIsEarned
    RiskyIsSecured
    ArmedWasReviewed
SYMMETRY Symmetry
CHECK_DEADLOCK FALSE
