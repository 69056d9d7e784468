SPECIFICATION Spec
CONSTANTS
    assets = assets
    report = report
    forms = forms
    fourteenth = fourteenth
    ghost = ghost
    inspector = inspector
    pilot = pilot
    lost = lost
    r1 = r1
    r2 = r2
    None = None
    Items <- MCItems
    Assets = assets
    Rows <- MCRows
    Panels <- MCPanels
    Inspector = inspector
    Seeded <- MCSeeded
    Pack <- MCPack
    Fallback <- MCFallback
    Patient = FALSE
INVARIANT LanesAgree
