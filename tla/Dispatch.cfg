SPECIFICATION Spec
CONSTANTS
    root = root
    app = app
    h1 = h1
    h2 = h2
    h3 = h3
    r1 = r1
    r2 = r2
    object = object
    polite = polite
    callable = callable
    None = None
    Loggers = {root, app}
    Handlers = {h1, h2, h3}
    Records = {r1, r2}
    Filters = {object, polite, callable}
    Methods = {object, polite}
    MaxChanges = 3
    Parent <- MCParent
    Enabled <- MCEnabled
    Wanted <- MCWanted
    Faulty <- MCFaulty
    Refusing <- MCRefusing
    Raising <- MCRaising
    InitialHandlers <- MCInitialHandlers
    InitialFilters <- MCInitialFilters
INVARIANTS
    EveryHandlerServed
    RefusedStaysOut
    FallbackIsLast
