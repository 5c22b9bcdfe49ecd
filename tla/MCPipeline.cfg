SPECIFICATION PipelineSpec
CONSTANTS
    film1 = film1
    film2 = film2
    main = main
    backup = backup
    Part = {"stream", "stats", "search"}
    Film = {film1, film2}
    Run = {main, backup}
    Preferred = {main}
    Ticker = Ticker
    Nobody = Nobody
    PrefLimit = 1
    BackupLimit = 2
    Window = 1
    Backlog = 2
    PageSize = 1
    MaxPages = 2
    MaxFails = 1
    Hour = 2
    Requested = 1
    MaxHours = 2
    Delay = 1
    MaxTime = 5
    MaxRuns = 2
    MaxBreaks = 1
    MaxClears = 1
    Item = {1, 2}
    Meta <- Metas
    Given <- FirstMetas
    Batch <- Batches
    Cap = 1
    Caller = {caller}
    MaxChanges = 2
    MaxTroubles = 1
    New = New
    Gone = Gone
    NoIndex = NoIndex
    Free = Free
SYMMETRY Films
INVARIANTS
    StreamKeeps
    CatchUpSafe
    IndexAgrees
    IndexFresh
PROPERTIES
    SealAfterFlush
CHECK_DEADLOCK FALSE
