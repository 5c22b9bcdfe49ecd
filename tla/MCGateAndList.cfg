SPECIFICATION PartSpec
CONSTANTS
    i = i
    c = c
    d = d
    s = s
    m = m
    w1 = w1
    w2 = w2
    Part = {"gate", "stream"}
    Job = {i}
    AutoTask = AutoTask
    Center = Center
    Thread = {w1, w2}
    Clear = {c}
    Deleter = {d}
    Ticker = Ticker
    Source = {s}
    Nobody = Nobody
    MaxFires = 2
    MaxCalls = 1
    Film = {m}
    Run = {w1, w2}
    Preferred = {w1}
    PrefLimit = 1
    BackupLimit = 2
    Window = 1
    Backlog = 1
    PageSize = 1
    MaxPages = 1
    MaxFails = 1
INVARIANT GateSafe
PROPERTIES
    LastRunMeansStarted
    GateServes
    FilmsGetListed
CHECK_DEADLOCK FALSE
