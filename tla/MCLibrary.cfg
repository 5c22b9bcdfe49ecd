SPECIFICATION LibrarySpec
CONSTANTS
    Film = {film1, film2}
    Source = {site1, site2}
    Flusher = Flusher
    Settler = Settler
    Deleter = Deleter
    Nobody = Nobody
    MaxFails = 2
    Part = {"record", "access", "writing", "trees", "cache"}
    LastDay = 3
    Room = 1
    Ttl = 2
    Retention = {0, 1}
    MaxEvents = 2
    MaxClears = 1
    MaxFaults = 1
    Vod = {1, 2}
    Key = {1, 2}
    MaxTime = 1
    MaxMid = 2
    MaxPages = 2
    Site <- Sites
    Type = {1, 2}
    OtherType = 3
    MaxCat = 5
    MaxOrders = 3
    Shown = {f}
    Reader = {r}
    Timer = Timer
    None = None
    MaxCommits = 2
    Owner = {owner}
    Actor = {proc1, proc2}
SYMMETRY Alike
INVARIANTS
    RecordKeeps
    SettledCounts
    OneVodPerFilm
    CategoriesSound
    
    
PROPERTIES
    LinesNeverAge
    HiddenStaysHidden
CHECK_DEADLOCK FALSE
