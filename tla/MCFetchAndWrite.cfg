SPECIFICATION PartSpec
CONSTANTS
    s = s
    g1 = g1
    g2 = g2
    w1 = w1
    w2 = w2
    Part = {"fetch", "film"}
    Page = {g1, g2}
    Worker = {w1, w2}
    NoPage = NoPage
    Slots = 1
    Retries = 1
    FailLimit = 1
    Capacity = 1
    MaxListed = 1
    Source = {s}
    Vod = {1, 2}
    Key = {1, 2}
    MaxTime = 0
    MaxMid = 2
    Requests = 2
INVARIANT PagesSafe
PROPERTIES
    PagesReturn
    WritersEnd
CHECK_DEADLOCK FALSE
