SPECIFICATION FairSpec
CONSTANTS
    a = a
    b = b
    s = s
    t = t
    Keeper = Keeper
    Nobody = Nobody
    Run = {a, b}
    Retry = {}
    Single = {b}
    StopOne = {}
    StopAll = {t}
    MaxPurges = 0
PROPERTIES
    EntrySettles
CHECK_DEADLOCK FALSE
