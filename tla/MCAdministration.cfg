SPECIFICATION AdministrationSpec
CONSTANTS
    s1 = s1
    a1 = a1
    a2 = a2
    c1 = c1
    c2 = c2
    Part = {"once", "twice", "site", "bot"}
    Source = {s1}
    Address = {a1, a2}
    Caller = {c1, c2}
    Capacity = 1
    Deletions = 2
    Additions = 1
    Presses = 2
    MaxFaults = 1
    MaxCrashes = 1
    Off = Off
    MaxSaves = 3
    MaxPresses = 1
    MaxTroubles = 1
SYMMETRY Alike
INVARIANTS
    NothingLeftBehind
    RegistersTrue
    
    PollerSafe
CHECK_DEADLOCK FALSE
