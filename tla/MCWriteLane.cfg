SPECIFICATION Spec
CONSTANTS
    a = a
    b = b
    a1 = a1
    a2 = a2
    a3 = a3
    b1 = b1
    b2 = b2
    w1 = w1
    w2 = w2
    d1 = d1
    NoPage = NoPage
    Source = {a, b}
    Page = {a1, a2, b1}
    SourceOf <- TwoAndOne
    Worker = {w1, w2}
    Drainer = {d1}
    Stoppable = {a}
    MaxPerSource = 1
    MaxGlobal = 2
SYMMETRY Workers
INVARIANTS
    LaneSafe
    NobodySleepsInVain
    StoppedStaysOut
CHECK_DEADLOCK FALSE
