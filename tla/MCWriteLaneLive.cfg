SPECIFICATION FairSpec
CONSTANTS
    a = a
    b = b
    a1 = a1
    a2 = a2
    a3 = a3
    b1 = b1
    b2 = b2
    w1 = w1
    w2 = w2
    d1 = d1
    NoPage = NoPage
    Source = {a, b}
    Page = {a1, b1}
    SourceOf <- OneEach
    Worker = {w1, w2}
    Drainer = {d1}
    Stoppable = {a}
    MaxPerSource = 1
    MaxGlobal = 1
PROPERTIES
    PagesAccountedFor
    NoPageForgotten
    EveryoneIsAnswered
CHECK_DEADLOCK FALSE
