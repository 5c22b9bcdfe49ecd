SPECIFICATION Spec
CONSTANTS
    a = a
    b = b
    f = f
    g = g
    Free = Free
    Source = {a}
    Film = {f}
    Ending = {"done", "stopped", "failed"}
    MaxFailures = 1
    MaxInvalidations = 1
INVARIANTS
    QueueServed
    
CHECK_DEADLOCK FALSE
