SPECIFICATION Spec
CONSTANTS
    Entries = {e1, e2, e3, e4, e5, e6}
    Pollers = {p1}
    Size = 2
    PerPoll = 2
    MaxTime = 1
    MaxDelay = 1
    MaxSched = 6
    Grouped = {e1}
    Nothing = Nothing
SYMMETRY Symmetry
INVARIANTS TypeOK Arrays RefsCounted
PROPERTY ImplementsTimerSet
CHECK_DEADLOCK FALSE
