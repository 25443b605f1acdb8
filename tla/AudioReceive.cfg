CONSTANTS
    max_count = 3
    MAX_MISORDER = 4
    MAX_DROPOUT = 4
    MAX_FRAME_INDEX = 6
    INIT_CYCLE = 1
    STABLE_HISTORY_LIMIT = 1
    jb_max_burst = 3
    jb_min_prefetch = 1
    jb_max_prefetch = 2
    jb_min_shrink_gap = 1
    MIN_BURST = 1
    MAX_BURST = 3
    T1 = 1
    T2 = 4
    Packets = 6
    Starts = {13}
    Silences = {2}
    InOrderFrom = 10
    IdxMod = 16
    SeqMod = 16
    SeqDropout = 5
    SeqMisorder = 3
    SOFT_START = 1
    Settings <- MCSettings
    MaxFaults = 2
SPECIFICATION Spec
INVARIANTS TypeOK Ring
PROPERTIES ImplementsPlayout Drains
