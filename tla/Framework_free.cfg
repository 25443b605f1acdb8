CONSTANTS
    MaxCalls = 2
    Objs = {o1, o2}
    Peers = {p1}
    NULL = NULL
    MaxTimers = 2
    UiOps = {"MAKE_CALL", "ANSWER_CALL", "HANGUP_CALL"}
    Overlap = TRUE
    CallWaiting = TRUE
    Refer = FALSE
SPECIFICATION Spec
SYMMETRY Sym
INVARIANTS
    UserDataLive
    NoOrphanCall
PROPERTIES
    ReportsForward
CHECK_DEADLOCK FALSE
