CONSTANTS
    MaxCalls = 2
    Objs = {o1, o2}
    Peers = {p1}
    NULL = NULL
    MaxTimers = 1
    UiOps = {"ANSWER_CALL"}
    Overlap = FALSE
    CallWaiting = FALSE
    Refer = TRUE
SPECIFICATION Spec
INVARIANTS
    NoDanglingUserData
CHECK_DEADLOCK FALSE
