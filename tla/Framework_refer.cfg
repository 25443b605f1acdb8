CONSTANTS
    MaxCalls = 2
    Objs = {o1, o2}
    Peers = {p1}
    NULL = NULL
    MaxTimers = 1
    UiOps = {"ANSWER_CALL", "HANGUP_CALL", "MUTE_CALL", "UNMUTE_CALL", "HOLD_CALL", "UNHOLD_CALL"}
    Overlap = FALSE
    CallWaiting = TRUE
    Refer = TRUE
SPECIFICATION Spec
SYMMETRY Sym
INVARIANTS
    CallPointerLive
    MicOnlyToCalls
    MediaOfActive
CHECK_DEADLOCK FALSE
