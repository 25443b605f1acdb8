CONSTANTS
    MaxCalls = 2
    Objs = {o1, o2}
    Peers = {p1, p2}
    NULL = NULL
    MaxTimers = 1
    UiOps = {"MAKE_CALL", "SEND_INVITE_TO_ANSWER_CALL", "ANSWER_CALL", "HANGUP_CALL", "SEND_DTMF_TONE", "TRANSFER_CALL"}
    Overlap = FALSE
    CallWaiting = FALSE
    Refer = FALSE
SPECIFICATION Spec
INVARIANTS
    TypeOK
    ActiveCallIsControlled
PROPERTIES
    HangupEndsCall
CHECK_DEADLOCK FALSE
