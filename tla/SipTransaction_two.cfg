CONSTANTS
    Workers = 2
    AsyncSend = FALSE
SPECIFICATION Spec
INVARIANTS
    FreedWhenDone
    Armed
CHECK_DEADLOCK FALSE
