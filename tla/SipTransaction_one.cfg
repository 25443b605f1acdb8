CONSTANTS
    Workers = 1
    AsyncSend = TRUE
SPECIFICATION Spec
INVARIANTS
    TypeOK
    HoldersCounted
PROPERTIES
    StateForward
    ToldInOrder
    EndsDestroyed
CHECK_DEADLOCK FALSE
