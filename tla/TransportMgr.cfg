CONSTANTS
    Transports = {t1}
    Apps = {app1, app2}
    Workers = {worker}
    MaxUsers = 2
    None = None
    IpChanges = TRUE
SPECIFICATION Spec
INVARIANTS TypeOK HeldIsOpen AliveWhenUsed
PROPERTIES UnusedIsReleasedOrLocked
CHECK_DEADLOCK FALSE
