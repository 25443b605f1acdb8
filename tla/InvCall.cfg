SPECIFICATION Spec
CONSTANTS
    MaxFaults = 1
    MaxRetransmits = 1
    MaxByes = 4
    Challenged = {"INVITE", "callee BYE"}
INVARIANTS TypeOK ByeFindsCall
PROPERTIES HungUpEndsOrStranded EndsTogether ConnectingEnds
CHECK_DEADLOCK FALSE
