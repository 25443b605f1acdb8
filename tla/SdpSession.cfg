CONSTANTS
    Types = {"audio", "video"}
    DynPts = {96, 97, 98}
    DynCodecs = {"speex", "opus", "h264"}
    Offers <- MCOffers
    Media <- MCMedia
    MaxRequests = 4
    Declines = {"request"}
    Habits = {"own", "other", "hold"}
SPECIFICATION Spec
INVARIANTS TypeOK Agreement HoldTrue OfferEnds OfferWaits
PROPERTIES PtKeepsCodec
CHECK_DEADLOCK FALSE
