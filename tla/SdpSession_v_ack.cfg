CONSTANTS
    Types = {"audio", "video"}
    DynPts = {96, 97, 98}
    DynCodecs = {"speex", "opus", "h264"}
    Offers <- MCOffers
    Media <- MCMedia
    MaxRequests = 2
    Declines = {"request"}
    Habits = {"own", "hold"}
SPECIFICATION Spec
INVARIANTS OfferWaits
CHECK_DEADLOCK FALSE
