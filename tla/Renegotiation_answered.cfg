SPECIFICATION FairSpec
CONSTANTS
    t1 = t1  t2 = t2
    Existing = Existing
    None = None
    Tracks <- MCTracks
CHECK_DEADLOCK FALSE
PROPERTY OfferIsAnswered
