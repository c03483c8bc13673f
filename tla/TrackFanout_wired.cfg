SPECIFICATION FairSpec
CONSTANTS
    s1 = s1  s2 = s2  s3 = s3
    u1 = u1  u2 = u2
    video = video
    None = None
    Sessions <- MCSessions
    Users <- MCUsers
    Kinds <- OneKind
    Tracks <- OneTrack
    userOf <- Reload
CHECK_DEADLOCK FALSE
INVARIANT NoMissedTrack
INVARIANT IInv
PROPERTY TrackArrives
PROPERTY BroadcasterStops
