SPECIFICATION Spec
CONSTANTS
    s1 = s1  s2 = s2  s3 = s3
    u1 = u1  u2 = u2  u3 = u3
    m1 = m1
    None = None
    Sessions <- MCSessions
    Users <- MCUsers
    Meets <- MCMeets
    meetOf <- MCMeetOf
    userOf <- DistinctUsers
CHECK_DEADLOCK FALSE
PROPERTY OnlyFirstWalksIn
